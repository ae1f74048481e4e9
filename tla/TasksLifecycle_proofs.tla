----------------------- MODULE TasksLifecycle_proofs -----------------------
(***************************************************************************)
(* Theorems about executed tasks, for any number of jobs, messages and     *)
(* crashes: types, and no job without its executed task; the status that   *)
(* was announced; the status that reflects the jobs.                       *)
(***************************************************************************)
EXTENDS TasksLifecycle, FiniteSetTheorems, TLAPS

\* What is about to be saved has been decided, and the idle timeout job has no
\* jobs left: the strengthening of TypeOK.
Decided ==
  /\ \A p \in Processes : pc[p] = "saveTask" => target[p] \in TaskStatus
  /\ \A j \in Jobs : pc[j] = "saveJob" => status[j] \in JobStatus
  /\ pc[timeout] = "idle" => todo = {}

IInv == TypeOK /\ Decided

\* The consumers are processes, and none is the timeout job.
LEMMA ProcessNames ==
  /\ Jobs \subseteq Processes /\ {cancel, timeout, repair} \subseteq Processes
  /\ cancel \notin Jobs /\ timeout \notin Jobs /\ repair \notin Jobs
  /\ cancel # timeout /\ cancel # repair /\ timeout # repair
BY TasksAssumption DEF TasksAssumption, Processes

\* The consumers' logs are sequences of messages.
LEMMA LogType ==
  ASSUME AroundType, NEW j \in Jobs
  PROVE  Log(j) \in Seq(Message) /\ Len(Log(j)) \in Nat
<1>1. scenario \in Scenario
  BY TasksAssumption DEF TasksAssumption, AroundType
<1>2. Log(j) \in Seq(Message)
  BY <1>1 DEF Scenario, Log
<1> QED
  BY <1>2

\* Subsets of the jobs are no more than all jobs.
LEMMA JobCount ==
  ASSUME NEW S \in SUBSET Jobs
  PROVE  Cardinality(S) \in 0..Cardinality(Jobs)
<1>1. IsFiniteSet(Jobs)
  BY TasksAssumption DEF TasksAssumption
<1>2. IsFiniteSet(S) /\ Cardinality(S) <= Cardinality(Jobs)
  BY <1>1, FS_Subset
<1>3. Cardinality(S) \in Nat /\ Cardinality(Jobs) \in Nat
  BY <1>1, <1>2, FS_CardinalityType
<1> QED
  BY <1>2, <1>3

\* The combination of the jobs' statuses is a status of an executed task.
LEMMA NewStatusType == NewStatus \in TaskStatus
BY DEF NewStatus, Combined, TaskStatus

\* A process that returns or raises leaves all others as they are.
LEMMA QuitKeeps ==
  ASSUME LocalType, Decided, NEW p \in Processes, Quit(p)
  PROVE  LocalType' /\ Decided'
<1>1. /\ pc' = [pc EXCEPT ![p] = "idle"]
      /\ copy' = [copy EXCEPT ![p] = "none"] /\ target' = [target EXCEPT ![p] = "none"]
      /\ \A j \in Jobs : j # p => status'[j] = status[j]
      /\ jobCopy' \in [Jobs -> JobStatus \union {"none"}]
      /\ status' \in [Jobs -> JobStatus \union {"none", "result"}]
  BY DEF Quit, Goto, Forget, LocalType
<1>2. visits' \in 0..Cardinality(Jobs) /\ todo' \subseteq stale' /\ stale' \subseteq Jobs
  <2>1. Cardinality(Jobs) \in Nat
    BY JobCount
  <2> QED
    BY <2>1 DEF Quit, Forget, LocalType
<1>3. LocalType'
  BY <1>1, <1>2 DEF LocalType, Points
<1>4. pc'[timeout] = "idle" => todo' = {}
  BY <1>1, ProcessNames DEF Quit, Forget, LocalType, Decided
<1> QED
  BY <1>1, <1>3, <1>4, ProcessNames DEF LocalType, Decided

\* So does one that goes on.
LEMMA ReturnKeeps ==
  ASSUME LocalType, Decided, NEW p \in Processes, Return(p)
  PROVE  LocalType' /\ Decided'
<1>1. CASE Quit(p)
  BY <1>1, QuitKeeps
<1>2. CASE /\ \E point \in {"visit", "fetch"} : Goto(p, point)
           /\ UNCHANGED <<copy, target, jobCopy, status, visits, stale, todo>>
  BY <1>2, ProcessNames DEF Goto, LocalType, Decided, Points
<1> QED
  BY <1>1, <1>2 DEF Return

\* One process goes to another point, where what it needs is there.
LEMMA GotoKeeps ==
  ASSUME LocalType, Decided, NEW p \in Processes,
         NEW point \in Points \ {"idle", "saveTask", "saveJob"}, Goto(p, point),
         UNCHANGED <<target, status>>, p = timeout \/ UNCHANGED todo,
         copy' \in [Processes -> TaskStatus \union {"none"}],
         jobCopy' \in [Jobs -> JobStatus \union {"none"}],
         visits' \in 0..Cardinality(Jobs), todo' \subseteq stale', stale' \subseteq Jobs
  PROVE  LocalType' /\ Decided'
BY ProcessNames DEF Goto, LocalType, Decided

\* What is not rows or processes stays as it is.
LEMMA AroundKept ==
  ASSUME AroundType, UNCHANGED around
  PROVE  AroundType'
BY DEF AroundType, around, Log

\* A new status of the executed task, or none if it has no jobs, is one.
LEMMA UpdateKeeps ==
  ASSUME IInv, NEW p \in Processes, Update(p)
  PROVE  IInv'
<1> USE DEF IInv, TypeOK
<1>1. AroundType'
  BY AroundKept DEF Update, ReadStatuses, SaveTask, Announce, around
<1>2. CASE ReadStatuses(p)
  <2>1. CASE Decide(p)
    <3>1. CASE Return(p) /\ UNCHANGED <<rows, missed>>
      BY <1>1, <1>2, <3>1, ReturnKeeps DEF ReadStatuses, RowType, Stored, Statuses, rows, HistoryType
    <3>2. CASE /\ target' = [target EXCEPT ![p] = NewStatus] /\ Goto(p, "saveTask")
               /\ UNCHANGED <<rows, copy, jobCopy, status, visits, stale, todo, missed>>
      <4>1. LocalType' /\ Decided'
        BY <3>2, NewStatusType, ProcessNames DEF Goto, LocalType, Decided, Points
      <4> QED
        BY <1>1, <1>2, <3>2, <4>1 DEF ReadStatuses, RowType, Stored, Statuses, rows, HistoryType
    <3> QED
      BY <2>1, <3>1, <3>2 DEF Decide
  <2>2. CASE (Return(p) \/ Quit(p)) /\ UNCHANGED <<rows, missed>>
    BY <1>1, <1>2, <2>2, ReturnKeeps, QuitKeeps
    DEF ReadStatuses, RowType, Stored, Statuses, rows, HistoryType
  <2>3. CASE /\ Statuses = {} /\ extask' = "none" /\ Quit(p)
             /\ Overlap(Holding \ {p}) /\ UNCHANGED jobs
    <3>1. RowType'
      BY <2>3 DEF RowType, Stored, Statuses
    <3>2. HistoryType'
      BY <1>2, <2>3 DEF ReadStatuses, Overlap, HistoryType
    <3> QED
      BY <1>1, <2>3, <3>1, <3>2, QuitKeeps
  <2> QED
    BY <1>2, <2>1, <2>2, <2>3 DEF ReadStatuses
<1>3. CASE SaveTask(p)
  <2>1. target[p] \in TaskStatus
    BY <1>3 DEF SaveTask, Decided
  <2>2. RowType'
    BY <1>3, <2>1 DEF SaveTask, RowType, Stored, Statuses, TaskStatus
  <2>3. HistoryType'
    BY <1>3 DEF SaveTask, HistoryType
  <2>4. LocalType' /\ Decided'
    <3>1. CASE Return(p)
      BY <3>1, ReturnKeeps
    <3>2. CASE Goto(p, "announce") /\ UNCHANGED <<copy, target, jobCopy, status, visits, stale, todo>>
      BY <3>2, GotoKeeps DEF Points, LocalType
    <3> QED
      BY <1>3, <3>1, <3>2 DEF SaveTask
  <2> QED
    BY <1>1, <2>2, <2>3, <2>4
<1>4. CASE Announce(p)
  BY <1>1, <1>4, ReturnKeeps
  DEF Announce, rows, RowType, Stored, Statuses, LocalType, HistoryType
<1> QED
  BY <1>2, <1>3, <1>4 DEF Update

\* The next message is one, and counting it stays within the log.
LEMMA PolledType ==
  ASSUME AroundType, NEW j \in Jobs, HasMessage(j), Polled(j), UNCHANGED <<scenario, active, crashes>>
  PROVE  AroundType' /\ NextMessage(j) \in Message
<1>1. offset[j] \in Nat /\ offset[j] < Len(Log(j)) /\ Log(j) \in Seq(Message)
  BY LogType DEF HasMessage, AroundType
<1>2. NextMessage(j) \in Message
  BY <1>1 DEF NextMessage
<1>3. AroundType'
  BY <1>1, LogType DEF AroundType, Polled, Log
<1> QED
  BY <1>2, <1>3

\* A handler saves a job only while its executed task is stored.
LEMMA JobSaved ==
  ASSUME RowType, Stored, NEW j \in Jobs, NEW new \in JobStatus \union {"none"},
         jobs' = [jobs EXCEPT ![j] = new], UNCHANGED extask
  PROVE  RowType'
BY DEF RowType, Stored

\* The consumers' steps keep the types; each job that they save has a task.
LEMMA ServiceKeeps ==
  ASSUME IInv, NEW j \in Jobs, Service(j)
  PROVE  IInv'
<1> USE DEF IInv, TypeOK
<1>0. j \in Processes
  BY ProcessNames
<1>1. CASE Drop(j)
  <2>1. LocalType' /\ Decided'
    BY <1>1 DEF Drop, local, LocalType, Decided
  <2> QED
    BY <1>1, <2>1, PolledType DEF Drop, rows, RowType, Stored, Statuses, HistoryType
<1>2. CASE Receive(j)
  <2> DEFINE m == NextMessage(j)
  <2>1. AroundType' /\ m \in JobStatus \union {"result"}
    BY <1>2, PolledType DEF Receive, Message
  <2>2. jobs[j] \in JobStatus \union {"none"} /\ jobs[j] # "none"
    BY <1>2 DEF Receive, RowType
  <2>3. /\ status' = [status EXCEPT ![j] = m]
        /\ jobCopy' = [jobCopy EXCEPT ![j] = IF m = "result" THEN jobs[j] ELSE m]
        /\ \E point \in {"saveStdout", "load", "saveJob"} :
             Goto(j, point) /\ (point = "saveJob" => m # "result")
        /\ UNCHANGED <<copy, target, visits, stale, todo>>
    BY <1>2 DEF Receive
  <2>4. LocalType' /\ Decided'
    <3> HIDE DEF m
    <3> QED
      BY <2>1, <2>2, <2>3, <1>0 DEF Goto, LocalType, Decided, Points
  <2> QED
    BY <1>2, <2>1, <2>4 DEF Receive, rows, RowType, Stored, Statuses, HistoryType
<1>3. CASE SaveFails(j)
  BY <1>0, <1>3, QuitKeeps, AroundKept DEF SaveFails, rows, RowType, Stored, Statuses, HistoryType
<1>4. CASE SaveJob(j)
  <2>1. RowType'
    BY <1>4, JobSaved DEF SaveJob, Decided
  <2>2. LocalType' /\ Decided'
    BY <1>0, <1>4, GotoKeeps DEF SaveJob, Points, LocalType
  <2> QED
    BY <1>4, <2>1, <2>2, AroundKept DEF SaveJob, Overlap, HistoryType
<1>5. CASE LoadTask(j)
  <2>1. LocalType' /\ Decided'
    <3>1. CASE Quit(j)
      BY <1>0, <3>1, QuitKeeps
    <3>2. CASE /\ Stored /\ copy' = [copy EXCEPT ![j] = extask] /\ Goto(j, "read")
               /\ UNCHANGED <<target, jobCopy, status, visits, stale, todo>>
      BY <1>0, <3>2, GotoKeeps DEF Points, LocalType, RowType, Stored
    <3> QED
      BY <1>5, <3>1, <3>2 DEF LoadTask
  <2> QED
    BY <1>5, <2>1, AroundKept DEF LoadTask, rows, RowType, Stored, Statuses, HistoryType
<1>6. CASE FetchStdout(j)
  <2>1. LocalType' /\ Decided'
    BY <1>0, <1>6, QuitKeeps, GotoKeeps DEF FetchStdout, Points, LocalType
  <2> QED
    BY <1>6, <2>1, AroundKept DEF FetchStdout, rows, RowType, Stored, Statuses, HistoryType
<1>7. CASE SaveStdout(j)
  <2>1. jobCopy[j] \in JobStatus \union {"none"}
    BY DEF LocalType
  <2>2. RowType' /\ HistoryType' /\ AroundType'
    BY <1>7, <2>1, JobSaved, AroundKept DEF SaveStdout, Write, HistoryType
  <2> QED
    BY <1>0, <1>7, <2>2, GotoKeeps DEF SaveStdout, Points, LocalType
<1>8. CASE SaveResult(j)
  <2>1. PICK parsed \in {"success", "failure"} : Write(j, parsed)
    BY <1>8 DEF SaveResult
  <2>2. RowType' /\ HistoryType' /\ AroundType'
    BY <1>8, <2>1, JobSaved, AroundKept DEF SaveResult, Write, HistoryType, JobStatus, Final
  <2>3. LocalType' /\ Decided'
    BY <1>0, <1>8, QuitKeeps, GotoKeeps DEF SaveResult, Points, LocalType
  <2> QED
    BY <2>2, <2>3
<1> QED
  BY <1>1, <1>2, <1>3, <1>4, <1>5, <1>6, <1>7, <1>8 DEF Service

\* A consumer that dies forgets; it resumes at an offset it has passed.
LEMMA CrashKeeps ==
  ASSUME IInv, NEW j \in Jobs, Crash(j)
  PROVE  IInv'
<1> USE DEF IInv, TypeOK
<1>1. PICK committed \in 0..offset[j] : offset' = [offset EXCEPT ![j] = committed]
  BY DEF Crash
<1>2. AroundType'
  BY <1>1, LogType DEF Crash, AroundType, Log
<1>3. LocalType' /\ Decided'
  BY ProcessNames, QuitKeeps DEF Crash
<1> QED
  BY <1>2, <1>3 DEF Crash, rows, RowType, Stored, Statuses, HistoryType

\* Requests and the repair store jobs with, and delete them with, their task.
LEMMA RequestKeeps ==
  ASSUME IInv, Create \/ CreateFails \/ CancelStart \/ CancelJobs \/ Destroy \/ RepairStart
  PROVE  IInv'
<1> USE DEF IInv, TypeOK
<1>1. AroundType'
  BY AroundKept DEF Create, CreateFails, CancelStart, CancelJobs, Destroy, RepairStart
<1>2. CASE Create \/ CreateFails \/ Destroy
  <2>1. LocalType' /\ Decided'
    BY <1>2 DEF Create, CreateFails, Destroy, local, LocalType, Decided
  <2>2. RowType'
    BY <1>2 DEF Create, CreateFails, Destroy, RowType, Stored, Statuses, TaskStatus, JobStatus, Final
  <2>3. HistoryType'
    BY <1>2 DEF Create, CreateFails, Destroy, Overlap, HistoryType, TaskStatus
  <2> QED
    BY <1>1, <2>1, <2>2, <2>3
<1>3. CASE CancelStart \/ RepairStart
  <2>1. extask \in TaskStatus
    BY <1>3 DEF CancelStart, RepairStart, RowType, Stored, TaskStatus
  <2>2. LocalType' /\ Decided'
    BY <1>3, <2>1, ProcessNames, GotoKeeps DEF CancelStart, RepairStart, Points, LocalType
  <2> QED
    BY <1>1, <1>3, <2>2 DEF CancelStart, RepairStart, rows, RowType, Stored, Statuses, HistoryType
<1>4. CASE CancelJobs
  <2>1. RowType'
    BY <1>4 DEF CancelJobs, RowType, Stored, Statuses, JobStatus, Final
  <2>2. LocalType' /\ Decided'
    BY <1>4, ProcessNames, GotoKeeps DEF CancelJobs, Points, LocalType
  <2> QED
    BY <1>1, <1>4, <2>1, <2>2 DEF CancelJobs, Overlap, HistoryType
<1> QED
  BY <1>2, <1>3, <1>4

\* Withdrawing the task changes no row and no process.
LEMMA DeactivateKeeps ==
  ASSUME IInv, Deactivate
  PROVE  IInv'
BY ZenonT(60) DEF IInv, TypeOK, Decided, Deactivate, AroundType, RowType, LocalType, HistoryType,
       Stored, Statuses, Log, rows, local

\* The timeout job saves jobs whose task is stored, or fails.
LEMMA TimeoutKeeps ==
  ASSUME IInv, Timeout
  PROVE  IInv'
<1> USE DEF IInv, TypeOK
<1>0. timeout \in Processes
  BY ProcessNames
<1>1. AroundType'
  BY AroundKept DEF Timeout, TimeoutSelect, TimeoutVisit, TimeoutExpire
<1>2. CASE TimeoutSelect
  <2>1. stale' \in SUBSET Jobs /\ visits' \in 0..Cardinality(Jobs) /\ todo' = {}
    BY <1>2, JobCount DEF TimeoutSelect, Running, Decided
  <2>2. extask \in TaskStatus
    BY <1>2 DEF TimeoutSelect, RowType, Stored
  <2>3. LocalType' /\ Decided'
    BY <1>0, <1>2, <2>1, <2>2, GotoKeeps DEF TimeoutSelect, Points, LocalType
  <2> QED
    BY <1>1, <1>2, <2>3 DEF TimeoutSelect, rows, RowType, Stored, Statuses, HistoryType
<1>3. CASE TimeoutVisit
  <2>1. CASE Quit(timeout)
    BY <1>0, <1>1, <1>3, <2>1, QuitKeeps
    DEF TimeoutVisit, rows, RowType, Stored, Statuses, HistoryType
  <2>2. CASE visits # 0 /\ ~Quit(timeout)
    <3>1. /\ visits' = visits - 1 /\ todo' = stale \cap Running
          /\ \E point \in {"read", "expire"} : Goto(timeout, point)
          /\ UNCHANGED <<copy, target, jobCopy, status, stale>>
      BY <1>3, <2>2 DEF TimeoutVisit
    <3>2. visits' \in 0..Cardinality(Jobs)
      BY <2>2, <3>1, JobCount DEF LocalType
    <3>3. LocalType' /\ Decided'
      BY <1>0, <3>1, <3>2, GotoKeeps DEF Points, LocalType
    <3> QED
      BY <1>1, <1>3, <3>3 DEF TimeoutVisit, rows, RowType, Stored, Statuses, HistoryType
  <2> QED
    BY <1>3, <2>1, <2>2 DEF TimeoutVisit
<1>4. CASE TimeoutExpire
  <2>1. CASE Quit(timeout) /\ UNCHANGED <<jobs, missed>>
    BY <1>0, <1>1, <1>4, <2>1, QuitKeeps
    DEF TimeoutExpire, RowType, Stored, Statuses, HistoryType
  <2>2. CASE \E j \in todo :
               /\ jobs[j] # "none" /\ jobs' = [jobs EXCEPT ![j] = "timeout"]
               /\ todo' = todo \ {j}
               /\ Goto(timeout, IF todo' = {} THEN "read" ELSE "expire")
               /\ Overlap(Updating)
               /\ UNCHANGED <<copy, target, jobCopy, status, visits, stale>>
    <3>1. PICK j \in Jobs :
            /\ jobs[j] # "none" /\ jobs' = [jobs EXCEPT ![j] = "timeout"]
            /\ todo' = todo \ {j}
      BY <2>2 DEF LocalType
    <3>2. Stored
      BY <3>1 DEF RowType, Statuses
    <3>3. RowType'
      BY <1>4, <3>1, <3>2, JobSaved DEF TimeoutExpire, JobStatus, Final
    <3>4. \E point \in {"read", "expire"} : Goto(timeout, point)
      BY <2>2
    <3>5. LocalType' /\ Decided'
      BY <1>0, <2>2, <3>1, <3>4, GotoKeeps DEF Points, LocalType
    <3>6. HistoryType'
      BY <1>4, <2>2 DEF TimeoutExpire, Overlap, HistoryType
    <3> QED
      BY <1>1, <3>3, <3>5, <3>6
  <2> QED
    BY <1>4, <2>1, <2>2 DEF TimeoutExpire
<1> QED
  BY <1>2, <1>3, <1>4 DEF Timeout

\* The strengthening of TypeOK is an invariant.
LEMMA InvariantHolds == Spec => []IInv
<1>1. Init => IInv
  <2> SUFFICES ASSUME Init PROVE IInv
    OBVIOUS
  <2>1. AroundType
    BY LogType, TasksAssumption DEF Init, AroundType, TasksAssumption, Scenario, Log
  <2>2. RowType /\ HistoryType
    BY DEF Init, RowType, Stored, Statuses, HistoryType
  <2>3. LocalType
    BY JobCount DEF Init, LocalType, Points
  <2> QED
    BY <2>1, <2>2, <2>3, ProcessNames DEF Init, IInv, TypeOK, Decided
<1>2. IInv /\ [Next]_vars => IInv'
  <2> SUFFICES ASSUME IInv, [Next]_vars PROVE IInv'
    OBVIOUS
  <2>1. CASE UNCHANGED vars
    BY <2>1, SMTT(30) DEF IInv, TypeOK, Decided, AroundType, RowType, LocalType, HistoryType,
                Stored, Statuses, Log, vars, rows, around, local
  <2>2. CASE Next
    BY <2>1, <2>2, ServiceKeeps, CrashKeeps, UpdateKeeps, RequestKeeps, DeactivateKeeps,
       TimeoutKeeps
    DEF Next, Settled
  <2> QED
    BY <2>1, <2>2
<1> QED
  BY <1>1, <1>2, PTL DEF Spec
\* "executed_task = ForeignKey" (tasks/models.py): whatever requests, consumers
\* and the timeout job do in whatever order, no job is stored without its
\* executed task, and every variable keeps its type.
THEOREM TypeCorrect == Spec => []TypeOK
BY InvariantHolds, PTL DEF IInv

-----------------------------------------------------------------------------
\* The announcements: nobody has read an executed task that is not committed.
Unread == extask = "dispatching" => \A p \in Processes : pc[p] = "idle"

Over  == Stored /\ extask # "running"
Clean == missed \subseteq {"overlap", "stdout", "again"}

\* While processes announce, the executed task has the status that they saved,
\* is running again, or is gone; otherwise its status has been announced.
Announced ==
  Clean => /\ Over => \A p \in Announcing : target[p] = extask
           /\ Over /\ Announcing = {} => told = extask

\* The same processes announce the same statuses.
AnnouncersKept ==
  \A q \in Processes : /\ pc'[q] = "announce" <=> pc[q] = "announce"
                       /\ pc[q] = "announce" => target'[q] = target[q]

\* Nothing is recorded as missed and forgotten.
LEMMA KeptAnnounced ==
  ASSUME Announced, AnnouncersKept, missed \subseteq missed', UNCHANGED told,
         extask' = extask \/ extask' \in {"none", "running"}
  PROVE  Announced'
BY DEF Announced, AnnouncersKept, Announcing, Clean, Over, Stored

\* Who does not announce and goes on, or returns, changes no announcement.
LEMMA OtherAnnouncers ==
  ASSUME LocalType, NEW p \in Processes, pc[p] # "announce",
         \/ Quit(p) \/ Return(p)
         \/ /\ \E point \in Points \ {"announce"} : Goto(p, point)
            /\ \A q \in Processes \ {p} : target'[q] = target[q]
  PROVE  AnnouncersKept
<1>1. /\ \E point \in Points \ {"announce"} : pc' = [pc EXCEPT ![p] = point]
      /\ \A q \in Processes \ {p} : target'[q] = target[q]
  BY DEF Return, Quit, Forget, Goto, LocalType, Points
<1> QED
  BY <1>1 DEF AnnouncersKept, LocalType

\* update_executed_task_status announces what it has saved.
LEMMA UpdateAnnounces ==
  ASSUME IInv, Announced, NEW p \in Processes, Update(p)
  PROVE  Announced'
<1> USE DEF IInv, TypeOK
<1>1. CASE ReadStatuses(p)
  <2>1. AnnouncersKept
    <3>1. CASE /\ target' = [target EXCEPT ![p] = NewStatus] /\ Goto(p, "saveTask")
      BY <1>1, <3>1, OtherAnnouncers DEF ReadStatuses, Points, LocalType
    <3> QED
      BY <1>1, <3>1, OtherAnnouncers DEF ReadStatuses, Decide
  <2>2. missed \subseteq missed' /\ (extask' = extask \/ extask' = "none") /\ told' = told
    BY <1>1 DEF ReadStatuses, Decide, Overlap, rows
  <2> QED
    BY <2>1, <2>2, KeptAnnounced
<1>2. CASE SaveTask(p)
  <2>1. CASE target[p] # "running" /\ p # repair
    <3>1. Clean' => Announcing = {}
      BY <1>2, <2>1 DEF SaveTask, Clean
    <3>2. pc' = [pc EXCEPT ![p] = "announce"] /\ UNCHANGED target /\ extask' = target[p]
      BY <1>2, <2>1 DEF SaveTask, Goto
    <3> QED
      BY <3>1, <3>2 DEF Announced, Announcing, Clean, LocalType
  <2>2. CASE target[p] = "running"
    <3>1. AnnouncersKept
      BY <1>2, <2>2, OtherAnnouncers DEF SaveTask
    <3> QED
      BY <1>2, <2>2, <3>1, KeptAnnounced DEF SaveTask
  <2>3. CASE target[p] # "running" /\ p = repair
    BY <1>2, <2>3 DEF SaveTask, Announced, Clean
  <2> QED
    BY <2>1, <2>2, <2>3
<1>3. CASE Announce(p)
  <2>1. \A q \in Processes \ {p} : pc'[q] = pc[q] /\ target'[q] = target[q]
    BY <1>3 DEF Announce, Return, Quit, Forget, Goto, LocalType
  <2>2. pc'[p] # "announce"
    BY <1>3 DEF Announce, Return, Quit, Goto, LocalType
  <2>3. p \in Announcing /\ told' = target[p] /\ UNCHANGED <<extask, missed>>
    BY <1>3 DEF Announce, Announcing, rows
  <2> QED
    BY <2>1, <2>2, <2>3 DEF Announced, Announcing, Clean, Over, Stored
<1> QED
  BY <1>1, <1>2, <1>3 DEF Update

\* The consumers' other steps, and all other processes, announce nothing.
LEMMA ServiceAnnounces ==
  ASSUME IInv, Announced, NEW j \in Jobs, Service(j)
  PROVE  Announced'
<1> USE DEF IInv, TypeOK
<1>1. j \in Processes
  BY ProcessNames
<1>2. extask' = extask /\ told' = told /\ missed \subseteq missed'
  BY DEF Service, Drop, Receive, SaveJob, SaveFails, LoadTask, FetchStdout, SaveStdout,
         SaveResult, Write, Overlap, rows
<1>3. CASE Drop(j)
  BY <1>2, <1>3, KeptAnnounced DEF Drop, local, AnnouncersKept
<1>4. CASE ~Drop(j)
  <2>1. pc[j] # "announce"
    BY <1>4 DEF Service, Receive, HasMessage, SaveJob, SaveFails, LoadTask, FetchStdout,
                SaveStdout, SaveResult
  <2>2. \/ Quit(j)
        \/ (\E point \in Points \ {"announce"} : Goto(j, point)) /\ UNCHANGED target
    BY <1>4 DEF Service, Receive, SaveJob, SaveFails, LoadTask, FetchStdout, SaveStdout,
                SaveResult, Points
  <2> QED
    BY <1>1, <1>2, <2>1, <2>2, OtherAnnouncers, KeptAnnounced
<1> QED
  BY <1>3, <1>4

\* A consumer that dies before it announces is recorded.
LEMMA CrashAnnounces ==
  ASSUME IInv, Announced, NEW j \in Jobs, Crash(j)
  PROVE  Announced'
<1> USE DEF IInv, TypeOK
<1>1. extask' = extask /\ told' = told /\ missed \subseteq missed'
  BY DEF Crash, rows
<1>2. CASE pc[j] = "announce"
  BY <1>2 DEF Crash, Announced, Clean
<1>3. CASE pc[j] # "announce"
  BY <1>1, <1>3, ProcessNames, OtherAnnouncers, KeptAnnounced DEF Crash
<1> QED
  BY <1>2, <1>3

\* create announces a task whose jobs all failed; the others announce nothing.
LEMMA RequestAnnounces ==
  ASSUME IInv, Unread, Announced,
         Create \/ CreateFails \/ CancelStart \/ CancelJobs \/ Destroy \/ RepairStart \/ Timeout
  PROVE  Announced'
<1> USE DEF IInv, TypeOK
<1>1. CASE Create \/ CreateFails \/ Destroy
  <2>1. UNCHANGED <<pc, target>>
    BY <1>1 DEF Create, CreateFails, Destroy, local
  <2>2. (Create \/ CreateFails) => Announcing = {} /\ Announcing' = {}
    BY <2>1 DEF Create, CreateFails, Unread, Announcing
  <2>3. CASE Destroy
    BY <2>1, <2>3, KeptAnnounced DEF Destroy, Overlap, AnnouncersKept
  <2>4. CASE Create \/ CreateFails
    BY <2>2, <2>4 DEF Create, CreateFails, Announced, Over, Stored
  <2> QED
    BY <1>1, <2>3, <2>4
<1>2. CASE CancelStart \/ CancelJobs \/ RepairStart \/ Timeout
  <2>1. extask' = extask /\ told' = told /\ missed \subseteq missed'
    BY <1>2 DEF CancelStart, CancelJobs, RepairStart, Timeout, TimeoutSelect, TimeoutVisit,
                TimeoutExpire, Overlap, rows
  <2>2. \E p \in {cancel, repair, timeout} :
          /\ pc[p] # "announce"
          /\ \/ Quit(p)
             \/ (\E point \in Points \ {"announce"} : Goto(p, point)) /\ UNCHANGED target
    BY <1>2 DEF CancelStart, CancelJobs, RepairStart, Timeout, TimeoutSelect, TimeoutVisit,
                TimeoutExpire, Points
  <2> QED
    BY <2>1, <2>2, ProcessNames, OtherAnnouncers, KeptAnnounced
<1> QED
  BY <1>1, <1>2

\* Every process starts from a stored executed task.
LEMMA UnreadKept ==
  ASSUME IInv, Unread, Next
  PROVE  Unread'
<1> USE DEF IInv, TypeOK
<1>1. CASE extask' # "dispatching"
  BY <1>1 DEF Unread
<1>2. CASE extask' = "dispatching"
  <2>1. CASE \E p \in Processes : Update(p)
    <3>1. PICK p \in Processes : Update(p)
      BY <2>1
    <3>2. pc[p] # "idle" /\ (extask' = extask \/ extask' \in {"none"} \union TaskStatus)
      BY <3>1 DEF Update, ReadStatuses, SaveTask, Announce, Decide, Decided, rows
    <3> QED
      BY <1>2, <3>2 DEF Unread, TaskStatus
  <2>2. CASE \E j \in Jobs : Service(j) \/ Crash(j)
    <3>1. PICK j \in Jobs : Service(j) \/ Crash(j)
      BY <2>2
    <3>2. UNCHANGED extask
      BY <3>1 DEF Crash, Service, Drop, Receive, SaveJob, SaveFails, LoadTask, FetchStdout,
                  SaveStdout, SaveResult, Write, rows
    <3>3. jobs[j] = "none" /\ pc[j] = "idle" /\ \A p \in Processes : pc[p] = "idle"
      BY <1>2, <3>2, ProcessNames DEF Unread, RowType, Stored, Statuses
    <3>4. Drop(j) \/ Quit(j)
      BY <3>1, <3>3 DEF Crash, Service, Receive, SaveJob, SaveFails, LoadTask, FetchStdout,
                        SaveStdout, SaveResult
    <3> QED
      BY <3>3, <3>4 DEF Drop, Quit, Goto, local, LocalType, Unread
  <2>3. CASE Create \/ CreateFails \/ CancelStart \/ CancelJobs \/ Destroy \/ RepairStart
    <3>1. extask # "dispatching" /\ UNCHANGED extask
      BY <1>2, <2>3, ProcessNames DEF Create, CreateFails, CancelStart, CancelJobs, Destroy,
                        RepairStart, Unread, Stored, rows
    <3> QED
      BY <1>2, <3>1
  <2>4. CASE Timeout
    <3>1. extask # "dispatching" /\ UNCHANGED extask
      BY <1>2, <2>4, ProcessNames DEF Timeout, TimeoutSelect, TimeoutVisit, TimeoutExpire,
                        Unread, Stored, rows
    <3> QED
      BY <1>2, <3>1
  <2>5. CASE Settled \/ Deactivate
    BY <1>2, <2>5 DEF Settled, Deactivate, vars, rows, local, Unread
  <2> QED
    BY <2>1, <2>2, <2>3, <2>4, <2>5 DEF Next
<1> QED
  BY <1>1, <1>2

\* "send messages about the updated executed task status"
\* (update_executed_task_status): however requests, consumers, the timeout job and
\* the repair interleave, the last announcement names the status of a task that is
\* over, but for the cases that LastAnnounced excepts.
THEOREM StatusAnnounced == Spec => []LastAnnounced
<1>1. Init => Unread /\ Announced
  BY DEF Init, Unread, Announced, Announcing, Over, Stored
<1>2. IInv /\ IInv' /\ Unread /\ Announced /\ [Next]_vars => Unread' /\ Announced'
  <2> SUFFICES ASSUME IInv, Unread, Announced, [Next]_vars
               PROVE  Unread' /\ Announced'
    OBVIOUS
  <2>1. CASE UNCHANGED vars
    BY <2>1 DEF Unread, Announced, Announcing, Clean, Over, Stored, vars, rows, local
  <2>2. CASE Next
    <3>1. Unread'
      BY <2>2, UnreadKept
    <3>2. CASE Settled
      BY <2>1, <3>2 DEF Settled
    <3>3. CASE Deactivate
      BY <3>1, <3>3 DEF Deactivate, Announced, Announcing, Clean, Over, Stored, rows, local
    <3>4. CASE ~Settled /\ ~Deactivate
      BY <2>2, <3>1, <3>4, ServiceAnnounces, CrashAnnounces, UpdateAnnounces, RequestAnnounces
      DEF Next
    <3> QED
      BY <3>1, <3>2, <3>3, <3>4
  <2> QED
    BY <2>1, <2>2
<1>3. Announced => LastAnnounced
  BY DEF Announced, LastAnnounced, Clean, Over
<1> QED
  BY <1>1, <1>2, <1>3, InvariantHolds, PTL DEF Spec

-----------------------------------------------------------------------------
(***************************************************************************)
(* The executed task reflects its jobs.  While nothing is missed, its      *)
(* status is the one the jobs ask for, or a process that has written a job *)
(* will read the jobs again, with a copy that is not outdated.             *)
(***************************************************************************)

Untouched == missed \subseteq {"silent", "order"}

\* p will read the statuses of the jobs, or has decided what to save.
BoundTo(p) ==
  \/ pc[p] \in {"saveJob", "load", "saveTask"}
  \/ p \in Jobs /\ pc[p] \in {"saveStdout", "saveResult"} /\ status[p] = "result"
  \/ pc[p] \in {"update", "expire", "read"} /\ copy[p] = extask

\* A copy is not outdated, but the timeout job's between two visits; what is to
\* be saved is what the jobs ask for.
HeldBy(p) ==
  /\ pc[p] \in {"update", "expire", "read"} /\ p # timeout => copy[p] = extask /\ Stored
  /\ pc[p] = "expire" => copy[p] = extask /\ Stored
  /\ pc[p] = "saveTask" => target[p] = NewStatus /\ Stored

AllStored == Stored => \A j \in Jobs : jobs[j] # "none"

Following ==
  Untouched => /\ AllStored
               /\ \A p \in Processes : HeldBy(p)
               /\ Stored => extask = NewStatus \/ \E p \in Processes : BoundTo(p)

\* A status that the jobs ask for reflects them.
LEMMA NewReflects ==
  ASSUME RowType, Stored, AllStored, extask = NewStatus
  PROVE  Reflects(extask)
<1> USE DEF RowType, AllStored, JobStatus, Final
<1>0. \A st : st \in Statuses <=> st # "none" /\ \E j \in Jobs : jobs[j] = st
  BY DEF Statuses
<1>1. Jobs # {}
  BY TasksAssumption DEF TasksAssumption
<1>2. \A j \in Jobs : jobs[j] \in {"success", "failure", "timeout", "cancelled", "running"}
  OBVIOUS
<1>3. CASE "running" \in Statuses
  BY <1>0, <1>3 DEF NewStatus, Reflects
<1>4. CASE "running" \notin Statuses
  <2>1. \A j \in Jobs : jobs[j] # "running"
    BY <1>0, <1>4
  <2>2. extask = Combined(Statuses)
    BY <1>4 DEF NewStatus
  <2>3. CASE "cancelled" \in Statuses
    BY <1>0, <2>1, <2>2, <2>3 DEF Combined, Reflects
  <2>4. CASE "cancelled" \notin Statuses /\ Statuses = {"success"}
    <3>1. \A j \in Jobs : jobs[j] = "success"
      BY <1>0, <1>2, <2>4
    <3> QED
      BY <2>2, <2>4, <3>1 DEF Combined, Reflects
  <2>5. CASE "cancelled" \notin Statuses /\ Statuses # {"success"} /\ "success" \in Statuses
    <3>1. \E st \in Statuses : st # "success"
      BY <2>5
    <3>2. \E j \in Jobs : jobs[j] # "success" /\ jobs[j] # "cancelled"
      BY <1>0, <2>5, <3>1
    <3>3. extask = "completedWithErrors"
      BY <2>2, <2>5 DEF Combined
    <3> QED
      BY <1>0, <1>2, <2>1, <2>5, <3>2, <3>3 DEF Reflects
  <2>6. CASE "cancelled" \notin Statuses /\ "success" \notin Statuses
    <3>1. extask = "failure"
      BY <2>2, <2>6 DEF Combined
    <3> QED
      BY <1>0, <2>1, <2>6, <3>1 DEF Reflects
  <2> QED
    BY <2>3, <2>4, <2>5, <2>6
<1> QED
  BY <1>3, <1>4

\* A step of q leaves the other processes where they are.
OthersStay(q) ==
  \A p \in Processes \ {q} :
    /\ pc'[p] = pc[p] /\ copy'[p] = copy[p] /\ target'[p] = target[p]
    /\ p \in Jobs => status'[p] = status[p]

LEMMA StepOfOne ==
  ASSUME LocalType, NEW q \in Processes
  PROVE  /\ Quit(q) => OthersStay(q) /\ pc'[q] = "idle"
         /\ Return(q) => OthersStay(q) /\ pc'[q] \in {"idle", "visit", "fetch"}
         /\ \A point : Goto(q, point) /\ UNCHANGED <<copy, target, status>>
                         => OthersStay(q) /\ pc'[q] = point
BY DEF Quit, Return, Forget, Goto, OthersStay, LocalType

\* The rows stay: others remain bound, and q is still or the status is right.
LEMMA RowsStay ==
  ASSUME Following, NEW q \in Processes, OthersStay(q), UNCHANGED rows,
         missed \subseteq missed', Untouched' => HeldBy(q)',
         Untouched' /\ Stored /\ BoundTo(q) => BoundTo(q)' \/ extask = NewStatus
  PROVE  Following'
<1> SUFFICES ASSUME Untouched'
             PROVE  /\ AllStored' /\ \A p \in Processes : HeldBy(p)'
                    /\ Stored' => extask' = NewStatus' \/ \E p \in Processes : BoundTo(p)'
  BY DEF Following
<1>1. Untouched
  BY DEF Untouched
<1>2. AllStored' /\ Stored' = Stored /\ NewStatus' = NewStatus
  BY <1>1 DEF rows, Following, AllStored, Stored, NewStatus, Statuses
<1>3. ASSUME NEW p \in Processes \ {q}
      PROVE  HeldBy(p)' /\ (BoundTo(p) => BoundTo(p)')
  BY <1>1, <1>2 DEF OthersStay, rows, Following, HeldBy, BoundTo
<1> QED
  BY <1>1, <1>2, <1>3 DEF rows, Following

\* Jobs of a stored task are written, by a process that will read them and while
\* nobody is about to save.
LEMMA JobsWritten ==
  ASSUME Following, NEW q \in Processes, OthersStay(q), UNCHANGED extask, Stored,
         missed \subseteq missed',
         \A j \in Jobs : jobs[j] # "none" => jobs'[j] # "none",
         Untouched' => /\ HeldBy(q)' /\ BoundTo(q)'
                       /\ \A p \in Processes \ {q} : pc[p] # "saveTask"
  PROVE  Following'
<1> SUFFICES ASSUME Untouched'
             PROVE  /\ AllStored' /\ \A p \in Processes : HeldBy(p)'
                    /\ Stored' => extask' = NewStatus' \/ \E p \in Processes : BoundTo(p)'
  BY DEF Following
<1>1. Untouched
  BY DEF Untouched
<1>2. AllStored' /\ Stored'
  BY <1>1 DEF Following, AllStored, Stored
<1>3. ASSUME NEW p \in Processes \ {q}
      PROVE  HeldBy(p)'
  BY <1>1, <1>2 DEF OthersStay, Following, HeldBy
<1> QED
  BY <1>2, <1>3

\* While a handler runs, its Job copy is there.
Copied == \A j \in Jobs : pc[j] # "idle" => jobCopy[j] # "none"

LEMMA CopiedKept ==
  ASSUME IInv, Copied, [Next]_vars
  PROVE  Copied'
<1> USE DEF IInv, TypeOK
<1>1. ASSUME NEW q \in Processes, Quit(q) \/ (Return(q) /\ pc[q] # "idle")
      PROVE  Copied'
  <2>1. CASE Quit(q)
    BY <2>1 DEF Quit, Forget, Goto, Copied, LocalType
  <2>2. CASE /\ \E point : Goto(q, point)
             /\ pc[q] # "idle" /\ UNCHANGED jobCopy
    BY <2>2 DEF Goto, Copied, LocalType
  <2> QED
    BY <1>1, <2>1, <2>2 DEF Return
<1>2. ASSUME NEW q \in Processes, pc[q] # "idle" \/ q \notin Jobs, UNCHANGED jobCopy,
             NEW point, Goto(q, point)
      PROVE  Copied'
  BY <1>2 DEF Goto, Copied, LocalType
<1>3. CASE UNCHANGED <<pc, jobCopy>>
  BY <1>3 DEF Copied
<1>4. ASSUME NEW q \in Processes, Update(q)
      PROVE  Copied'
  <2>1. pc[q] # "idle"
    BY <1>4 DEF Update, ReadStatuses, SaveTask, Announce
  <2>2. \/ Quit(q) \/ Return(q)
        \/ (\E point \in {"saveTask", "announce"} : Goto(q, point)) /\ UNCHANGED jobCopy
    BY <1>4 DEF Update, ReadStatuses, Decide, SaveTask, Announce
  <2>3. CASE \E point \in {"saveTask", "announce"} : Goto(q, point) /\ UNCHANGED jobCopy
    BY <1>2, <2>1, <2>3
  <2> QED
    BY <1>1, <2>1, <2>2, <2>3
<1>5. ASSUME NEW j \in Jobs, Receive(j)
      PROVE  Copied'
  <2>1. Log(j) \in Seq(Message) /\ offset[j] + 1 \in 1..Len(Log(j))
    BY <1>5, LogType DEF Receive, HasMessage, AroundType
  <2>2. NextMessage(j) # "none"
    BY <2>1 DEF NextMessage, Message, JobStatus, Final
  <2>3. /\ jobCopy' = [jobCopy EXCEPT ![j] =
                         IF NextMessage(j) = "result" THEN jobs[j] ELSE NextMessage(j)]
        /\ jobs[j] # "none" /\ \E point : pc' = [pc EXCEPT ![j] = point]
    BY <1>5 DEF Receive, Goto
  <2> QED
    BY <2>2, <2>3 DEF Copied, LocalType
<1>6. ASSUME NEW j \in Jobs, Service(j) \/ Crash(j), ~Receive(j)
      PROVE  Copied'
  <2>1. j \in Processes
    BY ProcessNames
  <2> QED
    BY <1>1, <1>2, <1>3, <1>6, <2>1
    DEF Service, Drop, SaveJob, SaveFails, LoadTask, FetchStdout, SaveStdout, SaveResult,
        Crash, local
<1>7. CASE CancelStart \/ CancelJobs \/ RepairStart \/ Timeout
  BY <1>1, <1>2, <1>7, ProcessNames
  DEF CancelStart, CancelJobs, RepairStart, Timeout, TimeoutSelect, TimeoutVisit, TimeoutExpire
<1> QED
  BY <1>3, <1>4, <1>5, <1>6, <1>7
  DEF Next, Create, CreateFails, Destroy, Deactivate, Settled, vars, local

\* A job that has been written is written by one who goes on to the task; what a
\* playbook's output changes is recorded.
LEMMA ServiceFollows ==
  ASSUME IInv, Copied, Following, NEW j \in Jobs, Service(j)
  PROVE  Following'
<1> USE DEF IInv, TypeOK
<1>0. j \in Processes /\ j # timeout /\ timeout \in Processes
  BY ProcessNames
<1>1. UNCHANGED extask
  BY DEF Service, Drop, Receive, SaveJob, SaveFails, LoadTask, FetchStdout, SaveStdout,
         SaveResult, Write, rows
<1>2. CASE Drop(j)
  BY <1>0, <1>2, RowsStay, ZenonT(60)
  DEF Drop, local, rows, OthersStay, Following, Untouched, HeldBy, BoundTo, NewStatus,
      Statuses, Stored
<1>3. CASE Receive(j)
  <2>1. /\ OthersStay(j) /\ pc'[j] \in {"saveStdout", "load", "saveJob"} /\ pc[j] = "idle"
        /\ UNCHANGED rows /\ UNCHANGED missed
    BY <1>0, <1>3 DEF Receive, HasMessage, Goto, OthersStay, LocalType
  <2> QED
    BY <1>0, <2>1, RowsStay DEF HeldBy, BoundTo
<1>4. CASE SaveJob(j)
  <2>1. OthersStay(j) /\ pc'[j] = "load"
    BY <1>0, <1>4, StepOfOne DEF SaveJob
  <2>2. \A i \in Jobs : jobs[i] # "none" => jobs'[i] # "none"
    BY <1>4 DEF SaveJob, Decided, RowType, JobStatus, Final
  <2>3. Stored /\ missed \subseteq missed'
    BY <1>4 DEF SaveJob, Overlap
  <2>4. Untouched' => \A p \in Processes : pc[p] # "saveTask"
    BY <1>4 DEF SaveJob, Overlap, Updating, Untouched
  <2> QED
    BY <1>0, <1>1, <2>1, <2>2, <2>3, <2>4, JobsWritten DEF HeldBy, BoundTo
<1>5. CASE SaveFails(j)
  BY <1>0, <1>5, StepOfOne, RowsStay DEF SaveFails, HeldBy
<1>6. CASE LoadTask(j)
  <2>1. UNCHANGED rows /\ UNCHANGED missed /\ pc[j] = "load"
    BY <1>6 DEF LoadTask
  <2>2. CASE Stored /\ jobs[j] # "none"
    <3>1. OthersStay(j) /\ pc'[j] = "read" /\ copy'[j] = extask
      BY <1>0, <1>6, <2>2 DEF LoadTask, Goto, OthersStay, LocalType
    <3> QED
      BY <1>0, <1>1, <2>1, <2>2, <3>1, RowsStay DEF HeldBy, BoundTo, Stored
  <2>3. CASE ~(Stored /\ jobs[j] # "none")
    <3>1. OthersStay(j) /\ pc'[j] = "idle"
      BY <1>0, <1>6, <2>3, StepOfOne DEF LoadTask
    <3>2. Untouched' => ~Stored
      BY <2>1, <2>3 DEF Following, Untouched, AllStored
    <3> QED
      BY <1>0, <2>1, <3>1, <3>2, RowsStay DEF HeldBy
  <2> QED
    BY <2>2, <2>3
<1>7. CASE FetchStdout(j)
  <2>1. OthersStay(j) /\ pc'[j] \in {"saveStdout", "idle"} /\ pc[j] = "fetch"
    BY <1>0, <1>7, StepOfOne DEF FetchStdout
  <2> QED
    BY <1>0, <1>7, <2>1, RowsStay DEF FetchStdout, HeldBy, BoundTo
<1>8. CASE SaveStdout(j) \/ SaveResult(j)
  <2>1. PICK new \in JobStatus : Write(j, new)
    <3>1. CASE SaveStdout(j)
      <4>1. jobCopy[j] \in JobStatus /\ Write(j, jobCopy[j])
        BY <3>1 DEF SaveStdout, Copied, LocalType
      <4> QED
        BY <4>1
    <3>2. CASE SaveResult(j)
      BY <3>2 DEF SaveResult, JobStatus, Final
    <3> QED
      BY <1>8, <3>1, <3>2
  <2>2. /\ pc[j] \in {"saveStdout", "saveResult"} /\ Stored
        /\ missed \subseteq missed' /\ jobs' = [jobs EXCEPT ![j] = new]
    BY <1>8, <2>1 DEF SaveStdout, SaveResult, Write
  <2>3. CASE status[j] = "result"
    <3>1. /\ OthersStay(j)
          /\ pc'[j] = "load" \/ (pc'[j] = "saveResult" /\ status'[j] = "result")
      BY <1>0, <1>8, <2>3, StepOfOne DEF SaveStdout, SaveResult
    <3>2. \A i \in Jobs : jobs[i] # "none" => jobs'[i] # "none"
      BY <2>2 DEF RowType, JobStatus, Final
    <3>3. Untouched' => \A p \in Processes : pc[p] # "saveTask"
      BY <2>1 DEF Write, Updating, Untouched
    <3> QED
      BY <1>0, <1>1, <2>2, <3>1, <3>2, <3>3, JobsWritten DEF HeldBy, BoundTo
  <2>4. CASE status[j] # "result" /\ jobs[j] # new
    BY <2>1, <2>4 DEF Write, Following, Untouched
  <2>5. CASE status[j] # "result" /\ jobs[j] = new
    <3>1. UNCHANGED rows
      BY <1>1, <2>2, <2>5 DEF RowType, rows
    <3>2. OthersStay(j) /\ pc'[j] \in {"saveResult", "idle"}
      BY <1>0, <1>8, <2>5, StepOfOne DEF SaveStdout, SaveResult
    <3> QED
      BY <1>0, <2>2, <2>5, <3>1, <3>2, RowsStay DEF HeldBy, BoundTo
  <2> QED
    BY <2>3, <2>4, <2>5
<1> QED
  BY <1>2, <1>3, <1>4, <1>5, <1>6, <1>7, <1>8 DEF Service

\* A consumer that dies while it handles a message is recorded.
LEMMA CrashFollows ==
  ASSUME IInv, Following, NEW j \in Jobs, Crash(j)
  PROVE  Following'
<1> USE DEF IInv, TypeOK
<1>1. CASE pc[j] # "idle"
  BY <1>1 DEF Crash, Following, Untouched
<1>2. CASE pc[j] = "idle"
  BY <1>2, ProcessNames, StepOfOne, RowsStay DEF Crash, HeldBy, BoundTo
<1> QED
  BY <1>1, <1>2

\* update_executed_task_status decides by what it has read, and saves what the
\* jobs ask for.
LEMMA UpdateFollows ==
  ASSUME IInv, Following, NEW p \in Processes, Update(p)
  PROVE  Following'
<1> USE DEF IInv, TypeOK
<1>0. Jobs # {}
  BY TasksAssumption DEF TasksAssumption
<1>1. Statuses = {} => ~Stored \/ ~AllStored
  BY <1>0 DEF AllStored, Statuses, RowType
<1>2. CASE ReadStatuses(p)
  <2>1. pc[p] = "read" /\ missed \subseteq missed'
    BY <1>2 DEF ReadStatuses, Decide, Overlap
  <2>2. CASE (Return(p) \/ Quit(p)) /\ UNCHANGED <<rows, missed>>
    <3>1. OthersStay(p) /\ pc'[p] \in {"idle", "visit", "fetch"}
      BY <2>2, StepOfOne
    <3>2. \/ Statuses = {}
          \/ Statuses # {} /\ p \in Jobs /\ jobs[p] = "none"
          \/ copy[p] = NewStatus
          \/ Goto(p, "saveTask")
      BY <1>2 DEF ReadStatuses, Decide
    <3>3. ~Goto(p, "saveTask")
      BY <3>1 DEF Goto, LocalType
    <3>4. Untouched' /\ Stored /\ BoundTo(p) => extask = NewStatus
      BY <1>1, <2>1, <2>2, <3>2, <3>3 DEF Following, Untouched, AllStored, BoundTo
    <3> QED
      BY <2>2, <3>1, <3>4, RowsStay DEF HeldBy
  <2>3. CASE /\ target' = [target EXCEPT ![p] = NewStatus] /\ Goto(p, "saveTask")
             /\ Statuses # {}
             /\ UNCHANGED <<rows, copy, jobCopy, status, visits, stale, todo, missed>>
    <3>1. OthersStay(p) /\ pc'[p] = "saveTask" /\ target'[p] = NewStatus
      BY <2>3 DEF Goto, OthersStay, LocalType
    <3>2. Stored' /\ NewStatus' = NewStatus
      BY <2>3 DEF rows, RowType, Stored, NewStatus, Statuses
    <3> QED
      BY <2>3, <3>1, <3>2, RowsStay DEF HeldBy, BoundTo
  <2>4. CASE extask' = "none" /\ Quit(p) /\ Overlap(Holding \ {p})
    <3>1. OthersStay(p) /\ pc'[p] = "idle"
      BY <2>4, StepOfOne
    <3>2. ~Stored' /\ (Untouched' => Holding \subseteq {p})
      BY <2>4 DEF Stored, Overlap, Untouched
    <3>3. Untouched' => \A q \in Processes : HeldBy(q)'
      BY <3>1, <3>2 DEF OthersStay, Holding, HeldBy
    <3> QED
      BY <3>2, <3>3 DEF Following, AllStored
  <2> QED
    BY <1>2, <2>2, <2>3, <2>4 DEF ReadStatuses, Decide
<1>3. CASE SaveTask(p)
  <2>1. /\ pc[p] = "saveTask" /\ extask' = target[p] /\ UNCHANGED jobs
        /\ missed \subseteq missed' /\ (Untouched' => Holding = {p})
    BY <1>3 DEF SaveTask, Untouched
  <2>2. OthersStay(p) /\ pc'[p] \in {"announce", "idle", "visit", "fetch"}
    BY <1>3, StepOfOne DEF SaveTask
  <2> SUFFICES ASSUME Untouched'
               PROVE  /\ AllStored' /\ \A q \in Processes : HeldBy(q)'
                      /\ extask' = NewStatus'
    BY DEF Following
  <2>3. target[p] = NewStatus /\ Stored /\ AllStored
    BY <2>1 DEF Following, HeldBy, Untouched
  <2>4. AllStored' /\ extask' = NewStatus'
    BY <2>1, <2>3 DEF AllStored, Stored, NewStatus, Statuses
  <2>5. \A q \in Processes : HeldBy(q)'
    BY <2>1, <2>2 DEF OthersStay, Holding, HeldBy
  <2> QED
    BY <2>4, <2>5
<1>4. CASE Announce(p)
  <2>1. /\ OthersStay(p) /\ pc'[p] \in {"idle", "visit", "fetch"} /\ pc[p] = "announce"
        /\ UNCHANGED <<rows, missed>>
    BY <1>4, StepOfOne DEF Announce
  <2> QED
    BY <2>1, RowsStay DEF HeldBy, BoundTo
<1> QED
  BY <1>2, <1>3, <1>4 DEF Update

\* Requests and the repair.
LEMMA RequestFollows ==
  ASSUME IInv, Unread, Following,
         Create \/ CreateFails \/ CancelStart \/ CancelJobs \/ Destroy \/ RepairStart
  PROVE  Following'
<1> USE DEF IInv, TypeOK
<1>0. cancel \in Processes /\ repair \in Processes /\ cancel \notin Jobs /\ repair \notin Jobs
      /\ cancel # timeout /\ repair # timeout
  BY ProcessNames
<1>1. CASE Create
  <2>1. scenario.started \subseteq Jobs /\ Jobs # {}
    BY TasksAssumption DEF TasksAssumption, AroundType, Scenario
  <2>2. \A p \in Processes : pc'[p] = "idle"
    BY <1>1 DEF Create, Unread, local
  <2>3. AllStored'
    BY <1>1 DEF Create, AllStored
  <2>4. CASE scenario.started = {}
    <3>1. Statuses' = {"failure"}
      BY <1>1, <2>1, <2>4 DEF Create, Statuses
    <3>2. extask' = NewStatus'
      BY <1>1, <2>4, <3>1 DEF Create, NewStatus, Combined
    <3> QED
      BY <2>2, <2>3, <3>2 DEF Following, HeldBy
  <2>5. CASE scenario.started # {}
    <3>1. "running" \in Statuses'
      BY <1>1, <2>1, <2>5 DEF Create, Statuses
    <3>2. extask' = NewStatus'
      BY <1>1, <2>5, <3>1 DEF Create, NewStatus
    <3> QED
      BY <2>2, <2>3, <3>2 DEF Following, HeldBy
  <2> QED
    BY <2>4, <2>5
<1>2. CASE CreateFails
  <2>1. (\A p \in Processes : pc'[p] = "idle") /\ extask' = "none"
    BY <1>2 DEF CreateFails, Unread, local
  <2> QED
    BY <2>1 DEF Following, AllStored, Stored, HeldBy
<1>3. CASE Destroy
  <2>1. extask' = "none" /\ UNCHANGED local /\ (Untouched' => Holding = {})
    BY <1>3 DEF Destroy, Overlap, Untouched
  <2> QED
    BY <2>1 DEF local, Following, AllStored, Stored, HeldBy, Holding
<1>4. CASE CancelStart \/ RepairStart
  <2>1. PICK p \in {cancel, repair} :
          /\ pc[p] = "idle" /\ Stored /\ UNCHANGED <<rows, missed>> /\ p \notin Jobs
          /\ copy' = [copy EXCEPT ![p] = extask] /\ UNCHANGED <<target, status>>
          /\ \E point \in {"update", "read"} : Goto(p, point)
    BY <1>0, <1>4 DEF CancelStart, RepairStart, Stored
  <2>2. OthersStay(p) /\ pc'[p] \in {"update", "read"} /\ copy'[p] = extask
    BY <1>0, <2>1 DEF Goto, OthersStay, LocalType
  <2> QED
    BY <1>0, <2>1, <2>2, RowsStay DEF HeldBy, BoundTo, rows, Stored
<1>5. CASE CancelJobs
  <2>1. /\ OthersStay(cancel) /\ pc'[cancel] = "read" /\ pc[cancel] = "update"
        /\ UNCHANGED <<extask, copy>> /\ missed \subseteq missed'
    BY <1>0, <1>5, StepOfOne DEF CancelJobs, Overlap
  <2>2. Untouched' => copy[cancel] = extask /\ Stored
    BY <1>0, <2>1 DEF Following, HeldBy, Untouched
  <2>3. Untouched' => HeldBy(cancel)' /\ BoundTo(cancel)'
    BY <1>0, <2>1, <2>2 DEF HeldBy, BoundTo, Stored
  <2>4. CASE Running = {}
    <3>1. UNCHANGED rows
      BY <1>5, <2>4 DEF CancelJobs, Running, RowType, rows
    <3> QED
      BY <1>0, <2>1, <2>3, <3>1, RowsStay
  <2>5. CASE Running # {}
    <3>1. Stored
      BY <2>5 DEF RowType, Running, Statuses
    <3>2. \A j \in Jobs : jobs[j] # "none" => jobs'[j] # "none"
      BY <1>5 DEF CancelJobs
    <3>3. Untouched' => \A p \in Processes : pc[p] # "saveTask"
      BY <1>5, <2>5 DEF CancelJobs, Overlap, Updating, Untouched
    <3> QED
      BY <1>0, <2>1, <2>3, <3>1, <3>2, <3>3, JobsWritten
  <2> QED
    BY <2>4, <2>5
<1> QED
  BY <1>1, <1>2, <1>3, <1>4, <1>5

\* The timeout job reads the jobs after it has saved some, and a later copy of
\* the task is outdated only if that is recorded or nothing is saved any more.
LEMMA TimeoutFollows ==
  ASSUME IInv, Following, Timeout
  PROVE  Following'
<1> USE DEF IInv, TypeOK
<1>0. timeout \in Processes /\ timeout \notin Jobs
  BY ProcessNames
<1>1. UNCHANGED extask /\ missed \subseteq missed'
  BY DEF Timeout, TimeoutSelect, TimeoutVisit, TimeoutExpire, Overlap, rows
<1>2. CASE TimeoutSelect
  <2>1. OthersStay(timeout) /\ pc'[timeout] = "visit" /\ pc[timeout] = "idle"
    BY <1>0, <1>2 DEF TimeoutSelect, Goto, OthersStay, LocalType
  <2> QED
    BY <1>0, <1>2, <2>1, RowsStay DEF TimeoutSelect, HeldBy, BoundTo
<1>3. CASE TimeoutVisit
  <2>1. UNCHANGED rows /\ pc[timeout] = "visit" /\ OthersStay(timeout)
    BY <1>0, <1>3, StepOfOne DEF TimeoutVisit
  <2>2. CASE visits = 0
    BY <1>0, <1>1, <1>3, <2>1, <2>2, StepOfOne, RowsStay DEF TimeoutVisit, HeldBy, BoundTo
  <2>3. CASE visits # 0
    <3>1. /\ pc'[timeout] = IF todo' = {} THEN "read" ELSE "expire"
          /\ UNCHANGED copy /\ todo' = stale \cap Running
          /\ missed' = missed
               \union (IF todo' # {} /\ copy[timeout] # extask THEN {"again"} ELSE {})
      BY <1>0, <1>3, <2>3 DEF TimeoutVisit, Goto, LocalType
    <3>2. /\ todo' # {} => Stored
          /\ Untouched' => todo' = {} \/ copy[timeout] = extask
      BY <3>1 DEF RowType, Running, Statuses, Untouched
    <3>3. Untouched' => HeldBy(timeout)'
      BY <2>1, <3>1, <3>2 DEF HeldBy, Stored, rows
    <3> QED
      BY <1>0, <1>1, <2>1, <3>3, RowsStay DEF BoundTo
  <2> QED
    BY <2>2, <2>3
<1>4. CASE TimeoutExpire
  <2>1. PICK j \in todo :
          IF jobs[j] = "none" THEN Quit(timeout) /\ UNCHANGED <<jobs, missed>>
          ELSE /\ jobs' = [jobs EXCEPT ![j] = "timeout"]
               /\ todo' = todo \ {j}
               /\ Goto(timeout, IF todo' = {} THEN "read" ELSE "expire")
               /\ Overlap(Updating)
               /\ UNCHANGED <<copy, target, jobCopy, status, visits, stale>>
    BY <1>4 DEF TimeoutExpire
  <2>2. pc[timeout] = "expire" /\ j \in Jobs
        /\ (Untouched' => copy[timeout] = extask /\ Stored /\ AllStored)
    BY <1>0, <1>1, <1>4 DEF TimeoutExpire, Following, HeldBy, Untouched, LocalType
  <2>3. CASE jobs[j] = "none"
    BY <2>2, <2>3 DEF Following, AllStored
  <2>4. CASE jobs[j] # "none"
    <3>1. Stored
      BY <2>2, <2>4 DEF RowType, Statuses
    <3>2. OthersStay(timeout) /\ pc'[timeout] \in {"read", "expire"} /\ UNCHANGED copy
      BY <1>0, <2>1, <2>4, StepOfOne
    <3>3. \A i \in Jobs : jobs[i] # "none" => jobs'[i] # "none"
      BY <2>1, <2>2, <2>4 DEF RowType
    <3>4. Untouched' => \A p \in Processes : pc[p] # "saveTask"
      BY <2>1, <2>4 DEF Overlap, Updating, Untouched
    <3>5. Untouched' => HeldBy(timeout)' /\ BoundTo(timeout)'
      BY <1>1, <2>2, <3>2 DEF HeldBy, BoundTo, Stored
    <3> QED
      BY <1>0, <1>1, <3>1, <3>2, <3>3, <3>4, <3>5, JobsWritten
  <2> QED
    BY <2>3, <2>4
<1> QED
  BY <1>2, <1>3, <1>4 DEF Timeout

\* "Update the executed task status to reflect the status of its jobs"
\* (update_executed_task_status): for any jobs, messages, requests and runs of the
\* timeout job, when nobody is at work the executed task has the status that its
\* jobs ask for, but for the cases that ReflectsJobs excepts.
THEOREM StatusReflects == Spec => []ReflectsJobs
<1>1. Init => Unread /\ Copied /\ Following
  BY ProcessNames DEF Init, Unread, Copied, Following, AllStored, Stored, HeldBy
<1>2. IInv /\ Unread /\ Copied /\ Following /\ [Next]_vars
      => (Unread /\ Copied /\ Following)'
  <2> SUFFICES ASSUME IInv, Unread, Copied, Following, [Next]_vars
               PROVE  Unread' /\ Copied' /\ Following'
    OBVIOUS
  <2>1. Copied'
    BY CopiedKept
  <2>2. CASE UNCHANGED vars \/ Deactivate
    BY <2>1, <2>2 DEF Deactivate, vars, rows, local, Unread, Following, AllStored, HeldBy,
                      BoundTo, NewStatus, Statuses, Stored, Untouched
  <2>3. CASE Next /\ ~Deactivate /\ ~UNCHANGED vars
    BY <2>1, <2>3, UnreadKept, ServiceFollows, CrashFollows, UpdateFollows, RequestFollows,
       TimeoutFollows
    DEF Next, Settled
  <2> QED
    BY <2>2, <2>3
<1>3. IInv /\ Following => ReflectsJobs
  <2> SUFFICES ASSUME IInv, Following, Quiet, Statuses # {}, Untouched
               PROVE  Reflects(extask)
    BY DEF ReflectsJobs, Untouched
  <2>1. \A p \in Processes : ~BoundTo(p)
    BY DEF Quiet, BoundTo
  <2>2. RowType /\ Stored /\ AllStored /\ extask = NewStatus
    BY <2>1 DEF IInv, TypeOK, RowType, Following
  <2> QED
    BY <2>2, NewReflects
<1> QED
  BY <1>1, <1>2, <1>3, InvariantHolds, PTL DEF Spec
=============================================================================
