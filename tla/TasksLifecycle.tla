--------------------------- MODULE TasksLifecycle ---------------------------
(***************************************************************************)
(* One executed task and its jobs (tasks/): created and dispatched by a    *)
(* request, moved on by the tasks service as status messages and script    *)
(* results arrive, cancelled and deleted by requests, timed out by a cron  *)
(* job and repaired by a command.                                          *)
(*                                                                         *)
(* None of these holds a lock, and each statement is a transaction of its  *)
(* own: what a process has read may have changed when it writes, and       *)
(* save() writes the whole row.  The consumer of job j's messages is       *)
(* process j; the others are named.  An action with index p is a step of   *)
(* process p.                                                              *)
(***************************************************************************)
EXTENDS Naturals, Sequences, FiniteSets

CONSTANTS
  Jobs,           \* the jobs of the executed task, and their consumers
  Scenarios,      \* the situations to examine
  cancel, timeout, repair   \* the other processes

Final     == {"success", "failure", "timeout", "cancelled"}
JobStatus == Final \union {"running"}
TaskStatus == {"running", "completed", "completedWithErrors", "failure", "cancelled"}

\* What a job's topic delivers: dispatcher statuses of a playbook, some of them
\* unknown here, or the uploaded result of a script.
Message  == JobStatus \union {"unknown", "result"}

\* Jobs that could be dispatched, their messages, and what else may happen:
\* who acts on the task, and how often a consumer may crash.
Scenario == [started : SUBSET Jobs, log : [Jobs -> Seq(Message)],
             actors : SUBSET {"cancel", "destroy", "repair", "deactivate"}, crashes : Nat]

ASSUME TasksAssumption ==
  /\ IsFiniteSet(Jobs) /\ Jobs # {}
  /\ Scenarios \subseteq Scenario
  /\ {cancel, timeout, repair} \cap Jobs = {}
  /\ cancel # timeout /\ cancel # repair /\ timeout # repair

Processes == Jobs \union {cancel, timeout, repair}

VARIABLES
  scenario,
  \* may the task be executed (still)?
  active,
  \* the rows: "none" is no row; "dispatching": the creation has not committed
  extask, jobs,
  \* Kafka: messages of each job handled so far, and crashes of consumers
  offset, crashes,
  \* the processes: program point, ExecutedTask copy and the status to save
  pc, copy, target,
  \* the consumers' Job copies, and the message's status
  jobCopy, status,
  \* the timeout job: copies of the executed task left, the stale jobs it found,
  \* and those of this visit that are left
  visits, stale, todo,
  \* history: who may miss a change, and the last status announced
  missed, told

rows  == <<extask, jobs>>
around == <<scenario, active, offset, crashes>>
local == <<pc, copy, target, jobCopy, status, visits, stale, todo>>
vars  == <<rows, around, local, missed, told>>

Points == {"idle", "saveJob", "load", "read", "saveTask", "fetch",
           "saveStdout", "saveResult", "update", "visit", "expire", "announce"}

Log(j)  == scenario.log[j]
Goto(p, point) == pc' = [pc EXCEPT ![p] = point]
Statuses == {jobs[j] : j \in Jobs} \ {"none"}
Running  == {j \in Jobs : jobs[j] = "running"}
Stored   == extask \notin {"none", "dispatching"}

\* The status that a set of job statuses without "running" gives.
Combined(seen) ==
  IF "cancelled" \in seen THEN "cancelled"
  ELSE IF seen = {"success"} THEN "completed"
  ELSE IF "success" \in seen THEN "completedWithErrors" ELSE "failure"

\* A task whose jobs run is running.
NewStatus == IF "running" \in Statuses THEN "running" ELSE Combined(Statuses)

\* The processes that have read the task's row, and may write it.
Holding  == {p \in Processes : pc[p] \in {"update", "visit", "expire", "read", "saveTask"}}
\* Those that have read the jobs' statuses.
Updating == {p \in Processes : pc[p] = "saveTask"}

\* Those that have saved a status and not announced it.
Announcing == {p \in Processes : pc[p] = "announce"}

\* What is written, others have read before.
Overlap(readers) ==
  missed' = IF readers = {} THEN missed ELSE missed \union {"overlap"}

Init ==
  /\ scenario \in Scenarios /\ active = TRUE
  /\ extask = "dispatching" /\ jobs = [j \in Jobs |-> "none"]
  /\ offset = [j \in Jobs |-> 0] /\ crashes = 0
  /\ pc = [p \in Processes |-> "idle"]
  /\ copy = [p \in Processes |-> "none"] /\ target = [p \in Processes |-> "none"]
  /\ jobCopy = [j \in Jobs |-> "none"] /\ status = [j \in Jobs |-> "none"]
  /\ visits = 0 /\ stale = {} /\ todo = {}
  /\ missed = {} /\ told = "none"

(***************************************************************************)
(* ExecutedTaskViewSet.create: the jobs are dispatched inside the          *)
(* transaction, so that their messages may arrive before its commit.       *)
(***************************************************************************)

\* Jobs that could not be dispatched fail at once; if all did, the task has
\* failed, and that is announced.
Create ==
  /\ extask = "dispatching"
  /\ jobs' = [j \in Jobs |-> IF j \in scenario.started THEN "running" ELSE "failure"]
  /\ IF scenario.started = {} THEN extask' = "failure" /\ told' = "failure"
                              ELSE extask' = "running" /\ UNCHANGED told
  /\ UNCHANGED <<around, local, missed>>

\* The request fails after the dispatch: nothing is stored, the jobs run, and a
\* failure may have been announced.
CreateFails ==
  /\ extask = "dispatching"
  /\ extask' = "none"
  /\ told' \in {told} \union (IF scenario.started = {} THEN {"failure"} ELSE {})
  /\ UNCHANGED <<jobs, around, local, missed>>

(***************************************************************************)
(* update_executed_task_status, called by every process.                   *)
(***************************************************************************)

\* The handler, request or command returns or raises.
Forget(p) ==
  /\ copy' = [copy EXCEPT ![p] = "none"] /\ target' = [target EXCEPT ![p] = "none"]
  /\ IF p \in Jobs
       THEN jobCopy' = [jobCopy EXCEPT ![p] = "none"] /\ status' = [status EXCEPT ![p] = "none"]
       ELSE UNCHANGED <<jobCopy, status>>
  /\ IF p = timeout THEN visits' = 0 /\ stale' = {} /\ todo' = {}
                    ELSE UNCHANGED <<visits, stale, todo>>

Quit(p) == Goto(p, "idle") /\ Forget(p)

\* The caller goes on: the playbook handler to the output of a job that is
\* over, the timeout job to its next executed task.
Return(p) ==
  IF p = timeout
    THEN Goto(p, "visit") /\ UNCHANGED <<copy, target, jobCopy, status, visits, stale, todo>>
  ELSE IF p \in Jobs /\ status[p] \in Final
    THEN Goto(p, "fetch") /\ UNCHANGED <<copy, target, jobCopy, status, visits, stale, todo>>
  ELSE Quit(p)

\* The status the jobs ask for; it is saved if the copy has another.
Decide(p) ==
  IF copy[p] = NewStatus THEN Return(p) /\ UNCHANGED <<rows, missed>>
  ELSE /\ target' = [target EXCEPT ![p] = NewStatus]
       /\ Goto(p, "saveTask")
       /\ UNCHANGED <<rows, copy, jobCopy, status, visits, stale, todo, missed>>

\* A handler logs that no job runs any more: an error if its job is gone.
ReadStatuses(p) ==
  /\ pc[p] = "read"
  /\ IF Statuses = {} THEN
       \/ Return(p) /\ UNCHANGED <<rows, missed>>
       \/ /\ p = repair /\ extask' = "none" /\ Quit(p)   \* --delete_empty
          /\ Overlap(Holding \ {p}) /\ UNCHANGED jobs
     ELSE IF Running = {} /\ p \in Jobs /\ jobs[p] = "none"
       THEN Quit(p) /\ UNCHANGED <<rows, missed>>
     ELSE Decide(p)
  /\ UNCHANGED <<around, told>>

\* save() writes the copy: an UPDATE, or an INSERT if the row is gone.
SaveTask(p) ==
  LET over == target[p] # "running"
  IN  /\ pc[p] = "saveTask"
      /\ extask' = target[p]
      /\ missed' = missed
           \union (IF Holding # {p} THEN {"overlap"} ELSE {})
           \union (IF over /\ p # repair /\ Announcing # {} THEN {"order"} ELSE {})
           \union (IF over /\ p = repair THEN {"silent"} ELSE {})
      /\ IF over /\ p # repair
           THEN /\ Goto(p, "announce")
                /\ UNCHANGED <<copy, target, jobCopy, status, visits, stale, todo>>
           ELSE Return(p)
      /\ UNCHANGED <<jobs, around, told>>

\* Variant: the message is composed from what was read.
AnnounceCopy(p) ==
  /\ pc[p] = "announce" /\ told' = copy[p]
  /\ Return(p) /\ UNCHANGED <<rows, around, missed>>

\* All but the repair announce a task that is over.
Announce(p) ==
  /\ pc[p] = "announce"
  /\ told' = target[p]
  /\ Return(p)
  /\ UNCHANGED <<rows, around, missed>>

(***************************************************************************)
(* The tasks service: the consumer of job j's messages.                    *)
(***************************************************************************)

\* The offset is stored when the message is polled.
Polled(j) == offset' = [offset EXCEPT ![j] = @ + 1]

HasMessage(j) == j \in scenario.started /\ pc[j] = "idle" /\ offset[j] < Len(Log(j))
NextMessage(j) == Log(j)[offset[j] + 1]

\* No job has the run id (yet, or any more); or the status has no name here, and
\* looking it up by the job's number raises.
Drop(j) ==
  /\ HasMessage(j)
  /\ jobs[j] = "none" \/ NextMessage(j) = "unknown"
  /\ Polled(j)
  /\ UNCHANGED <<rows, scenario, active, crashes, local, missed, told>>

Receive(j) ==
  LET m == NextMessage(j)
  IN  /\ HasMessage(j) /\ jobs[j] # "none" /\ m # "unknown"
      /\ Polled(j)
      /\ jobCopy' = [jobCopy EXCEPT ![j] = IF m = "result" THEN jobs[j] ELSE m]
      /\ status' = [status EXCEPT ![j] = m]
      /\ Goto(j, CASE m = "result" -> "saveStdout"
                   [] m = jobs[j]   -> "load"
                   [] OTHER         -> "saveJob")
      /\ UNCHANGED <<rows, scenario, active, crashes, copy, target, visits, stale, todo,
                     missed, told>>

\* Job.save() writes the whole row; without its executed task the foreign key
\* fails, and the handler with it.
SaveFails(j) ==
  /\ pc[j] \in {"saveJob", "saveStdout", "saveResult"} /\ ~Stored
  /\ Quit(j)
  /\ UNCHANGED <<rows, around, missed, told>>

\* Variant: without the foreign key.
SaveJobUnchecked(j) ==
  /\ pc[j] = "saveJob" /\ jobs' = [jobs EXCEPT ![j] = status[j]]
  /\ Goto(j, "load") /\ Overlap(Updating)
  /\ UNCHANGED <<extask, around, copy, target, jobCopy, status, visits, stale, todo, told>>

SaveJob(j) ==
  /\ pc[j] = "saveJob" /\ Stored
  /\ jobs' = [jobs EXCEPT ![j] = status[j]]
  /\ Goto(j, "load")
  /\ Overlap(Updating)
  /\ UNCHANGED <<extask, around, copy, target, jobCopy, status, visits, stale, todo, told>>

\* job.executed_task is read when first used; a log line needs the job's row.
LoadTask(j) ==
  /\ pc[j] = "load"
  /\ IF Stored /\ jobs[j] # "none"
       THEN /\ copy' = [copy EXCEPT ![j] = extask]
            /\ Goto(j, "read")
            /\ UNCHANGED <<target, jobCopy, status, visits, stale, todo>>
       ELSE Quit(j)
  /\ UNCHANGED <<rows, around, missed, told>>

\* The Playbook Dispatcher is asked for the output, and may not have it.
FetchStdout(j) ==
  /\ pc[j] = "fetch"
  /\ \/ jobs[j] # "none" /\ Goto(j, "saveStdout")
        /\ UNCHANGED <<copy, target, jobCopy, status, visits, stale, todo>>
     \/ Quit(j)
  /\ UNCHANGED <<rows, around, missed, told>>

\* What a playbook's handler writes now, it does not tell the task.
Write(j, new) ==
  /\ jobs' = [jobs EXCEPT ![j] = new]
  /\ missed' = missed
       \union (IF status[j] # "result" /\ jobs[j] # new THEN {"stdout"} ELSE {})
       \union (IF Updating # {} THEN {"overlap"} ELSE {})
  /\ UNCHANGED <<extask, around, told>>

\* parse_json_from_stdout saves the output with the status it has read ...
SaveStdout(j) ==
  /\ pc[j] = "saveStdout" /\ Stored
  /\ Write(j, jobCopy[j])
  /\ Goto(j, "saveResult")
  /\ UNCHANGED <<copy, target, jobCopy, status, visits, stale, todo>>

\* Variant: no handler goes on to the task.
SaveResultQuits(j) ==
  /\ pc[j] = "saveResult" /\ Stored
  /\ \E parsed \in {"success", "failure"} : Write(j, parsed)
  /\ Quit(j)

\* ... and then the result.  Only the script handler goes on to the task.
SaveResult(j) ==
  /\ pc[j] = "saveResult" /\ Stored
  /\ \E parsed \in {"success", "failure"} : Write(j, parsed)
  /\ IF status[j] = "result"
       THEN /\ Goto(j, "load")
            /\ UNCHANGED <<copy, target, jobCopy, status, visits, stale, todo>>
       ELSE Quit(j)

Crash(j) ==
  /\ crashes < scenario.crashes /\ crashes' = crashes + 1
  /\ \E committed \in 0..offset[j] : offset' = [offset EXCEPT ![j] = committed]
  /\ missed' = IF pc[j] = "idle" THEN missed ELSE missed \union {"crash"}
  /\ Quit(j)
  /\ UNCHANGED <<rows, scenario, active, told>>

Service(j) ==
  \/ Drop(j) \/ Receive(j) \/ SaveJob(j) \/ SaveFails(j) \/ LoadTask(j)
  \/ FetchStdout(j) \/ SaveStdout(j) \/ SaveResult(j)

(***************************************************************************)
(* ExecutedTaskViewSet.cancel and destroy.                                 *)
(***************************************************************************)

\* Requests act on a stored task; a task that is not running is left alone.
CancelStart ==
  /\ "cancel" \in scenario.actors
  /\ pc[cancel] = "idle" /\ extask = "running"
  /\ copy' = [copy EXCEPT ![cancel] = extask]
  /\ Goto(cancel, "update")
  /\ UNCHANGED <<rows, around, target, jobCopy, status, visits, stale, todo, missed, told>>

\* The dispatcher has been asked; its answers are messages like any other.
CancelJobs ==
  /\ pc[cancel] = "update"
  /\ jobs' = [j \in Jobs |-> IF jobs[j] = "running" THEN "cancelled" ELSE jobs[j]]
  /\ Goto(cancel, "read")
  /\ Overlap(IF Running = {} THEN {} ELSE Updating)
  /\ UNCHANGED <<extask, around, copy, target, jobCopy, status, visits, stale, todo, told>>

\* The task goes with its jobs.  Nothing is sent to the dispatcher.
Destroy ==
  /\ "destroy" \in scenario.actors
  /\ Stored
  /\ extask' = "none" /\ jobs' = [j \in Jobs |-> "none"]
  /\ Overlap(Holding)
  /\ UNCHANGED <<around, local, told>>

(***************************************************************************)
(* stale_job_timeout and update_executed_task_status, the commands.        *)
(***************************************************************************)

\* The task is withdrawn; nothing of the executed task changes.
Deactivate ==
  /\ "deactivate" \in scenario.actors /\ active
  /\ active' = FALSE
  /\ UNCHANGED <<rows, scenario, offset, crashes, local, missed, told>>

\* Variant: only running executed tasks are considered.
TimeoutSelectRunning ==
  /\ pc[timeout] = "idle" /\ active /\ extask = "running"
  /\ stale' \in (SUBSET Running) \ {{}} /\ visits' = Cardinality(stale')
  /\ copy' = [copy EXCEPT ![timeout] = extask] /\ Goto(timeout, "visit")
  /\ UNCHANGED <<rows, around, target, jobCopy, status, todo, missed, told>>

\* The executed tasks, of active tasks, with stale jobs: joined with them, each as
\* often as it has such jobs.  Age is abstracted: any running jobs may be stale.
TimeoutSelect ==
  /\ pc[timeout] = "idle" /\ active /\ Stored
  /\ stale' \in (SUBSET Running) \ {{}}
  /\ visits' = Cardinality(stale')
  /\ copy' = [copy EXCEPT ![timeout] = extask]
  /\ Goto(timeout, "visit")
  /\ UNCHANGED <<rows, around, target, jobCopy, status, todo, missed, told>>

\* The next copy of the executed task was read before the first was saved; it
\* shows when a job that was timed out runs again ("again").
TimeoutVisit ==
  /\ pc[timeout] = "visit"
  /\ IF visits = 0 THEN Quit(timeout) /\ UNCHANGED missed
     ELSE /\ visits' = visits - 1
          /\ todo' = stale \cap Running
          /\ Goto(timeout, IF todo' = {} THEN "read" ELSE "expire")
          /\ missed' = missed
               \union (IF todo' # {} /\ copy[timeout] # extask THEN {"again"} ELSE {})
          /\ UNCHANGED <<copy, target, jobCopy, status, stale>>
  /\ UNCHANGED <<rows, around, told>>

\* Each job is logged and saved, whatever it has become since it was read.
TimeoutExpire ==
  /\ pc[timeout] = "expire"
  /\ \E j \in todo :
       IF jobs[j] = "none" THEN Quit(timeout) /\ UNCHANGED <<jobs, missed>>
       ELSE /\ jobs' = [jobs EXCEPT ![j] = "timeout"]
            /\ todo' = todo \ {j}
            /\ Goto(timeout, IF todo' = {} THEN "read" ELSE "expire")
            /\ Overlap(Updating)
            /\ UNCHANGED <<copy, target, jobCopy, status, visits, stale>>
  /\ UNCHANGED <<extask, around, told>>

RepairStart ==
  /\ "repair" \in scenario.actors
  /\ pc[repair] = "idle" /\ Stored
  /\ copy' = [copy EXCEPT ![repair] = extask]
  /\ Goto(repair, "read")
  /\ UNCHANGED <<rows, around, target, jobCopy, status, visits, stale, todo, missed, told>>

Update(p) == ReadStatuses(p) \/ SaveTask(p) \/ Announce(p)

Timeout == TimeoutSelect \/ TimeoutVisit \/ TimeoutExpire

\* Everything has been handled, and nobody is at work.
Quiet == \A p \in Processes : pc[p] = "idle"
Settled ==
  /\ Quiet /\ extask # "dispatching" /\ (active => Running = {})
  /\ \A j \in Jobs : ~HasMessage(j)
  /\ UNCHANGED vars

Next ==
  \/ Create \/ CreateFails
  \/ \E j \in Jobs : Service(j) \/ Crash(j)
  \/ \E p \in Processes : Update(p)
  \/ CancelStart \/ CancelJobs \/ Destroy \/ Deactivate
  \/ Timeout \/ RepairStart
  \/ Settled

Spec == Init /\ [][Next]_vars

\* The consumers run, the timeout job is started every minute, and requests and
\* commands that have begun go on.  Whether one begins is up to the users.
Fairness ==
  /\ WF_vars(Create \/ CreateFails)
  /\ \A j \in Jobs : WF_vars(Service(j))
  /\ WF_vars(CancelJobs) /\ WF_vars(Timeout)
  /\ \A p \in Processes : WF_vars(Update(p))

FairSpec == Spec /\ Fairness

-----------------------------------------------------------------------------
(***************************************************************************)
(* Properties.                                                             *)
(***************************************************************************)

AroundType ==
  /\ scenario \in Scenarios /\ active \in BOOLEAN /\ crashes \in Nat
  /\ offset \in [Jobs -> Nat] /\ \A j \in Jobs : offset[j] <= Len(Log(j))

RowType ==
  /\ extask \in TaskStatus \union {"none", "dispatching"}
  /\ jobs \in [Jobs -> JobStatus \union {"none"}]
  /\ ~Stored => Statuses = {}

LocalType ==
  /\ pc \in [Processes -> Points]
  /\ copy \in [Processes -> TaskStatus \union {"none"}]
  /\ target \in [Processes -> TaskStatus \union {"none"}]
  /\ jobCopy \in [Jobs -> JobStatus \union {"none"}]
  /\ status \in [Jobs -> JobStatus \union {"none", "result"}]
  /\ visits \in 0..Cardinality(Jobs) /\ todo \subseteq stale /\ stale \subseteq Jobs

HistoryType ==
  /\ missed \subseteq {"overlap", "order", "stdout", "crash", "silent", "again"}
  /\ told \in TaskStatus \union {"none"}

\* Every variable has its type, and no job is stored without its executed task
\* (the foreign key of Job).
TypeOK == AroundType /\ RowType /\ LocalType /\ HistoryType

\* What a reader takes each status to say about the jobs.
Reflects(task) ==
  LET some(st) == \E j \in Jobs : jobs[j] = st
      over     == ~some("running")
  IN  CASE task = "running"   -> some("running")
        [] task = "cancelled" -> over /\ some("cancelled")
        [] task = "completed" -> \A j \in Jobs : jobs[j] = "success"
        [] task = "failure"   -> over /\ ~some("success") /\ ~some("cancelled")
        [] OTHER -> /\ over /\ some("success") /\ ~some("cancelled")
                    /\ some("failure") \/ some("timeout")

\* "Update the executed task status to reflect the status of its jobs": so it
\* is whenever nobody is at work, unless one process wrote what another had
\* read, a consumer died, a playbook's output was parsed, or a job that was
\* timed out ran again while the timeout job was still at work.
ReflectsJobs ==
  Quiet /\ Statuses # {} /\ missed \subseteq {"silent", "order"} => Reflects(extask)

\* The last status announced is that of a task that is over, once no process is
\* about to announce one; unless two processes saved and announced in a different
\* order, one died in between, or the repair said nothing.
LastAnnounced ==
  /\ Stored /\ extask # "running" /\ Announcing = {}
  /\ missed \subseteq {"overlap", "stdout", "again"}
  => told = extask

\* "jobs are timed out every minute if RUNNING too long": in the end no job runs,
\* whatever is lost or crashes, unless the task was withdrawn meanwhile; and when
\* none runs, the executed task is over, too, unless a consumer died, one process
\* wrote what another had read, or a job ran again under the timeout job.
EventuallyOver ==
  <>[](/\ active => Running = {}
       /\ Running = {} /\ missed \subseteq {"silent", "order", "stdout"} => extask # "running")

=============================================================================
