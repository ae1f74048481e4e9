-------------------------- MODULE AdvisorService --------------------------
(***************************************************************************)
(* The Advisor Service (service/service.py): a consumer loop hands Kafka   *)
(* messages to a bounded thread pool, and the handlers turn engine results *)
(* and third-party rule hits into report rows and inventory delete events  *)
(* into deletions.  The inventory replication service writes the same      *)
(* tables from another process.                                            *)
(*                                                                         *)
(* The grain is the SQL statement wherever another transaction can come    *)
(* in between: PostgreSQL runs READ COMMITTED, row locks are held to the   *)
(* end of the transaction, foreign keys are checked at commit.             *)
(* An action with index w is a step of worker thread w.                    *)
(***************************************************************************)
EXTENDS Integers, Sequences, FiniteSets

CONSTANTS
  Hosts,          \* inventory UUIDs
  Orgs, OrgOf,    \* organisations, and the one each host belongs to
  Sources,        \* upload sources ("insights-client", third parties)
  Accounts,       \* legacy account numbers, and the value for "none"
  AccountOf,      \* the account on the host's inventory row
  Rules,          \* rule ids a message may report
  KnownRules,     \* those whose content is imported
  ActiveRules,    \* those that are active
  AutoackRules,   \* those that carry the 'autoack' tag
  NonRhelRules,   \* settings.FILTER_OUT_NON_RHEL_RULE_ID
  Rhel6Rules,     \* settings.FILTER_OUT_RHEL6_RULE_IDS
  Workers,        \* the threads of the pool
  NumWorkers,     \* settings.THREAD_POOL_SIZE
  Retries,        \* settings.DB_RETRY_CONSTANT
  Logs,           \* the message sequences the topics may deliver
  InitHosts,      \* the sets of hosts that may be replicated before the run
  InitHostAcks,   \* of each host: acknowledgements made before the run
  MaxFaults,      \* bound: database errors in a behaviour
  MaxRepl,        \* bound: operations of the replication service
  NoOne, Repl     \* nobody, and the replication service, as lock holders

Message ==
  [type : {"ingest", "delete", "other", "malformed"}, valid : BOOLEAN,
   host : Hosts, source : Sources, account : Accounts, hits : SUBSET Rules]

HostAck == [rule : Rules, account : Accounts]

ASSUME PoolAssumption ==
  /\ IsFiniteSet(Workers) /\ NumWorkers \in Nat
  /\ Retries \in Nat \ {0}
  /\ MaxFaults \in Nat /\ MaxRepl \in Nat

ASSUME HolderAssumption ==
  Repl \notin Workers /\ NoOne \notin Workers /\ Repl # NoOne

ASSUME DataAssumption ==
  /\ OrgOf \in [Hosts -> Orgs]
  /\ AccountOf \in [Hosts -> Accounts]
  /\ KnownRules \subseteq Rules /\ ActiveRules \subseteq Rules
  /\ AutoackRules \subseteq KnownRules
  /\ NonRhelRules \subseteq Rules /\ Rhel6Rules \subseteq Rules
  /\ InitHosts \subseteq SUBSET Hosts
  /\ InitHostAcks \in [Hosts -> SUBSET HostAck]
  /\ Logs \subseteq Seq(Message)

VARIABLES
  \* Kafka and the executor
  log, polled, queue, permits,
  \* the database: committed rows
  hosts, inventory, uploads, reports, acks, hostAcks, nextId,
  \* row locks that outlive a statement
  hostLock, uploadLock,
  \* the threads: program point, message, and what they have read
  pc, job, snap, upl, ids, pend, toAck, tries, mark,
  \* budgets of the environment
  faults, replLeft,
  \* what the outside sees
  outcome,     \* the last payload status of each message
  announced,   \* rules whose last webhook said "new" rather than "resolved"
  viewed,      \* the last inventory-view event: rules counted per host
  commits      \* history: ingests committed for the host (mark: at a delete's start)

kafkaVars  == <<log, polled, queue, permits>>
rowVars    == <<hosts, inventory, uploads, reports, acks, hostAcks, nextId>>
lockVars   == <<hostLock, uploadLock>>
localVars  == <<snap, upl, ids, pend, toAck, mark>>
budgetVars == <<faults, replLeft>>
eventVars  == <<announced, viewed, commits>>
vars == <<kafkaVars, rowVars, lockVars, pc, job, localVars, tries,
          budgetVars, outcome, eventVars>>

UploadRow == [id : Nat, host : Hosts, source : Sources, msg : Nat]
ReportRow == [host : Hosts, rule : Rules, upload : Nat, msg : Nat,
              account : Accounts, since : Nat]
AckRow    == [org : Orgs, rule : Rules, account : Accounts]

DeletePoints == {"delSelect", "delCascade", "delUploads", "delReports", "delAcks"}
IngestPoints == {"lookup", "newOrg", "autoack", "save", "insert",
                 "lock", "upload", "write"}
Points   == {"idle", "check"} \union DeletePoints \union IngestPoints
Outcomes == {"none", "success", "error", "invalid", "lost", "ignored"}

M(w) == log[job[w]]
H(w) == M(w).host
ReportsOf(h) == {r \in reports : r.host = h}
RulesIn(rows) == {r.rule : r \in rows}

\* The rule ids that survive the two system filters, in the code's order.
Filtered(hits) ==
  LET rhel == IF hits \cap NonRhelRules # {} THEN NonRhelRules ELSE hits
  IN  IF rhel \cap Rhel6Rules # {} THEN rhel \cap Rhel6Rules ELSE rhel

\* A report is stored when its rule survived the filters and has content.
Stored(m) == m.hits \cap Filtered(m.hits) \cap KnownRules

\* A filter's list takes the place of the hits whole: reports of its rules that
\* the message did not hit are neither renewed nor resolved.
Spared(m) == (Filtered(m.hits) \cap KnownRules) \ m.hits

(***************************************************************************)
(* Threads.                                                                *)
(***************************************************************************)

Goto(w, point) ==
  pc' = [pc EXCEPT ![w] = point]

\* Variant: an exception that escapes the handler keeps the permit.
FinishLeaky(w, result) ==
  /\ pc' = [pc EXCEPT ![w] = "idle"]
  /\ permits' = IF result = "lost" THEN permits ELSE permits + 1
  /\ outcome' = [outcome EXCEPT ![job[w]] = result]
  /\ snap' = [snap EXCEPT ![w] = {}] /\ ids' = [ids EXCEPT ![w] = {}]
  /\ pend' = [pend EXCEPT ![w] = {}] /\ toAck' = [toAck EXCEPT ![w] = {}]
  /\ upl' = [upl EXCEPT ![w] = 0] /\ tries' = [tries EXCEPT ![w] = 0]
  /\ job' = [job EXCEPT ![w] = 0] /\ mark' = [mark EXCEPT ![w] = 0]
  /\ UNCHANGED <<log, polled, queue>>

\* The handler returns or raises: on_thread_done swallows the exception and
\* the semaphore's done callback releases the permit in either case.
Finish(w, result) ==
  /\ pc' = [pc EXCEPT ![w] = "idle"]
  /\ permits' = permits + 1
  /\ outcome' = [outcome EXCEPT ![job[w]] = result]
  /\ snap' = [snap EXCEPT ![w] = {}]
  /\ ids' = [ids EXCEPT ![w] = {}]
  /\ pend' = [pend EXCEPT ![w] = {}]
  /\ toAck' = [toAck EXCEPT ![w] = {}]
  /\ upl' = [upl EXCEPT ![w] = 0]
  /\ tries' = [tries EXCEPT ![w] = 0]
  /\ job' = [job EXCEPT ![w] = 0]
  /\ mark' = [mark EXCEPT ![w] = 0]
  /\ UNCHANGED <<log, polled, queue>>

\* Commit or rollback releases every row lock of the transaction.
Unlock(w) ==
  /\ hostLock' = [h \in Hosts |-> IF hostLock[h] = w THEN NoOne ELSE hostLock[h]]
  /\ uploadLock' = {l \in uploadLock : l[1] # w}

UploadLocked(id) == \E l \in uploadLock : l[2] = id
PendOfOthers(w)  == UNION {pend[v] : v \in Workers \ {w}}

Init ==
  /\ log \in Logs /\ polled = 0
  /\ queue = << >> /\ permits = NumWorkers
  /\ hosts \in InitHosts /\ inventory = hosts /\ uploads = {} /\ reports = {}
  /\ acks = {} /\ hostAcks = InitHostAcks /\ nextId = 1
  /\ hostLock = [h \in Hosts |-> NoOne] /\ uploadLock = {}
  /\ pc = [w \in Workers |-> "idle"] /\ job = [w \in Workers |-> 0]
  /\ snap = [w \in Workers |-> {}] /\ upl = [w \in Workers |-> 0]
  /\ ids = [w \in Workers |-> {}] /\ pend = [w \in Workers |-> {}]
  /\ toAck = [w \in Workers |-> {}] /\ tries = [w \in Workers |-> 0]
  /\ mark = [w \in Workers |-> 0]
  /\ faults = 0 /\ replLeft = MaxRepl
  /\ outcome = [i \in DOMAIN log |-> "none"]
  /\ announced = [h \in Hosts |-> {}] /\ viewed = [h \in Hosts |-> {}]
  /\ commits = [h \in Hosts |-> 0]

(***************************************************************************)
(* start(): poll, decode, submit.  Messages that are not JSON are dropped; *)
(* submit blocks while no permit is left.                                  *)
(***************************************************************************)

PollMalformed ==
  /\ polled < Len(log)
  /\ log[polled + 1].type = "malformed"
  /\ polled' = polled + 1
  /\ outcome' = [outcome EXCEPT ![polled + 1] = "invalid"]
  /\ UNCHANGED <<log, queue, permits, rowVars, lockVars, pc, job,
                 localVars, tries, budgetVars, eventVars>>

\* Variant: the message handed over is the one polled before.
PollSubmitStale ==
  /\ polled < Len(log) /\ log[polled + 1].type # "malformed" /\ permits > 0
  /\ polled' = polled + 1 /\ permits' = permits - 1
  /\ queue' = Append(queue, polled)
  /\ UNCHANGED <<log, rowVars, lockVars, pc, job, localVars, tries,
                 budgetVars, outcome, eventVars>>

PollSubmit ==
  /\ polled < Len(log)
  /\ log[polled + 1].type # "malformed"
  /\ permits > 0
  /\ polled' = polled + 1
  /\ permits' = permits - 1
  /\ queue' = Append(queue, polled + 1)
  /\ UNCHANGED <<log, rowVars, lockVars, pc, job, localVars, tries,
                 budgetVars, outcome, eventVars>>

Take(w) ==
  /\ pc[w] = "idle" /\ queue # << >>
  /\ job' = [job EXCEPT ![w] = Head(queue)]
  /\ queue' = Tail(queue)
  /\ Goto(w, "check")
  /\ UNCHANGED <<log, polled, permits, rowVars, lockVars, localVars,
                 tries, budgetVars, outcome, eventVars>>

(***************************************************************************)
(* The head of each handler: required keys, system type, event type.       *)
(***************************************************************************)

Reject(w) ==
  /\ pc[w] = "check" /\ ~M(w).valid
  /\ Finish(w, "invalid")
  /\ UNCHANGED <<rowVars, lockVars, budgetVars, eventVars>>

\* Inventory events other than deletes are not acted on.
Ignore(w) ==
  /\ pc[w] = "check" /\ M(w).valid /\ M(w).type = "other"
  /\ Finish(w, "ignored")
  /\ UNCHANGED <<rowVars, lockVars, budgetVars, eventVars>>

Accept(w) ==
  /\ pc[w] = "check" /\ M(w).valid
  /\ \/ M(w).type = "ingest" /\ Goto(w, "lookup")
     \/ M(w).type = "delete" /\ Goto(w, "delSelect")
  /\ tries' = [tries EXCEPT ![w] = 0]
  /\ mark' = [mark EXCEPT ![w] = commits[H(w)]]
  /\ UNCHANGED <<kafkaVars, rowVars, lockVars, job, snap, upl, ids, pend, toAck,
                 budgetVars, outcome, eventVars>>

(***************************************************************************)
(* create_db_reports: find or create the Host, outside any transaction.    *)
(***************************************************************************)

LookupHost(w) ==
  /\ pc[w] = "lookup"
  /\ Goto(w, IF H(w) \in hosts THEN "lock" ELSE "newOrg")
  /\ UNCHANGED <<kafkaVars, rowVars, lockVars, job, localVars, tries,
                 budgetVars, outcome, eventVars>>

\* An organisation without a current upload is taken for a new one.  The
\* rules to acknowledge are those with ack__isnull=True: no ack of any org.
CheckNewOrg(w) ==
  /\ pc[w] = "newOrg"
  /\ IF \E u \in uploads : OrgOf[u.host] = OrgOf[H(w)]
       THEN Goto(w, "save") /\ UNCHANGED toAck
       ELSE /\ toAck' = [toAck EXCEPT ![w] = AutoackRules \ RulesIn(acks)]
            /\ Goto(w, "autoack")
  /\ UNCHANGED <<kafkaVars, rowVars, lockVars, job, snap, upl, ids, pend,
                 mark, tries, budgetVars, outcome, eventVars>>

NewAcks(w) ==
  [org : {OrgOf[H(w)]}, rule : toAck[w], account : {M(w).account}]

AckExists(a) == \E b \in acks : b.org = a.org /\ b.rule = a.rule

CreateAutoacks(w) ==
  /\ pc[w] = "autoack"
  /\ \A a \in NewAcks(w) : ~AckExists(a)
  /\ acks' = acks \union NewAcks(w)
  /\ Goto(w, "save")
  /\ UNCHANGED <<kafkaVars, hosts, inventory, uploads, reports, hostAcks,
                 nextId, lockVars, job, localVars, tries, budgetVars, outcome,
                 eventVars>>

\* Another thread acknowledged first: the unique constraint fails the message.
AutoackConflict(w) ==
  /\ pc[w] = "autoack"
  /\ \E a \in NewAcks(w) : AckExists(a)
  /\ Finish(w, "error")
  /\ UNCHANGED <<rowVars, lockVars, budgetVars, eventVars>>

\* Host.save(): an UPDATE, and if it hits no row an INSERT.
SaveHost(w) ==
  /\ pc[w] = "save" /\ hostLock[H(w)] = NoOne
  /\ Goto(w, IF H(w) \in hosts THEN "lock" ELSE "insert")
  /\ UNCHANGED <<kafkaVars, rowVars, lockVars, job, localVars, tries,
                 budgetVars, outcome, eventVars>>

InsertHost(w) ==
  /\ pc[w] = "insert" /\ hostLock[H(w)] = NoOne
  /\ H(w) \notin hosts
  /\ hosts' = hosts \union {H(w)}
  /\ Goto(w, "lock")
  /\ UNCHANGED <<kafkaVars, inventory, uploads, reports, acks, hostAcks,
                 nextId, lockVars, job, localVars, tries, budgetVars, outcome,
                 eventVars>>

InsertConflict(w) ==
  /\ pc[w] = "insert" /\ hostLock[H(w)] = NoOne
  /\ H(w) \in hosts
  /\ Finish(w, "error")
  /\ UNCHANGED <<rowVars, lockVars, budgetVars, eventVars>>

(***************************************************************************)
(* create_db_reports: the transaction.                                     *)
(***************************************************************************)

\* Variant: the Host row is read without FOR UPDATE.
LockHostNoWait(w) ==
  /\ pc[w] = "lock" /\ H(w) \in hosts
  /\ snap' = [snap EXCEPT ![w] = ReportsOf(H(w))]
  /\ Goto(w, "upload")
  /\ UNCHANGED <<kafkaVars, rowVars, lockVars, job, upl, ids, pend, toAck,
                 mark, tries, budgetVars, outcome, eventVars>>

\* SELECT ... FOR UPDATE of the Host row, then the host's current reports,
\* of every source.
LockHost(w) ==
  /\ pc[w] = "lock" /\ hostLock[H(w)] = NoOne
  /\ H(w) \in hosts
  /\ hostLock' = [hostLock EXCEPT ![H(w)] = w]
  /\ snap' = [snap EXCEPT ![w] = ReportsOf(H(w))]
  /\ Goto(w, "upload")
  /\ UNCHANGED <<kafkaVars, rowVars, uploadLock, job, upl, ids, pend, toAck,
                 mark, tries, budgetVars, outcome, eventVars>>

\* The replication service removed the Host since it was found or created.
HostVanished(w) ==
  /\ pc[w] = "lock" /\ hostLock[H(w)] = NoOne
  /\ H(w) \notin hosts
  /\ Finish(w, "error")
  /\ UNCHANGED <<rowVars, lockVars, budgetVars, eventVars>>

MyUploads(w) == {u \in uploads : u.host = H(w) /\ u.source = M(w).source}

\* Upload.update_or_create: lock the row of this host and source, or insert
\* one that nobody else sees before the commit.  The sequence never goes back.
GetUpload(w) ==
  /\ pc[w] = "upload"
  /\ \/ \E u \in MyUploads(w) :
          /\ ~UploadLocked(u.id)
          /\ upl' = [upl EXCEPT ![w] = u.id]
          /\ uploadLock' = uploadLock \union {<<w, u.id>>}
          /\ UNCHANGED nextId
     \/ /\ MyUploads(w) = {}
        /\ upl' = [upl EXCEPT ![w] = nextId]
        /\ nextId' = nextId + 1
        /\ UNCHANGED uploadLock
  /\ Goto(w, "write")
  /\ UNCHANGED <<kafkaVars, hosts, inventory, uploads, reports, acks, hostAcks,
                 hostLock, job, snap, ids, pend, toAck, mark, tries,
                 budgetVars, outcome, eventVars>>

HitRules(w) == Stored(M(w))

\* UPDATE ... WHERE rule, host, account and org: the rows it reaches now.
Updatable(w) ==
  {r \in ReportsOf(H(w)) : /\ r.rule \in HitRules(w) \cap RulesIn(snap[w])
                           /\ r.account = M(w).account}

\* Variant: the impacted date starts again with every upload.
SinceNow(w, rule) == job[w]

\* The impacted date is carried over from the row read under the lock.
Since(w, rule) == (CHOOSE s \in snap[w] : s.rule = rule).since

Updated(w) ==
  {[r EXCEPT !.upload = upl[w], !.msg = job[w], !.since = Since(w, r.rule)] :
     r \in Updatable(w)}

Inserted(w) ==
  [host : {H(w)}, rule : HitRules(w) \ RulesIn(snap[w]), upload : {upl[w]},
   msg : {job[w]}, account : {M(w).account}, since : {job[w]}]

\* Reports read under the lock whose rule this message does not report,
\* whatever source reported it.
Resolved(w) ==
  {r \in ReportsOf(H(w)) : r.rule \in RulesIn(snap[w]) \ Filtered(M(w).hits)}

\* The write statements wait for rows another transaction is deleting.
WriteFree(w) ==
  (Updatable(w) \union Resolved(w)) \cap PendOfOthers(w) = {}

\* trigger_report_hooks is skipped without an inventory row; acknowledgements,
\* a host's too, are looked up by the account of that row: a missing account
\* meets every org's.
HookAcked(h) ==
  {a.rule : a \in {b \in acks \union hostAcks[h] : b.account = AccountOf[h]}}

\* Variant: nothing is sent for resolved reports.
SendHooksNewOnly(w) ==
  IF H(w) \notin inventory THEN UNCHANGED announced ELSE
  announced' = [announced EXCEPT ![H(w)] = @ \union
    (((HitRules(w) \ RulesIn(snap[w])) \cap ActiveRules) \ HookAcked(H(w)))]

SendHooks(w) ==
  IF H(w) \notin inventory THEN UNCHANGED announced ELSE
  LET quiet == HookAcked(H(w))
      new   == ((HitRules(w) \ RulesIn(snap[w])) \cap ActiveRules) \ quiet
      gone  == ((RulesIn(snap[w]) \ HitRules(w)) \cap ActiveRules) \ quiet
  IN  announced' = [announced EXCEPT ![H(w)] = (@ \union new) \ gone]

\* The inventory view event counts the report objects built, not the rows hit.
SendView(w) == viewed' = [viewed EXCEPT ![H(w)] = HitRules(w)]

\* bulk_create, the updates and the delete, and the upload row, as committed.
StoreReports(w) ==
  /\ reports' = (reports \ (Updatable(w) \union Resolved(w)))
                  \union Updated(w) \union Inserted(w)
  /\ uploads' = {u \in uploads : u.id # upl[w]} \union
                  {[id |-> upl[w], host |-> H(w), source |-> M(w).source,
                    msg |-> job[w]]}
  /\ commits' = [commits EXCEPT ![H(w)] = @ + 1]

\* The statements, the hooks, the inventory view event and the 'success'
\* status, and then the commit.
WriteReports(w) ==
  /\ pc[w] = "write" /\ WriteFree(w)
  /\ StoreReports(w)
  /\ SendHooks(w) /\ SendView(w)
  /\ Unlock(w) /\ Finish(w, "success")
  /\ UNCHANGED <<hosts, inventory, acks, hostAcks, nextId, budgetVars>>

\* An error in the hooks is logged and the handler goes on to 'success'.  After
\* a failed query PostgreSQL answers the COMMIT with a rollback, not an error.
HooksFail(w) ==
  /\ pc[w] = "write" /\ WriteFree(w)
  /\ faults < MaxFaults /\ faults' = faults + 1
  /\ StoreReports(w) \/ UNCHANGED <<reports, uploads, commits>>
  /\ SendView(w) /\ UNCHANGED announced
  /\ Unlock(w) /\ Finish(w, "success")
  /\ UNCHANGED <<hosts, inventory, acks, hostAcks, nextId, replLeft>>

\* The commit itself fails: the events have already been sent.
CommitFails(w) ==
  /\ pc[w] = "write" /\ WriteFree(w)
  /\ faults < MaxFaults /\ faults' = faults + 1
  /\ SendHooks(w) /\ SendView(w)
  /\ Unlock(w) /\ Finish(w, "error")
  /\ UNCHANGED <<rowVars, replLeft, commits>>

(***************************************************************************)
(* handle_inventory_event('delete'): three separate deletes, no Host lock. *)
(***************************************************************************)

\* Django's Upload delete collects the rows, deletes the reports that refer
\* to them, deletes the rows and commits.
SelectUploads(w) ==
  /\ pc[w] = "delSelect"
  /\ ids' = [ids EXCEPT ![w] = {u.id : u \in {v \in uploads : v.host = H(w)}}]
  /\ Goto(w, "delCascade")
  /\ UNCHANGED <<kafkaVars, rowVars, lockVars, job, snap, upl, pend, toAck,
                 mark, tries, budgetVars, outcome, eventVars>>

DeleteCascade(w) ==
  LET rows == {r \in reports : r.upload \in ids[w]}
  IN  /\ pc[w] = "delCascade" /\ rows \cap PendOfOthers(w) = {}
      /\ pend' = [pend EXCEPT ![w] = rows]
      /\ Goto(w, "delUploads")
      /\ UNCHANGED <<kafkaVars, rowVars, lockVars, job, snap, upl, ids, toAck,
                     mark, tries, budgetVars, outcome, eventVars>>

UploadsFree(w) == \A id \in ids[w] : ~UploadLocked(id)
Orphans(w)     == \E r \in reports \ pend[w] : r.upload \in ids[w]

DeleteUploads(w) ==
  /\ pc[w] = "delUploads" /\ UploadsFree(w) /\ ~Orphans(w)
  /\ reports' = reports \ pend[w]
  /\ uploads' = {u \in uploads : u.id \notin ids[w]}
  /\ pend' = [pend EXCEPT ![w] = {}] /\ ids' = [ids EXCEPT ![w] = {}]
  /\ tries' = [tries EXCEPT ![w] = 0]
  /\ Goto(w, "delReports")
  /\ UNCHANGED <<kafkaVars, hosts, inventory, acks, hostAcks, nextId, lockVars,
                 job, snap, upl, toAck, mark, budgetVars, outcome, eventVars>>

\* A report inserted since DeleteCascade refers to an upload: the foreign key
\* fails the commit, and IntegrityError is not among the retried errors.
UploadsReferenced(w) ==
  /\ pc[w] = "delUploads" /\ UploadsFree(w) /\ Orphans(w)
  /\ Finish(w, "lost")
  /\ UNCHANGED <<rowVars, lockVars, budgetVars, eventVars>>

DeleteReports(w) ==
  /\ pc[w] = "delReports" /\ ReportsOf(H(w)) \cap PendOfOthers(w) = {}
  /\ reports' = reports \ ReportsOf(H(w))
  /\ tries' = [tries EXCEPT ![w] = 0]
  /\ Goto(w, "delAcks")
  /\ UNCHANGED <<kafkaVars, hosts, inventory, uploads, acks, hostAcks, nextId,
                 lockVars, job, localVars, budgetVars, outcome, eventVars>>

DeleteHostAcks(w) ==
  /\ pc[w] = "delAcks"
  /\ hostAcks' = [hostAcks EXCEPT ![H(w)] = {}]
  /\ Finish(w, "success")
  /\ UNCHANGED <<hosts, inventory, uploads, reports, acks, nextId, lockVars,
                 budgetVars, eventVars>>

(***************************************************************************)
(* Database errors (OperationalError, InterfaceError).                     *)
(***************************************************************************)

RetryPoint(w) ==
  IF pc[w] \in {"delSelect", "delCascade", "delUploads"} THEN "delSelect" ELSE pc[w]

\* The delete is tried again, from its first statement.
Retry(w) ==
  /\ tries' = [tries EXCEPT ![w] = @ + 1]
  /\ Goto(w, RetryPoint(w))
  /\ pend' = [pend EXCEPT ![w] = {}] /\ ids' = [ids EXCEPT ![w] = {}]
  /\ UNCHANGED <<kafkaVars, job, snap, upl, toAck, mark, outcome>>

\* Variant: without the for loop's else branch the handler carries on.
DeleteFailsQuietly(w) ==
  \/ tries[w] + 1 < Retries /\ Retry(w)
  \/ tries[w] + 1 >= Retries /\ Finish(w, "success")

\* One delete fails; after DB_RETRY_CONSTANT failures the last error is raised.
DeleteFails(w) ==
  \/ tries[w] + 1 < Retries /\ Retry(w)
  \/ tries[w] + 1 >= Retries /\ Finish(w, "error")

DeleteError(w) ==
  /\ pc[w] \in DeletePoints
  /\ faults < MaxFaults /\ faults' = faults + 1
  /\ DeleteFails(w)
  /\ UNCHANGED <<rowVars, lockVars, replLeft, eventVars>>

\* Variant: the transaction is left open.
IngestErrorLocked(w) ==
  /\ pc[w] \in IngestPoints /\ faults < MaxFaults /\ faults' = faults + 1
  /\ Finish(w, "error")
  /\ UNCHANGED <<rowVars, lockVars, replLeft, eventVars>>

\* Any exception in create_db_reports rolls back and reports an error.
IngestError(w) ==
  /\ pc[w] \in IngestPoints
  /\ faults < MaxFaults /\ faults' = faults + 1
  /\ Unlock(w) /\ Finish(w, "error")
  /\ UNCHANGED <<rowVars, replLeft, eventVars>>

\* The system type query is tried twice; the second error escapes the handler.
SystemTypeError(w) ==
  /\ pc[w] = "check" /\ M(w).valid /\ M(w).type = "ingest"
  /\ faults < MaxFaults /\ faults' = faults + 1
  /\ \/ /\ tries[w] = 0
        /\ tries' = [tries EXCEPT ![w] = 1]
        /\ UNCHANGED <<kafkaVars, pc, job, localVars, outcome>>
     \/ tries[w] > 0 /\ Finish(w, "lost")
  /\ UNCHANGED <<rowVars, lockVars, replLeft, eventVars>>

\* Worker a waits for report rows that d is deleting, and d for the upload
\* row that a has locked: PostgreSQL aborts one of the two.
Deadlocked(a, d) ==
  /\ pc[a] = "write" /\ pc[d] = "delUploads"
  /\ (Updatable(a) \union Resolved(a)) \cap pend[d] # {}
  /\ \E id \in ids[d] : <<a, id>> \in uploadLock

DeadlockVictim(w) ==
  \/ /\ \E d \in Workers : Deadlocked(w, d)
     /\ Unlock(w) /\ Finish(w, "error")
     /\ UNCHANGED <<rowVars, budgetVars, eventVars>>
  \/ /\ \E a \in Workers : Deadlocked(a, w)
     /\ DeleteFails(w)
     /\ UNCHANGED <<rowVars, lockVars, budgetVars, eventVars>>

(***************************************************************************)
(* The replication service (advisor_inventory_service.py).                 *)
(***************************************************************************)

\* One process, one batch at a time.
ReplIdle == \A h \in Hosts : hostLock[h] # Repl

ReplUpsert(h) ==
  /\ ReplIdle
  /\ replLeft > 0 /\ replLeft' = replLeft - 1
  /\ hostLock[h] = NoOne
  /\ hosts' = hosts \union {h} /\ inventory' = inventory \union {h}
  /\ UNCHANGED <<kafkaVars, uploads, reports, acks, hostAcks, nextId, lockVars,
                 pc, job, localVars, tries, faults, outcome, eventVars>>

\* The inventory row goes, and the Host row is locked if there is one.
ReplLockHost(h) ==
  /\ replLeft > 0 /\ replLeft' = replLeft - 1
  /\ h \in hosts /\ hostLock[h] = NoOne
  /\ ReplIdle
  /\ hostLock' = [hostLock EXCEPT ![h] = Repl]
  /\ UNCHANGED <<kafkaVars, rowVars, uploadLock, pc, job, localVars, tries,
                 faults, outcome, eventVars>>

\* Uploads, reports, host acks and the Host, and the commit.
ReplDelete(h) ==
  /\ hostLock[h] = Repl
  /\ ReportsOf(h) \cap UNION {pend[w] : w \in Workers} = {}
  /\ inventory' = inventory \ {h} /\ hosts' = hosts \ {h}
  /\ uploads' = {u \in uploads : u.host # h}
  /\ reports' = reports \ ReportsOf(h)
  /\ hostAcks' = [hostAcks EXCEPT ![h] = {}]
  /\ hostLock' = [hostLock EXCEPT ![h] = NoOne]
  /\ UNCHANGED <<kafkaVars, acks, nextId, uploadLock, pc, job, localVars, tries,
                 budgetVars, outcome, eventVars>>

Consumer == PollMalformed \/ PollSubmit

Handler(w) ==
  \/ Take(w) \/ Reject(w) \/ Ignore(w) \/ Accept(w)
  \/ LookupHost(w) \/ CheckNewOrg(w) \/ CreateAutoacks(w) \/ AutoackConflict(w)
  \/ SaveHost(w) \/ InsertHost(w) \/ InsertConflict(w)
  \/ LockHost(w) \/ HostVanished(w) \/ GetUpload(w)
  \/ WriteReports(w)
  \/ SelectUploads(w) \/ DeleteCascade(w) \/ DeleteUploads(w)
  \/ UploadsReferenced(w) \/ DeleteReports(w) \/ DeleteHostAcks(w)
  \/ DeadlockVictim(w)

Fault(w) ==
  \/ DeleteError(w) \/ IngestError(w) \/ SystemTypeError(w)
  \/ HooksFail(w) \/ CommitFails(w)

\* SIGTERM ends the consumer loop between two polls, and executor.shutdown
\* waits for the handlers: what is polled is settled, then nothing happens.
Stopped ==
  /\ queue = << >> /\ \A w \in Workers : pc[w] = "idle"
  /\ ReplIdle
  /\ UNCHANGED vars

Next ==
  \/ Consumer
  \/ \E w \in Workers : Handler(w) \/ Fault(w)
  \/ \E h \in Hosts : ReplUpsert(h) \/ ReplLockHost(h) \/ ReplDelete(h)
  \/ Stopped

Spec == Init /\ [][Next]_vars

\* Threads are scheduled, and a granted lock is used: every enabled step of
\* theirs is eventually taken.  Faults need not happen, and polling may stop
\* at any point (SIGTERM).
Fairness ==
  /\ \A w \in Workers : WF_vars(Handler(w))
  /\ \A h \in Hosts : WF_vars(ReplDelete(h))

FairSpec == Spec /\ Fairness

-----------------------------------------------------------------------------
(***************************************************************************)
(* Properties.                                                             *)
(***************************************************************************)

KafkaType ==
  /\ log \in Logs /\ polled \in 0..Len(log)
  /\ queue \in Seq(DOMAIN log) /\ permits \in Int
  /\ outcome \in [DOMAIN log -> Outcomes]

RowType ==
  /\ hosts \subseteq Hosts /\ inventory \subseteq Hosts
  /\ uploads \subseteq UploadRow /\ reports \subseteq ReportRow
  /\ acks \subseteq AckRow /\ hostAcks \in [Hosts -> SUBSET HostAck]
  /\ nextId \in Nat

LockType ==
  /\ hostLock \in [Hosts -> Workers \union {NoOne, Repl}]
  /\ uploadLock \subseteq Workers \X Nat

ThreadType ==
  /\ pc \in [Workers -> Points] /\ job \in [Workers -> Nat]
  /\ \A w \in Workers : pc[w] # "idle" => job[w] \in DOMAIN log
  /\ snap \in [Workers -> SUBSET ReportRow] /\ pend \in [Workers -> SUBSET ReportRow]
  /\ upl \in [Workers -> Nat] /\ ids \in [Workers -> SUBSET Nat]
  /\ toAck \in [Workers -> SUBSET Rules] /\ tries \in [Workers -> Nat]
  /\ mark \in [Workers -> Nat]

EventType ==
  /\ announced \in [Hosts -> SUBSET Rules] /\ viewed \in [Hosts -> SUBSET Rules]
  /\ commits \in [Hosts -> Nat]

\* Every variable has its type, and a busy thread holds a message of the log
\* (service.py as a whole).
TypeOK ==
  /\ KafkaType /\ RowType /\ LockType /\ ThreadType /\ EventType
  /\ faults \in Nat /\ replLeft \in Nat

\* The Host row lock ("lock on system uuid to avoid race conditions") keeps
\* the unique constraint of CurrentReport from ever being met: a thread that
\* inserts has seen every report of the host.
UniqueReports ==
  \A r, s \in reports : r.host = s.host /\ r.rule = s.rule => r = s

Busy == {w \in Workers : pc[w] # "idle"}

\* The semaphore's permits are what the queued and running handlers leave: none
\* leaks on any exit, and no more than NumWorkers handlers are in flight.
PermitsConserved ==
  permits = NumWorkers - (Len(queue) + Cardinality(Busy)) /\ permits >= 0

\* While no delete, error or replication touches the host, a consumer that
\* folds the webhooks knows its active reports, and the last inventory view
\* event counted its reports: for all rules but those that a message spared
\* and, of webhooks, those acknowledged since, of which it hears no more.
EventsTrackReports ==
  \A h \in Hosts :
    (/\ \A i \in DOMAIN log : ~(log[i].type = "delete" /\ log[i].host = h)
     /\ h \in inventory /\ faults = 0 /\ replLeft = MaxRepl)
    => LET spared == UNION {Spared(log[i]) : i \in {i \in DOMAIN log : log[i].host = h}}
           quiet  == HookAcked(h) \union spared
       IN  /\ announced[h] \ quiet = (RulesIn(ReportsOf(h)) \cap ActiveRules) \ quiet
           /\ viewed[h] \ spared = RulesIn(ReportsOf(h)) \ spared

\* A delete that reports success leaves neither upload, report nor host ack of
\* the host, unless an ingest for it committed meanwhile.
DeleteErases ==
  [][\A w \in Workers :
       (/\ pc[w] \in DeletePoints /\ pc'[w] = "idle"
        /\ outcome'[job[w]] = "success" /\ commits[H(w)] = mark[w])
       => /\ \A u \in uploads' : u.host # H(w)
          /\ \A r \in reports' : r.host # H(w)
          /\ hostAcks'[H(w)] = {}]_vars

\* No handler waits for ever, whatever locks it meets and whatever fails: the
\* pool always gets its threads back and the queue is emptied.
HandlersFinish ==
  /\ \A w \in Workers : (pc[w] # "idle") ~> (pc[w] = "idle")
  /\ (queue # << >>) ~> (queue = << >>)

(***************************************************************************)
(* What the threads, locks and statements implement: HostReports.           *)
(***************************************************************************)

\* A report, with the messages of its content and its upload row for the numbers.
Shown(r) ==
  [rule |-> r.rule, account |-> r.account, since |-> r.since,
   from |-> {r.msg} \union {u.msg : u \in {v \in uploads : v.id = r.upload}}]

\* Rules of reports that an upload has seen under the lock and that are gone.
Doubtful(h) ==
  (UNION {RulesIn(snap[w]) : w \in {v \in Workers : pc[v] # "idle" /\ H(v) = h}})
    \ RulesIn(ReportsOf(h))

Promise == INSTANCE HostReports WITH
  Results  <- Outcomes,
  messages <- [m \in DOMAIN log |-> [host |-> log[m].host, account |-> log[m].account,
                                     rules |-> Stored(log[m]), spared |-> Spared(log[m])]],
  current  <- [h \in Hosts |-> {Shown(r) : r \in ReportsOf(h)}],
  doubt    <- [h \in Hosts |-> Doubtful(h)],
  result   <- outcome

\* The Host row lock makes a message's upload one step, whatever runs beside it
\* and however it ends: the host's reports are those of one message, of its
\* content and of its upload row, with the impacted date each rule had before,
\* but for what the message spares or has another account, and never those of
\* a message that was not reported 'success'.
KeepsPromise == Promise!Spec

-----------------------------------------------------------------------------
(***************************************************************************)
(* What comments of the code say and the code does not do.                 *)
(***************************************************************************)

\* "Update existing reports": a committed message brings every report of its
\* host up to date; the account "is no longer required, only optional".
ExistingUpdated ==
  [][\A w \in Workers :
       pc[w] = "write" /\ outcome'[job[w]] = "success"
       => \A r \in reports' : r.host = H(w) => r.msg = job[w]]_vars

=============================================================================
