---------------------- MODULE AdvisorService_proofs ----------------------
(***************************************************************************)
(* Theorems about the Advisor Service, for every set of hosts, threads,    *)
(* rules and message sequences: types, the permits of the bounded          *)
(* executor, the uniqueness of reports under the Host row lock, what a     *)
(* successful delete leaves, what the webhooks and the inventory view tell *)
(* of the reports, and the abstract specification the service implements   *)
(* (HostReports).                                                          *)
(***************************************************************************)
EXTENDS AdvisorService, FiniteSetTheorems, TLAPS

-----------------------------------------------------------------------------
(***************************************************************************)
(* Type correctness.                                                       *)
(***************************************************************************)

\* What a message carries (the key paths the handlers read).
LEMMA MessageType ==
  ASSUME log \in Logs, NEW i \in DOMAIN log
  PROVE  /\ log[i] \in Message
         /\ log[i].host \in Hosts /\ log[i].source \in Sources
         /\ log[i].account \in Accounts /\ log[i].hits \in SUBSET Rules
         /\ i \in Nat
<1>1. log \in Seq(Message)
  BY DataAssumption DEF DataAssumption
<1>2. log[i] \in Message /\ i \in Nat
  BY <1>1
<1> QED
  BY <1>2 DEF Message

\* A busy thread handles a message of the log, for a host of the inventory.
LEMMA JobType ==
  ASSUME KafkaType, ThreadType, NEW w \in Workers, pc[w] # "idle"
  PROVE  /\ job[w] \in DOMAIN log /\ M(w) \in Message
         /\ H(w) \in Hosts /\ M(w).source \in Sources
         /\ M(w).account \in Accounts /\ M(w).hits \in SUBSET Rules
  BY MessageType DEF KafkaType, ThreadType, M, H

\* Returning from a handler (on_thread_done) keeps the types of the pool.
LEMMA FinishType ==
  ASSUME KafkaType, ThreadType, NEW w \in Workers, pc[w] # "idle",
         NEW r \in Outcomes, Finish(w, r)
  PROVE  KafkaType' /\ ThreadType'
<1>1. KafkaType'
  BY JobType DEF KafkaType, ThreadType, Finish
<1>2. ThreadType'
  BY DEF KafkaType, ThreadType, Finish, Points
<1> QED  BY <1>1, <1>2

\* The steps of the consumer loop keep the types.
LEMMA ConsumerType ==
  TypeOK /\ Consumer => TypeOK'
<1> SUFFICES ASSUME TypeOK, Consumer PROVE TypeOK'
  OBVIOUS
<1>0. log \in Seq(Message) /\ Len(log) \in Nat /\ DOMAIN log = 1..Len(log)
  BY DataAssumption DEF TypeOK, KafkaType, DataAssumption
<1>1. CASE PollMalformed
  BY <1>0, <1>1 DEF PollMalformed, TypeOK, KafkaType, RowType, LockType, ThreadType,
     EventType, rowVars, lockVars, localVars, budgetVars, eventVars, Outcomes
<1>2. CASE PollSubmit
  <2>1. polled + 1 \in DOMAIN log
    BY <1>0, <1>2 DEF PollSubmit, TypeOK, KafkaType
  <2>2. KafkaType'
    BY <1>0, <1>2, <2>1 DEF PollSubmit, TypeOK, KafkaType
  <2> QED
    BY <1>2, <2>2 DEF PollSubmit, TypeOK, RowType, LockType, ThreadType,
       EventType, rowVars, lockVars, localVars, budgetVars, eventVars
<1> QED
  BY <1>1, <1>2 DEF Consumer

\* The environment's budgets and the event history are untouched by the steps
\* of a handler that end it without writing.
LEMMA QuitType ==
  ASSUME TypeOK, NEW w \in Workers, pc[w] # "idle",
         NEW r \in Outcomes, Finish(w, r),
         UNCHANGED <<rowVars, lockVars, budgetVars, eventVars>>
  PROVE  TypeOK'
<1>1. KafkaType' /\ ThreadType'
  BY FinishType DEF TypeOK
<1> QED
  BY <1>1 DEF TypeOK, RowType, LockType, EventType,
     rowVars, lockVars, budgetVars, eventVars

\* The head of the handlers: what they take, refuse and accept.
LEMMA HeadType ==
  ASSUME TypeOK, NEW w \in Workers, Take(w) \/ Reject(w) \/ Ignore(w) \/ Accept(w)
  PROVE  TypeOK'
<1>1. CASE Take(w)
  <2>1. Head(queue) \in DOMAIN log /\ Tail(queue) \in Seq(DOMAIN log)
    BY <1>1 DEF Take, TypeOK, KafkaType
  <2>2. \A i \in DOMAIN log : i \in Nat
    BY MessageType DEF TypeOK, KafkaType
  <2>3. ThreadType'
    BY <1>1, <2>1, <2>2 DEF Take, Goto, TypeOK, KafkaType, ThreadType, localVars, Points
  <2> QED
    BY <1>1, <2>1, <2>3 DEF Take, TypeOK, KafkaType, RowType, LockType, EventType,
       rowVars, lockVars, budgetVars, eventVars
<1>2. CASE Reject(w) \/ Ignore(w)
  BY <1>2, QuitType DEF Reject, Ignore, Outcomes
<1>3. CASE Accept(w)
  <2>1. H(w) \in Hosts /\ pc[w] # "idle"
    BY <1>3, JobType DEF Accept, TypeOK
  <2>2. ThreadType'
    BY <1>3, <2>1 DEF Accept, Goto, TypeOK, ThreadType, EventType, kafkaVars, Points,
       DeletePoints, IngestPoints
  <2> QED
    BY <1>3, <2>2 DEF Accept, TypeOK, KafkaType, RowType, LockType, EventType,
       kafkaVars, rowVars, lockVars, budgetVars, eventVars
<1> QED
  BY <1>1, <1>2, <1>3

\* Finding or creating the Host, and the autoacks of a new organisation.
LEMMA HostType ==
  ASSUME TypeOK, NEW w \in Workers,
         \/ LookupHost(w) \/ CheckNewOrg(w) \/ CreateAutoacks(w) \/ AutoackConflict(w)
         \/ SaveHost(w) \/ InsertHost(w) \/ InsertConflict(w)
  PROVE  TypeOK'
<1> USE DEF Goto, Points, IngestPoints
<1>0. AutoackRules \subseteq Rules /\ OrgOf \in [Hosts -> Orgs]
  BY DataAssumption DEF DataAssumption
<1>1. CASE LookupHost(w) \/ SaveHost(w)
  BY <1>1 DEF LookupHost, SaveHost, TypeOK, KafkaType, RowType, LockType, ThreadType,
     EventType, kafkaVars, rowVars, lockVars, localVars, budgetVars, eventVars
<1>2. CASE CheckNewOrg(w)
  <2>1. ThreadType'
    BY <1>0, <1>2 DEF CheckNewOrg, TypeOK, ThreadType, kafkaVars
  <2> QED
    BY <1>2, <2>1 DEF CheckNewOrg, TypeOK, KafkaType, RowType, LockType, EventType,
       kafkaVars, rowVars, lockVars, budgetVars, eventVars
<1>3. CASE CreateAutoacks(w)
  <2>1. H(w) \in Hosts /\ M(w).account \in Accounts /\ toAck[w] \subseteq Rules
    BY <1>3, JobType DEF CreateAutoacks, TypeOK, ThreadType
  <2>2. NewAcks(w) \subseteq AckRow
    BY <1>0, <2>1 DEF NewAcks, AckRow
  <2> QED
    BY <1>3, <2>2 DEF CreateAutoacks, TypeOK, KafkaType, RowType, LockType, ThreadType,
       EventType, kafkaVars, lockVars, localVars, budgetVars, eventVars
<1>4. CASE AutoackConflict(w) \/ InsertConflict(w)
  BY <1>4, QuitType DEF AutoackConflict, InsertConflict, Outcomes
<1>5. CASE InsertHost(w)
  <2>1. H(w) \in Hosts
    BY <1>5, JobType DEF InsertHost, TypeOK
  <2> QED
    BY <1>5, <2>1 DEF InsertHost, TypeOK, KafkaType, RowType, LockType, ThreadType,
       EventType, kafkaVars, lockVars, localVars, budgetVars, eventVars
<1> QED
  BY <1>1, <1>2, <1>3, <1>4, <1>5

\* Commit and rollback (Unlock) keep the types of the locks.
LEMMA UnlockType ==
  ASSUME LockType, NEW w \in Workers, Unlock(w)
  PROVE  LockType'
  BY DEF LockType, Unlock

\* The impacted date read under the lock is one of a stored report.
LEMMA SinceType ==
  ASSUME ThreadType, NEW w \in Workers, NEW rule \in RulesIn(snap[w])
  PROVE  Since(w, rule) \in Nat
<1>1. PICK s \in snap[w] : s.rule = rule
  BY DEF RulesIn
<1>2. (CHOOSE t \in snap[w] : t.rule = rule) \in snap[w]
  BY <1>1
<1>3. snap[w] \subseteq ReportRow
  BY DEF ThreadType
<1> QED
  BY <1>2, <1>3 DEF Since, ReportRow

\* The rows a message writes are report rows (CurrentReport).
LEMMA WrittenType ==
  ASSUME TypeOK, NEW w \in Workers, pc[w] # "idle"
  PROVE  /\ HitRules(w) \in SUBSET Rules
         /\ Updated(w) \subseteq ReportRow
         /\ Inserted(w) \subseteq ReportRow
<1>1. /\ H(w) \in Hosts /\ M(w).account \in Accounts /\ M(w).hits \in SUBSET Rules
      /\ M(w).source \in Sources /\ job[w] \in Nat /\ upl[w] \in Nat
  BY JobType DEF TypeOK, ThreadType
<1>2. HitRules(w) \subseteq Rules
  BY <1>1 DEF HitRules, Stored
<1>3. Updated(w) \subseteq ReportRow
  <2>1. ASSUME NEW r \in Updatable(w)
        PROVE  [r EXCEPT !.upload = upl[w], !.msg = job[w],
                         !.since = Since(w, r.rule)] \in ReportRow
    <3>1. r \in ReportRow /\ r.rule \in RulesIn(snap[w])
      BY DEF Updatable, ReportsOf, TypeOK, RowType
    <3>2. Since(w, r.rule) \in Nat
      BY <3>1, SinceType DEF TypeOK
    <3> QED
      BY <1>1, <3>1, <3>2 DEF ReportRow
  <2> QED
    BY <2>1 DEF Updated
<1>4. Inserted(w) \subseteq ReportRow
  BY <1>1, <1>2 DEF Inserted, ReportRow
<1> QED
  BY <1>2, <1>3, <1>4

\* What a message stores is rows of the right types (create_db_reports).
LEMMA StoreType ==
  ASSUME TypeOK, NEW w \in Workers, pc[w] # "idle", StoreReports(w)
  PROVE  /\ reports' \subseteq ReportRow /\ uploads' \subseteq UploadRow
         /\ commits' \in [Hosts -> Nat]
<1>1. H(w) \in Hosts /\ M(w).source \in Sources /\ job[w] \in Nat /\ upl[w] \in Nat
  BY JobType DEF TypeOK, ThreadType
<1>2. reports' \subseteq ReportRow
  BY WrittenType DEF StoreReports, TypeOK, RowType
<1>3. uploads' \subseteq UploadRow
  BY <1>1 DEF StoreReports, TypeOK, RowType, UploadRow
<1> QED
  BY <1>1, <1>2, <1>3 DEF StoreReports, TypeOK, EventType

\* The inventory view event counts rules only.
LEMMA ViewType ==
  ASSUME TypeOK, NEW w \in Workers, pc[w] # "idle", SendView(w)
  PROVE  viewed' \in [Hosts -> SUBSET Rules]
<1>1. H(w) \in Hosts /\ HitRules(w) \in SUBSET Rules
  BY JobType, WrittenType DEF TypeOK
<1> QED
  BY <1>1 DEF SendView, TypeOK, EventType

\* The webhooks and the inventory view event name rules only.
LEMMA SendType ==
  ASSUME TypeOK, NEW w \in Workers, pc[w] # "idle", SendHooks(w), SendView(w)
  PROVE  announced' \in [Hosts -> SUBSET Rules] /\ viewed' \in [Hosts -> SUBSET Rules]
<1>1. H(w) \in Hosts /\ HitRules(w) \in SUBSET Rules
  BY JobType, WrittenType DEF TypeOK
<1> QED
  BY <1>1, ViewType DEF SendHooks, TypeOK, EventType

\* The steps of create_db_reports' transaction keep the types.
LEMMA TransactionType ==
  ASSUME TypeOK, NEW w \in Workers,
         \/ LockHost(w) \/ HostVanished(w) \/ GetUpload(w) \/ WriteReports(w)
         \/ HooksFail(w) \/ CommitFails(w)
  PROVE  TypeOK'
<1>1. CASE LockHost(w)
  <2>1. H(w) \in Hosts /\ ReportsOf(H(w)) \subseteq ReportRow
    BY <1>1, JobType DEF LockHost, TypeOK, RowType, ReportsOf
  <2>2. ThreadType'
    BY <1>1, <2>1 DEF LockHost, Goto, Points, IngestPoints, TypeOK, ThreadType, kafkaVars
  <2>3. LockType'
    BY <1>1, <2>1 DEF LockHost, TypeOK, LockType
  <2> QED
    BY <1>1, <2>2, <2>3 DEF LockHost, TypeOK, KafkaType, RowType, EventType,
       kafkaVars, rowVars, budgetVars, eventVars
<1>2. CASE HostVanished(w)
  BY <1>2, QuitType DEF HostVanished, Outcomes
<1>3. CASE GetUpload(w)
  <2>1. \A u \in uploads : u.id \in Nat
    BY DEF TypeOK, RowType, UploadRow
  <2>2. MyUploads(w) \subseteq uploads
    BY DEF MyUploads
  <2>3. ThreadType'
    BY <1>3, <2>1, <2>2 DEF GetUpload, Goto, Points, IngestPoints, TypeOK, ThreadType,
       RowType, kafkaVars
  <2>4. LockType' /\ nextId' \in Nat
    BY <1>3, <2>1, <2>2 DEF GetUpload, TypeOK, LockType, RowType
  <2> QED
    BY <1>3, <2>3, <2>4 DEF GetUpload, TypeOK, KafkaType, RowType, EventType,
       kafkaVars, budgetVars, eventVars
<1>4. CASE WriteReports(w)
  <2>1. pc[w] # "idle"
    BY <1>4 DEF WriteReports
  <2>2. KafkaType' /\ ThreadType'
    BY <1>4, <2>1, FinishType DEF WriteReports, TypeOK, Outcomes
  <2>3. LockType'
    BY <1>4, UnlockType DEF WriteReports, TypeOK
  <2>4. RowType'
    BY <1>4, <2>1, StoreType DEF WriteReports, TypeOK, RowType
  <2>5. EventType'
    BY <1>4, <2>1, StoreType, SendType DEF WriteReports, TypeOK, EventType
  <2> QED
    BY <1>4, <2>2, <2>3, <2>4, <2>5 DEF WriteReports, TypeOK, budgetVars
<1>5. CASE CommitFails(w)
  <2>1. pc[w] # "idle"
    BY <1>5 DEF CommitFails
  <2>2. KafkaType' /\ ThreadType'
    BY <1>5, <2>1, FinishType DEF CommitFails, TypeOK, Outcomes
  <2>3. LockType'
    BY <1>5, UnlockType DEF CommitFails, TypeOK
  <2>4. EventType'
    BY <1>5, <2>1, SendType DEF CommitFails, TypeOK, EventType
  <2> QED
    BY <1>5, <2>2, <2>3, <2>4 DEF CommitFails, TypeOK, RowType, rowVars
<1>6. CASE HooksFail(w)
  <2>1. pc[w] # "idle"
    BY <1>6 DEF HooksFail
  <2>2. KafkaType' /\ ThreadType'
    BY <1>6, <2>1, FinishType DEF HooksFail, TypeOK, Outcomes
  <2>3. LockType'
    BY <1>6, UnlockType DEF HooksFail, TypeOK
  <2>4. /\ reports' \subseteq ReportRow /\ uploads' \subseteq UploadRow
        /\ commits' \in [Hosts -> Nat]
    BY <1>6, <2>1, StoreType DEF HooksFail, TypeOK, RowType, EventType
  <2>5. viewed' \in [Hosts -> SUBSET Rules]
    BY <1>6, <2>1, ViewType DEF HooksFail
  <2>6. RowType' /\ EventType'
    BY <1>6, <2>4, <2>5 DEF HooksFail, TypeOK, RowType, EventType
  <2> QED
    BY <1>6, <2>2, <2>3, <2>6 DEF HooksFail, TypeOK
<1> QED
  BY <1>1, <1>2, <1>3, <1>4, <1>5, <1>6

\* The three deletes of handle_inventory_event keep the types.
LEMMA DeleteType ==
  ASSUME TypeOK, NEW w \in Workers,
         \/ SelectUploads(w) \/ DeleteCascade(w) \/ DeleteUploads(w)
         \/ UploadsReferenced(w) \/ DeleteReports(w) \/ DeleteHostAcks(w)
  PROVE  TypeOK'
<1> USE DEF Goto, Points, DeletePoints
<1>0. reports \subseteq ReportRow /\ \A u \in uploads : u.id \in Nat
  BY DEF TypeOK, RowType, UploadRow
<1>1. CASE SelectUploads(w)
  <2>1. ThreadType'
    BY <1>0, <1>1 DEF SelectUploads, TypeOK, ThreadType, kafkaVars
  <2> QED
    BY <1>1, <2>1 DEF SelectUploads, TypeOK, KafkaType, RowType, LockType, EventType,
       kafkaVars, rowVars, lockVars, budgetVars, eventVars
<1>2. CASE DeleteCascade(w)
  <2>1. ThreadType'
    BY <1>0, <1>2 DEF DeleteCascade, TypeOK, ThreadType, kafkaVars
  <2> QED
    BY <1>2, <2>1 DEF DeleteCascade, TypeOK, KafkaType, RowType, LockType, EventType,
       kafkaVars, rowVars, lockVars, budgetVars, eventVars
<1>3. CASE DeleteUploads(w)
  <2>1. ThreadType'
    BY <1>3 DEF DeleteUploads, TypeOK, ThreadType, kafkaVars
  <2> QED
    BY <1>3, <2>1 DEF DeleteUploads, TypeOK, KafkaType, RowType, LockType, EventType,
       kafkaVars, lockVars, budgetVars, eventVars
<1>4. CASE UploadsReferenced(w)
  BY <1>4, QuitType DEF UploadsReferenced, Outcomes
<1>5. CASE DeleteReports(w)
  <2>1. ThreadType'
    BY <1>5 DEF DeleteReports, TypeOK, ThreadType, kafkaVars, localVars
  <2> QED
    BY <1>5, <2>1 DEF DeleteReports, TypeOK, KafkaType, RowType, LockType, EventType,
       kafkaVars, lockVars, budgetVars, eventVars
<1>6. CASE DeleteHostAcks(w)
  <2>1. KafkaType' /\ ThreadType'
    BY <1>6, FinishType DEF DeleteHostAcks, TypeOK, Outcomes
  <2> QED
    BY <1>6, <2>1 DEF DeleteHostAcks, TypeOK, RowType, LockType, EventType,
       lockVars, budgetVars, eventVars
<1> QED
  BY <1>1, <1>2, <1>3, <1>4, <1>5, <1>6

\* A failed delete is retried or given up (the for ... else loops).
LEMMA DeleteFailsType ==
  ASSUME KafkaType, ThreadType, NEW w \in Workers, pc[w] \in DeletePoints, DeleteFails(w)
  PROVE  KafkaType' /\ ThreadType'
<1>0. pc[w] # "idle"
  BY DEF DeletePoints
<1>1. CASE Retry(w)
  <2>1. RetryPoint(w) \in Points
    BY DEF RetryPoint, Points, DeletePoints
  <2>2. KafkaType' /\ UNCHANGED <<log, job, snap, upl, toAck, mark>>
    BY <1>1 DEF Retry, KafkaType, kafkaVars
  <2>3. pc' \in [Workers -> Points] /\ \A v \in Workers : pc'[v] # "idle" => pc[v] # "idle"
    BY <1>0, <1>1, <2>1 DEF Retry, Goto, ThreadType
  <2>4. /\ tries' \in [Workers -> Nat]
        /\ pend' \in [Workers -> SUBSET ReportRow] /\ ids' \in [Workers -> SUBSET Nat]
    BY <1>1 DEF Retry, ThreadType
  <2> QED
    BY <2>2, <2>3, <2>4 DEF ThreadType
<1>2. CASE Finish(w, "error")
  BY <1>0, <1>2, FinishType DEF Outcomes
<1> QED
  BY <1>1, <1>2 DEF DeleteFails

\* Database errors, at whatever statement, keep the types.
LEMMA ErrorType ==
  ASSUME TypeOK, NEW w \in Workers,
         DeleteError(w) \/ IngestError(w) \/ SystemTypeError(w) \/ DeadlockVictim(w)
  PROVE  TypeOK'
<1>1. CASE DeleteError(w)
  <2>1. KafkaType' /\ ThreadType'
    BY <1>1, DeleteFailsType DEF DeleteError, TypeOK
  <2> QED
    BY <1>1, <2>1 DEF DeleteError, TypeOK, RowType, LockType, EventType,
       rowVars, lockVars, eventVars
<1>2. CASE IngestError(w)
  <2>1. pc[w] # "idle"
    BY <1>2 DEF IngestError, IngestPoints
  <2>2. KafkaType' /\ ThreadType' /\ LockType'
    BY <1>2, <2>1, FinishType, UnlockType DEF IngestError, TypeOK, Outcomes
  <2> QED
    BY <1>2, <2>2 DEF IngestError, TypeOK, RowType, EventType, rowVars, eventVars
<1>3. CASE SystemTypeError(w)
  <2>1. pc[w] # "idle"
    BY <1>3 DEF SystemTypeError
  <2>2. CASE Finish(w, "lost")
    <3>1. KafkaType' /\ ThreadType'
      BY <2>1, <2>2, FinishType DEF TypeOK, Outcomes
    <3> QED
      BY <1>3, <3>1 DEF SystemTypeError, TypeOK, RowType, LockType, EventType,
         rowVars, lockVars, eventVars
  <2>3. CASE /\ tries' = [tries EXCEPT ![w] = 1]
             /\ UNCHANGED <<kafkaVars, pc, job, localVars, outcome>>
    BY <1>3, <2>3 DEF SystemTypeError, TypeOK, KafkaType, RowType, LockType, ThreadType,
       EventType, kafkaVars, rowVars, lockVars, localVars, eventVars
  <2> QED
    BY <1>3, <2>2, <2>3 DEF SystemTypeError
<1>4. CASE DeadlockVictim(w)
  <2>1. CASE \E d \in Workers : Deadlocked(w, d) /\ Unlock(w) /\ Finish(w, "error")
                                /\ UNCHANGED <<rowVars, budgetVars, eventVars>>
    <3>1. pc[w] # "idle"
      BY <2>1 DEF Deadlocked
    <3>2. KafkaType' /\ ThreadType' /\ LockType'
      BY <2>1, <3>1, FinishType, UnlockType DEF TypeOK, Outcomes
    <3> QED
      BY <2>1, <3>2 DEF TypeOK, RowType, EventType, rowVars, budgetVars, eventVars
  <2>2. CASE \E a \in Workers : Deadlocked(a, w) /\ DeleteFails(w)
                                /\ UNCHANGED <<rowVars, lockVars, budgetVars, eventVars>>
    <3>1. pc[w] \in DeletePoints
      BY <2>2 DEF Deadlocked, DeletePoints
    <3>2. KafkaType' /\ ThreadType'
      BY <2>2, <3>1, DeleteFailsType DEF TypeOK
    <3> QED
      BY <2>2, <3>2 DEF TypeOK, RowType, LockType, EventType,
         rowVars, lockVars, budgetVars, eventVars
  <2> QED
    BY <1>4, <2>1, <2>2 DEF DeadlockVictim
<1> QED
  BY <1>1, <1>2, <1>3, <1>4

\* The replication service keeps the types (bulk_upsert_hosts, bulk_delete_hosts).
LEMMA ReplType ==
  ASSUME TypeOK, NEW h \in Hosts, ReplUpsert(h) \/ ReplLockHost(h) \/ ReplDelete(h)
  PROVE  TypeOK'
<1>1. CASE ReplUpsert(h)
  BY <1>1, PoolAssumption DEF PoolAssumption, ReplUpsert, TypeOK, KafkaType, RowType, LockType, ThreadType,
     EventType, kafkaVars, lockVars, localVars, budgetVars, eventVars
<1>2. CASE ReplLockHost(h)
  BY <1>2 DEF ReplLockHost, TypeOK, KafkaType, RowType, LockType, ThreadType,
     EventType, kafkaVars, rowVars, localVars, eventVars
<1>3. CASE ReplDelete(h)
  BY <1>3 DEF ReplDelete, TypeOK, KafkaType, RowType, LockType, ThreadType,
     EventType, kafkaVars, localVars, budgetVars, eventVars
<1> QED
  BY <1>1, <1>2, <1>3

\* Every step keeps the types.
LEMMA TypeStep ==
  ASSUME TypeOK, [Next]_vars
  PROVE  TypeOK'
<1>1. CASE Consumer
  BY <1>1, ConsumerType
<1>2. ASSUME NEW w \in Workers, Handler(w) PROVE TypeOK'
  BY <1>2, HeadType, HostType, TransactionType, DeleteType, ErrorType DEF Handler
<1>3. ASSUME NEW w \in Workers, Fault(w) PROVE TypeOK'
  BY <1>3, ErrorType, TransactionType DEF Fault
<1>4. ASSUME NEW h \in Hosts, ReplUpsert(h) \/ ReplLockHost(h) \/ ReplDelete(h)
      PROVE  TypeOK'
  BY <1>4, ReplType
<1>5. CASE Stopped \/ UNCHANGED vars
  BY <1>5 DEF Stopped, vars, TypeOK, KafkaType, RowType, LockType, ThreadType,
     EventType, kafkaVars, rowVars, lockVars, localVars, budgetVars, eventVars
<1> QED
  BY <1>1, <1>2, <1>3, <1>4, <1>5 DEF Next

\* Types hold initially and every step of the service or of its environment
\* keeps them.
THEOREM TypeCorrect == Spec => []TypeOK
<1>1. Init => TypeOK
  <2> SUFFICES ASSUME Init PROVE TypeOK
    OBVIOUS
  <2>1. KafkaType
    <3>1. log \in Seq(Message) /\ Len(log) \in Nat
      BY DataAssumption DEF Init, DataAssumption
    <3> QED
      BY <3>1, PoolAssumption DEF Init, PoolAssumption, KafkaType, Outcomes
  <2>2. RowType
    BY DataAssumption DEF Init, RowType, DataAssumption
  <2>3. LockType
    BY DEF Init, LockType
  <2>4. ThreadType
    BY DEF Init, ThreadType, Points
  <2>5. EventType
    BY DEF Init, EventType
  <2> QED
    BY <2>1, <2>2, <2>3, <2>4, <2>5, PoolAssumption DEF Init, TypeOK, PoolAssumption
<1>2. TypeOK /\ [Next]_vars => TypeOK'
  BY TypeStep
<1> QED
  BY <1>1, <1>2, PTL DEF Spec

-----------------------------------------------------------------------------
(***************************************************************************)
(* The bounded executor: every exit of a handler gives its permit back.    *)
(***************************************************************************)

\* Cardinality(Busy) is a number, and moves by one with a thread that starts
\* or ends.
LEMMA BusyCount ==
  /\ IsFiniteSet(Busy) /\ Cardinality(Busy) \in Nat
  /\ \A w \in Workers \ Busy : Cardinality(Busy \union {w}) = Cardinality(Busy) + 1
  /\ \A w \in Busy : Cardinality(Busy \ {w}) = Cardinality(Busy) - 1
<1>1. IsFiniteSet(Busy)
  BY PoolAssumption, FS_Subset DEF PoolAssumption, Busy
<1> QED
  BY <1>1, FS_CardinalityType, FS_AddElement, FS_RemoveElement

Ends(w) == pc[w] # "idle" /\ \E r \in Outcomes \ {"none"} : Finish(w, r)

\* A step of a thread takes a message, ends a handler, or leaves the pool alone.
LEMMA PoolStep ==
  ASSUME TypeOK, NEW w \in Workers, Handler(w) \/ Fault(w)
  PROVE  \/ Take(w)
         \/ Ends(w)
         \/ Busy' = Busy /\ UNCHANGED <<kafkaVars, job, outcome>>
<1> DEFINE Stays == Busy' = Busy /\ UNCHANGED <<kafkaVars, job, outcome>>
<1> USE DEF Outcomes, Ends, kafkaVars
<1>1. ASSUME pc[w] # "idle", NEW p, p # "idle", Goto(w, p), UNCHANGED <<kafkaVars, job, outcome>>
      PROVE  Stays
  BY <1>1 DEF Goto, Busy, TypeOK, ThreadType
<1>2. ASSUME pc[w] \in DeletePoints, DeleteFails(w)  PROVE Ends(w) \/ Stays
  <2>1. pc[w] # "idle" /\ RetryPoint(w) # "idle"
    BY <1>2 DEF DeletePoints, RetryPoint
  <2>2. CASE Retry(w)
    BY <1>1, <2>1, <2>2 DEF Retry
  <2> QED
    BY <1>2, <2>1, <2>2 DEF DeleteFails
<1>3. CASE Reject(w) \/ Ignore(w) \/ Accept(w)
  BY <1>1, <1>3 DEF Reject, Ignore, Accept
<1>4. CASE LookupHost(w) \/ CheckNewOrg(w) \/ CreateAutoacks(w) \/ AutoackConflict(w)
  BY <1>1, <1>4 DEF LookupHost, CheckNewOrg, CreateAutoacks, AutoackConflict
<1>5. CASE SaveHost(w) \/ InsertHost(w) \/ InsertConflict(w)
  BY <1>1, <1>5 DEF SaveHost, InsertHost, InsertConflict
<1>6. CASE \/ LockHost(w) \/ HostVanished(w) \/ GetUpload(w) \/ WriteReports(w)
           \/ HooksFail(w) \/ CommitFails(w)
  BY <1>1, <1>6 DEF LockHost, HostVanished, GetUpload, WriteReports, HooksFail, CommitFails
<1>7. CASE SelectUploads(w) \/ DeleteCascade(w) \/ DeleteUploads(w)
  BY <1>1, <1>7 DEF SelectUploads, DeleteCascade, DeleteUploads
<1>8. CASE UploadsReferenced(w) \/ DeleteReports(w) \/ DeleteHostAcks(w)
  BY <1>1, <1>8 DEF UploadsReferenced, DeleteReports, DeleteHostAcks
<1>9. CASE DeleteError(w) \/ IngestError(w)
  BY <1>2, <1>9 DEF DeleteError, IngestError, IngestPoints
<1>10. CASE SystemTypeError(w)
  <2>1. pc[w] # "idle"
    BY <1>10 DEF SystemTypeError
  <2>2. Finish(w, "lost") \/ UNCHANGED <<kafkaVars, pc, job, outcome>>
    BY <1>10 DEF SystemTypeError
  <2> QED
    BY <2>1, <2>2 DEF Busy
<1>11. CASE DeadlockVictim(w)
  <2>1. \/ pc[w] # "idle" /\ Finish(w, "error")
        \/ pc[w] \in DeletePoints /\ DeleteFails(w)
    BY <1>11 DEF DeadlockVictim, Deadlocked, DeletePoints
  <2> QED
    BY <1>2, <2>1
<1> QED
  BY <1>3, <1>4, <1>5, <1>6, <1>7, <1>8, <1>9, <1>10, <1>11 DEF Handler, Fault

\* The permits are conserved: BoundedExecutor.submit acquires one for every
\* message handed over and the done callback releases it on every exit.
THEOREM PermitsAreConserved == Spec => []PermitsConserved
<1>1. Init => PermitsConserved
  <2> SUFFICES ASSUME Init PROVE PermitsConserved
    OBVIOUS
  <2>1. Busy = {} /\ Len(queue) = 0
    BY DEF Init, Busy
  <2> QED
    BY <2>1, FS_EmptySet, PoolAssumption DEF Init, PermitsConserved, PoolAssumption
<1>2. TypeOK /\ PermitsConserved /\ [Next]_vars => PermitsConserved'
  <2> SUFFICES ASSUME TypeOK, PermitsConserved, [Next]_vars PROVE PermitsConserved'
    OBVIOUS
  <2>0. /\ queue \in Seq(DOMAIN log) /\ Len(queue) \in Nat /\ permits \in Int
        /\ NumWorkers \in Nat
    BY PoolAssumption DEF TypeOK, KafkaType, PoolAssumption
  <2>1. CASE Consumer
    <3>1. Busy' = Busy
      BY <2>1 DEF Consumer, PollMalformed, PollSubmit, Busy
    <3>2. CASE PollMalformed
      BY <3>1, <3>2 DEF PollMalformed, PermitsConserved
    <3>3. CASE PollSubmit
      <4>1. Len(queue') = Len(queue) + 1
        BY <2>0, <3>3 DEF PollSubmit
      <4> QED
        BY <2>0, <3>1, <3>3, <4>1, BusyCount DEF PollSubmit, PermitsConserved
    <3> QED
      BY <2>1, <3>2, <3>3 DEF Consumer
  <2>2. ASSUME NEW w \in Workers, Handler(w) \/ Fault(w) PROVE PermitsConserved'
    <3>1. CASE Take(w)
      <4>1. w \in Workers \ Busy /\ Busy' = Busy \union {w}
        BY <3>1 DEF Take, Goto, Busy, TypeOK, ThreadType
      <4>2. Len(queue') = Len(queue) - 1 /\ permits' = permits
        BY <2>0, <3>1 DEF Take
      <4> QED
        BY <2>0, <4>1, <4>2, BusyCount DEF PermitsConserved
    <3>2. CASE Ends(w)
      <4>1. w \in Busy /\ Busy' = Busy \ {w}
        BY <3>2 DEF Ends, Finish, Busy, TypeOK, ThreadType
      <4>2. queue' = queue /\ permits' = permits + 1
        BY <3>2 DEF Ends, Finish
      <4> QED
        BY <2>0, <4>1, <4>2, BusyCount DEF PermitsConserved
    <3>3. CASE Busy' = Busy /\ UNCHANGED <<kafkaVars, job, outcome>>
      BY <3>3 DEF PermitsConserved, kafkaVars
    <3> QED
      BY <2>2, <3>1, <3>2, <3>3, PoolStep
  <2>3. ASSUME NEW h \in Hosts, ReplUpsert(h) \/ ReplLockHost(h) \/ ReplDelete(h)
        PROVE  PermitsConserved'
    BY <2>3 DEF ReplUpsert, ReplLockHost, ReplDelete, kafkaVars, Busy, PermitsConserved
  <2>4. CASE Stopped \/ UNCHANGED vars
    BY <2>4 DEF Stopped, vars, kafkaVars, Busy, PermitsConserved
  <2> QED
    BY <2>1, <2>2, <2>3, <2>4 DEF Next
<1> QED
  BY <1>1, <1>2, TypeCorrect, PTL DEF Spec

-----------------------------------------------------------------------------
(***************************************************************************)
(* The Host row lock: no report is ever inserted twice.                    *)
(***************************************************************************)

InTransaction == {"upload", "write"}

\* A thread inside create_db_reports' transaction holds the Host row, so that
\* every report the host has by now is among those it read under the lock.
HostLocked ==
  \A w \in Workers : pc[w] \in InTransaction =>
    /\ hostLock[H(w)] = w
    /\ \A r \in reports : r.host = H(w) => r.rule \in RulesIn(snap[w])

\* HostLocked is kept by a step that adds no report and lets every thread that
\* stays in a transaction keep its lock and what it read.
LEMMA LockKept ==
  ASSUME HostLocked, log' = log, reports' \subseteq reports,
         \A v \in Workers : pc'[v] \in InTransaction =>
           /\ pc[v] \in InTransaction /\ job'[v] = job[v] /\ snap'[v] = snap[v]
           /\ hostLock[H(v)] = v => hostLock'[H(v)] = v
  PROVE  HostLocked'
  BY DEF HostLocked, H, M, RulesIn

\* Ending a handler, with or without commit or rollback, frees only its locks.
LEMMA LockFinish ==
  ASSUME TypeOK, HostLocked, NEW w \in Workers, NEW r, Finish(w, r),
         reports' \subseteq reports, hostLock' = hostLock \/ Unlock(w)
  PROVE  HostLocked'
<1>1. \A v \in Workers : pc'[v] \in InTransaction =>
        v # w /\ pc[v] \in InTransaction /\ job'[v] = job[v] /\ snap'[v] = snap[v]
  BY DEF Finish, InTransaction, TypeOK, ThreadType
<1>2. \A v \in Workers : v # w /\ pc[v] \in InTransaction =>
        (hostLock[H(v)] = v => hostLock'[H(v)] = v)
  <2> SUFFICES ASSUME NEW v \in Workers, v # w, pc[v] \in InTransaction, hostLock[H(v)] = v
               PROVE  hostLock'[H(v)] = v
    OBVIOUS
  <2>1. H(v) \in Hosts
    BY JobType DEF TypeOK, InTransaction
  <2> QED
    BY <2>1 DEF Unlock
<1> QED
  BY <1>1, <1>2, LockKept DEF Finish

\* The rows a message writes are of its host; those it updates have a rule it
\* read, those it inserts one it did not, and no two share a rule.
LEMMA WrittenUnique ==
  ASSUME TypeOK, UniqueReports, NEW w \in Workers
  PROVE  /\ \A r \in Updated(w) : \E s \in Updatable(w) : s.host = r.host /\ s.rule = r.rule
         /\ \A r \in Updated(w) : r.host = H(w) /\ r.rule \in RulesIn(snap[w])
         /\ \A r \in Inserted(w) : r.host = H(w) /\ r.rule \notin RulesIn(snap[w])
         /\ \A r, s \in Updated(w) : r.rule = s.rule => r = s
         /\ \A r, s \in Inserted(w) : r.rule = s.rule => r = s
<1> DEFINE Up(r) == [r EXCEPT !.upload = upl[w], !.msg = job[w], !.since = Since(w, r.rule)]
<1>1. \A r \in Updatable(w) : /\ r \in reports /\ r \in ReportRow /\ r.host = H(w)
                              /\ r.rule \in RulesIn(snap[w])
  BY DEF Updatable, ReportsOf, TypeOK, RowType
<1>2. \A r \in Updatable(w) : Up(r).host = r.host /\ Up(r).rule = r.rule
  BY <1>1 DEF ReportRow
<1>3. Updated(w) = {Up(r) : r \in Updatable(w)}
  BY DEF Updated
<1> HIDE DEF Up
<1>4. \A r, s \in Updatable(w) : r.rule = s.rule => r = s
  BY <1>1 DEF UniqueReports
<1>5. \A r, s \in Updated(w) : r.rule = s.rule => r = s
  BY <1>2, <1>3, <1>4
<1>6. \A r \in Inserted(w) : r.host = H(w) /\ r.rule \notin RulesIn(snap[w])
  BY DEF Inserted
<1>7. \A r, s \in Inserted(w) : r.rule = s.rule => r = s
  BY DEF Inserted
<1> QED
  BY <1>1, <1>2, <1>3, <1>5, <1>6, <1>7

\* The write of one thread is invisible to the others in a transaction, and
\* keeps the reports unique (CurrentReport's unique constraint).
LEMMA WriteKeeps ==
  ASSUME TypeOK, HostLocked, UniqueReports, NEW w \in Workers,
         pc[w] = "write", StoreReports(w), Unlock(w), Finish(w, "success")
  PROVE  HostLocked' /\ UniqueReports'
<1>0. pc[w] \in InTransaction /\ hostLock[H(w)] = w
  BY DEF InTransaction, HostLocked
<1>1. /\ \A r \in reports' : \/ r \in reports /\ r \notin Updatable(w)
                             \/ r \in Updated(w) \/ r \in Inserted(w)
      /\ log' = log
  BY DEF StoreReports, Finish
<1>2. HostLocked'
  <2> SUFFICES ASSUME NEW v \in Workers, pc'[v] \in InTransaction
               PROVE  /\ hostLock'[H(v)'] = v
                      /\ \A r \in reports' : r.host = H(v)' => r.rule \in RulesIn(snap'[v])
    BY DEF HostLocked, RulesIn
  <2>1. v # w /\ pc[v] \in InTransaction /\ job'[v] = job[v] /\ snap'[v] = snap[v]
    BY DEF Finish, InTransaction, TypeOK, ThreadType
  <2>2. H(v)' = H(v) /\ H(v) \in Hosts
    BY <1>1, <2>1, JobType DEF H, M, TypeOK, InTransaction
  <2>3. hostLock[H(v)] = v /\ H(v) # H(w)
    BY <1>0, <2>1 DEF HostLocked
  <2>4. hostLock'[H(v)] = v
    BY <2>1, <2>2, <2>3 DEF Unlock
  <2>5. \A r \in reports' : r.host = H(v) => r \in reports
    BY <1>1, <2>3, WrittenUnique
  <2> QED
    BY <2>1, <2>2, <2>4, <2>5 DEF HostLocked
<1>3. UniqueReports'
  <2> SUFFICES ASSUME NEW r \in reports', NEW s \in reports', r.host = s.host, r.rule = s.rule
               PROVE  r = s
    BY DEF UniqueReports
  <2>1. ASSUME NEW x \in reports, x.host = H(w)  PROVE x.rule \in RulesIn(snap[w])
    BY <1>0, <2>1 DEF HostLocked
  <2>2. ASSUME NEW x \in reports, x \notin Updatable(w), NEW y \in Updated(w)
        PROVE  ~(x.host = y.host /\ x.rule = y.rule)
    <3>1. PICK z \in Updatable(w) : z.host = y.host /\ z.rule = y.rule
      BY WrittenUnique
    <3>2. z \in reports
      BY DEF Updatable, ReportsOf
    <3> QED
      BY <2>2, <3>1, <3>2 DEF UniqueReports
  <2>3. ASSUME NEW x \in reports, NEW y \in Inserted(w)
        PROVE  ~(x.host = y.host /\ x.rule = y.rule)
    BY <2>1, <2>3, WrittenUnique
  <2>4. CASE r \in reports /\ r \notin Updatable(w)
    <3>1. s \in reports
      BY <1>1, <2>2, <2>3, <2>4
    <3> QED
      BY <2>4, <3>1 DEF UniqueReports
  <2>5. CASE s \in reports /\ s \notin Updatable(w)
    <3>1. r \in reports
      BY <1>1, <2>2, <2>3, <2>5
    <3> QED
      BY <2>5, <3>1 DEF UniqueReports
  <2>6. CASE r \in Updated(w) \union Inserted(w) /\ s \in Updated(w) \union Inserted(w)
    BY <2>6, WrittenUnique
  <2> QED
    BY <1>1, <2>4, <2>5, <2>6
<1> QED
  BY <1>2, <1>3

\* Taking the lock: nobody else is in a transaction of this host, and the
\* reports read are all there are.
LEMMA LockStep ==
  ASSUME TypeOK, HostLocked, NoOne \notin Workers, NEW w \in Workers, LockHost(w)
  PROVE  HostLocked'
<1> SUFFICES ASSUME NEW v \in Workers, pc'[v] \in InTransaction
             PROVE  /\ hostLock'[H(v)'] = v
                    /\ \A r \in reports' : r.host = H(v)' => r.rule \in RulesIn(snap'[v])
  BY DEF HostLocked, RulesIn
<1>1. log' = log /\ job' = job /\ reports' = reports /\ H(v)' = H(v) /\ H(w) \in Hosts
  BY JobType DEF LockHost, kafkaVars, rowVars, H, M, TypeOK
<1>2. CASE v = w
  <2>1. hostLock'[H(w)] = w
    BY <1>1 DEF LockHost, TypeOK, LockType
  <2>2. snap'[w] = ReportsOf(H(w))
    BY DEF LockHost, TypeOK, ThreadType
  <2> QED
    BY <1>1, <1>2, <2>1, <2>2 DEF RulesIn, ReportsOf
<1>3. CASE v # w
  <2>1. pc[v] \in InTransaction /\ snap'[v] = snap[v]
    BY <1>3 DEF LockHost, Goto, TypeOK, ThreadType
  <2>2. hostLock[H(v)] = v /\ H(v) # H(w) /\ H(v) \in Hosts
    BY <2>1, JobType DEF HostLocked, LockHost, TypeOK, InTransaction
  <2> QED
    BY <1>1, <2>1, <2>2 DEF HostLocked, LockHost
<1> QED
  BY <1>2, <1>3

\* Every other step of a thread keeps its lock and adds no report, or ends it.
LEMMA HandlerKeeps ==
  ASSUME TypeOK, HostLocked, UniqueReports, NEW w \in Workers, Handler(w) \/ Fault(w)
  PROVE  HostLocked' /\ UniqueReports'
<1>0. NoOne \notin Workers
  BY HolderAssumption DEF HolderAssumption
<1>1. ASSUME reports' \subseteq reports  PROVE UniqueReports'
  BY <1>1 DEF UniqueReports
<1>2. ASSUME NEW p, Goto(w, p) \/ pc' = pc, p \in InTransaction => pc[w] \in InTransaction,
             UNCHANGED <<log, hostLock>>, reports' \subseteq reports,
             \A v \in Workers : pc'[v] \in InTransaction =>
                                  job'[v] = job[v] /\ snap'[v] = snap[v]
      PROVE  HostLocked' /\ UniqueReports'
  <2>1. \A v \in Workers : pc'[v] \in InTransaction => pc[v] \in InTransaction
    BY <1>2 DEF Goto, TypeOK, ThreadType
  <2> QED
    BY <1>1, <1>2, <2>1, LockKept
<1>3. ASSUME NEW r, Finish(w, r), hostLock' = hostLock \/ Unlock(w), reports' \subseteq reports
      PROVE  HostLocked' /\ UniqueReports'
  BY <1>1, <1>3, LockFinish
<1>4. ASSUME DeleteFails(w), UNCHANGED <<rowVars, lockVars>>
      PROVE  HostLocked' /\ UniqueReports'
  <2>1. CASE Retry(w)
    <3>1. RetryPoint(w) \in InTransaction => pc[w] \in InTransaction
      BY DEF RetryPoint, InTransaction
    <3> QED
      BY <1>2, <1>4, <2>1, <3>1 DEF Retry, kafkaVars, rowVars, lockVars
  <2>2. CASE Finish(w, "error")
    BY <1>3, <1>4, <2>2 DEF rowVars, lockVars
  <2> QED
    BY <1>4, <2>1, <2>2 DEF DeleteFails
<1> USE DEF InTransaction, kafkaVars, rowVars, lockVars, localVars
<1>5. CASE Take(w)
  <2>1. \A v \in Workers : pc'[v] \in InTransaction =>
           /\ pc[v] \in InTransaction /\ job'[v] = job[v] /\ snap'[v] = snap[v]
    BY <1>5 DEF Take, Goto, TypeOK, ThreadType
  <2> QED
    BY <1>1, <1>5, <2>1, LockKept DEF Take
<1>6. CASE Accept(w) \/ LookupHost(w) \/ CheckNewOrg(w) \/ CreateAutoacks(w)
  BY <1>2, <1>6 DEF Accept, LookupHost, CheckNewOrg, CreateAutoacks
<1>7. CASE SaveHost(w) \/ InsertHost(w) \/ GetUpload(w)
  <2>1. CASE SaveHost(w) \/ InsertHost(w)
    BY <1>2, <2>1 DEF SaveHost, InsertHost
  <2>2. CASE GetUpload(w)
    BY <1>2, <2>2 DEF GetUpload
  <2> QED
    BY <1>7, <2>1, <2>2
<1>8. CASE Reject(w) \/ Ignore(w) \/ AutoackConflict(w) \/ InsertConflict(w) \/ HostVanished(w)
  BY <1>3, <1>8 DEF Reject, Ignore, AutoackConflict, InsertConflict, HostVanished
<1>9. CASE LockHost(w)
  BY <1>0, <1>1, <1>9, LockStep DEF LockHost
<1>10. CASE WriteReports(w)
  BY <1>10, WriteKeeps DEF WriteReports
<1>11. CASE CommitFails(w) \/ IngestError(w)
  BY <1>3, <1>11 DEF CommitFails, IngestError
<1>12. CASE SelectUploads(w) \/ DeleteCascade(w) \/ DeleteUploads(w) \/ DeleteReports(w)
  <2>1. CASE SelectUploads(w) \/ DeleteCascade(w)
    BY <1>2, <2>1 DEF SelectUploads, DeleteCascade
  <2>2. CASE DeleteUploads(w) \/ DeleteReports(w)
    <3>1. reports' \subseteq reports
      BY <2>2 DEF DeleteUploads, DeleteReports
    <3> QED
      BY <1>2, <2>2, <3>1 DEF DeleteUploads, DeleteReports
  <2> QED
    BY <1>12, <2>1, <2>2
<1>13. CASE UploadsReferenced(w) \/ DeleteHostAcks(w)
  BY <1>3, <1>13 DEF UploadsReferenced, DeleteHostAcks
<1>14. CASE DeleteError(w)
  BY <1>4, <1>14 DEF DeleteError
<1>15. CASE SystemTypeError(w)
  <2>1. Finish(w, "lost") \/ UNCHANGED <<kafkaVars, pc, job, localVars>>
    BY <1>15 DEF SystemTypeError
  <2>2. CASE UNCHANGED <<kafkaVars, pc, job, localVars>>
    BY <1>1, <1>15, <2>2, LockKept DEF SystemTypeError
  <2> QED
    BY <1>3, <1>15, <2>1, <2>2 DEF SystemTypeError
<1>16. CASE DeadlockVictim(w)
  <2>1. \/ /\ Unlock(w) /\ Finish(w, "error") /\ UNCHANGED rowVars
        \/ /\ DeleteFails(w) /\ UNCHANGED <<rowVars, lockVars>>
    BY <1>16 DEF DeadlockVictim
  <2> QED
    BY <1>3, <1>4, <2>1
<1>17. CASE HooksFail(w)
  <2>1. CASE StoreReports(w)
    BY <1>17, <2>1, WriteKeeps DEF HooksFail
  <2>2. CASE UNCHANGED <<reports, uploads, commits>>
    BY <1>3, <1>17, <2>2 DEF HooksFail
  <2> QED
    BY <1>17, <2>1, <2>2 DEF HooksFail
<1> QED
  BY <1>5, <1>6, <1>7, <1>8, <1>9, <1>10, <1>11, <1>12, <1>13, <1>14, <1>15, <1>16, <1>17
  DEF Handler, Fault

\* The two together are inductive.
LEMMA LocksHold == Spec => [](HostLocked /\ UniqueReports)
<1>1. Init => HostLocked /\ UniqueReports
  BY DEF Init, HostLocked, UniqueReports, InTransaction
<1>2. TypeOK /\ HostLocked /\ UniqueReports /\ [Next]_vars => (HostLocked /\ UniqueReports)'
  <2> SUFFICES ASSUME TypeOK, HostLocked, UniqueReports, [Next]_vars
               PROVE  HostLocked' /\ UniqueReports'
    OBVIOUS
  <2>0. Repl \notin Workers
    BY HolderAssumption DEF HolderAssumption
  <2>1. ASSUME NEW w \in Workers, Handler(w) \/ Fault(w)
        PROVE  HostLocked' /\ UniqueReports'
    BY <2>1, HandlerKeeps
  <2>2. CASE Consumer \/ Stopped \/ UNCHANGED vars
    <3>1. UNCHANGED <<log, reports, pc, job, snap, hostLock>>
      BY <2>2 DEF Consumer, PollMalformed, PollSubmit, Stopped, vars, kafkaVars, rowVars,
         lockVars, localVars
    <3> QED
      BY <3>1, LockKept DEF UniqueReports
  <2>3. ASSUME NEW h \in Hosts, ReplUpsert(h) \/ ReplLockHost(h) \/ ReplDelete(h)
        PROVE  HostLocked' /\ UniqueReports'
    <3>1. UNCHANGED <<log, pc, job, snap>> /\ reports' \subseteq reports
      BY <2>3 DEF ReplUpsert, ReplLockHost, ReplDelete, kafkaVars, rowVars, localVars
    <3>2. \A g \in Hosts : hostLock[g] \in Workers => hostLock'[g] = hostLock[g]
      BY <2>0, <2>3, HolderAssumption DEF ReplUpsert, ReplLockHost, ReplDelete, lockVars,
         TypeOK, LockType, HolderAssumption
    <3>3. \A v \in Workers : pc[v] \in InTransaction => H(v) \in Hosts
      BY JobType DEF TypeOK, InTransaction
    <3> QED
      BY <3>1, <3>2, <3>3, LockKept DEF UniqueReports
  <2> QED
    BY <2>1, <2>2, <2>3 DEF Next
<1> QED
  BY <1>1, <1>2, TypeCorrect, PTL DEF Spec

\* No host ever has two reports of one rule, whatever uploads, deletions,
\* errors and replication interleave: the Host row lock is enough.
THEOREM ReportsAreUnique == Spec => []UniqueReports
  BY LocksHold, PTL

-----------------------------------------------------------------------------
(***************************************************************************)
(* A delete event: what its three statements leave.                        *)
(***************************************************************************)

\* While no upload for the host has committed since a delete began, the
\* uploads it selected are all there are, and what it deleted stays deleted.
Erasing ==
  \A w \in Workers : pc[w] \in DeletePoints =>
    /\ mark[w] <= commits[H(w)]
    /\ mark[w] = commits[H(w)] =>
         /\ pc[w] \in {"delCascade", "delUploads"} => \A u \in uploads : u.host = H(w) => u.id \in ids[w]
         /\ pc[w] \in {"delReports", "delAcks"} => \A u \in uploads : u.host # H(w)
         /\ pc[w] = "delAcks" => \A r \in reports : r.host # H(w)

\* A step adds uploads and reports to hosts for which it counts a commit only.
CommitsCounted ==
  \A h \in Hosts : \/ commits'[h] = commits[h] + 1
                   \/ /\ commits'[h] = commits[h]
                      /\ \A u \in uploads' : u.host = h => u \in uploads
                      /\ \A r \in reports' : r.host = h => r \in reports

\* Erasing is kept by a step that starts no delete and moves none forward.
LEMMA ErasingKept ==
  ASSUME TypeOK, Erasing, log' = log, CommitsCounted,
         \A v \in Workers : pc'[v] \in DeletePoints =>
           /\ pc[v] \in DeletePoints /\ job'[v] = job[v] /\ mark'[v] = mark[v]
           /\ \/ pc'[v] = "delSelect"
              \/ pc'[v] = pc[v] /\ (ids'[v] = ids[v] \/ pc[v] \in {"delReports", "delAcks"})
  PROVE  Erasing'
<1> SUFFICES ASSUME NEW w \in Workers, pc'[w] \in DeletePoints
             PROVE  /\ mark'[w] <= commits'[H(w)]
                    /\ mark'[w] = commits'[H(w)] =>
                         /\ pc'[w] \in {"delCascade", "delUploads"} =>
                              \A u \in uploads' : u.host = H(w) => u.id \in ids'[w]
                         /\ pc'[w] \in {"delReports", "delAcks"} => \A u \in uploads' : u.host # H(w)
                         /\ pc'[w] = "delAcks" => \A r \in reports' : r.host # H(w)
                    /\ H(w)' = H(w)
  BY DEF Erasing
<1>1. pc[w] \in DeletePoints /\ job'[w] = job[w] /\ mark'[w] = mark[w] /\ H(w)' = H(w)
  BY DEF H, M
<1>2. H(w) \in Hosts /\ mark[w] \in Nat
  BY <1>1, JobType DEF TypeOK, ThreadType, DeletePoints
<1>3. commits[H(w)] \in Nat
  BY <1>2 DEF TypeOK, EventType
<1>4. mark[w] <= commits[H(w)]
  BY <1>1 DEF Erasing
<1>5. CASE commits'[H(w)] = commits[H(w)] + 1
  BY <1>1, <1>2, <1>3, <1>4, <1>5
<1>6. CASE /\ commits'[H(w)] = commits[H(w)]
           /\ \A u \in uploads' : u.host = H(w) => u \in uploads
           /\ \A r \in reports' : r.host = H(w) => r \in reports
  <2>1. CASE pc'[w] = "delSelect"
    BY <1>1, <1>4, <1>6, <2>1
  <2>2. CASE pc'[w] = pc[w] /\ (ids'[w] = ids[w] \/ pc[w] \in {"delReports", "delAcks"})
    BY <1>1, <1>4, <1>6, <2>2 DEF Erasing
  <2> QED
    BY <2>1, <2>2
<1> QED
  BY <1>2, <1>5, <1>6 DEF CommitsCounted

\* Who writes reports counts a commit for their host.
LEMMA StoreCounts ==
  ASSUME TypeOK, NEW w \in Workers, pc[w] # "idle", StoreReports(w)
  PROVE  CommitsCounted
<1>1. H(w) \in Hosts
  BY JobType DEF TypeOK
<1>2. \A r \in Updated(w) \union Inserted(w) : r.host = H(w)
  <2>1. \A r \in Updatable(w) : r.host = H(w) /\ r \in ReportRow
    BY DEF Updatable, ReportsOf, TypeOK, RowType
  <2>2. \A r \in Updated(w) : r.host = H(w)
    BY <2>1 DEF Updated, ReportRow
  <2> QED
    BY <2>2 DEF Inserted
<1>3. \A h \in Hosts : commits'[h] = IF h = H(w) THEN commits[h] + 1 ELSE commits[h]
  BY <1>1 DEF StoreReports, TypeOK, EventType
<1>4. \A r \in reports' : r.host # H(w) => r \in reports
  BY <1>2 DEF StoreReports
<1>5. \A u \in uploads' : u.host # H(w) => u \in uploads
  BY DEF StoreReports
<1> QED
  BY <1>3, <1>4, <1>5 DEF CommitsCounted

\* Ending a handler, and trying a delete again.
LEMMA ErasingFinish ==
  ASSUME TypeOK, Erasing, CommitsCounted, NEW w \in Workers, NEW r, Finish(w, r)
  PROVE  Erasing'
<1>1. \A v \in Workers : pc'[v] \in DeletePoints =>
        /\ pc[v] \in DeletePoints /\ job'[v] = job[v] /\ mark'[v] = mark[v]
        /\ pc'[v] = pc[v] /\ ids'[v] = ids[v]
  BY DEF Finish, DeletePoints, TypeOK, ThreadType
<1> QED
  BY <1>1, ErasingKept DEF Finish

LEMMA ErasingRetry ==
  ASSUME TypeOK, Erasing, CommitsCounted, NEW w \in Workers, Retry(w), pc[w] \in DeletePoints
  PROVE  Erasing'
<1>1. \A v \in Workers : pc'[v] = IF v = w THEN RetryPoint(w) ELSE pc[v]
  BY DEF Retry, Goto, TypeOK, ThreadType
<1>2. \A v \in Workers : v # w => ids'[v] = ids[v]
  BY DEF Retry, TypeOK, ThreadType
<1>3. RetryPoint(w) \in {"delSelect", "delReports", "delAcks"} /\ (RetryPoint(w) # "delSelect" => RetryPoint(w) = pc[w])
  BY DEF RetryPoint, DeletePoints
<1> QED
  BY <1>1, <1>2, <1>3, ErasingKept DEF Retry, kafkaVars

\* The statements of a delete, each of which leaves what the next relies on.
LEMMA DeleteErasing ==
  ASSUME TypeOK, Erasing, NEW w \in Workers,
         SelectUploads(w) \/ DeleteCascade(w) \/ DeleteUploads(w) \/ DeleteReports(w)
  PROVE  Erasing'
<1>1. /\ UNCHANGED <<log, job, mark, commits>>
      /\ uploads' \subseteq uploads /\ reports' \subseteq reports
      /\ pc[w] \in {"delSelect", "delCascade", "delUploads", "delReports"}
      /\ \A v \in Workers : v # w => pc'[v] = pc[v] /\ ids'[v] = ids[v]
  BY DEF SelectUploads, DeleteCascade, DeleteUploads, DeleteReports, Goto, kafkaVars, rowVars, localVars, eventVars,
         TypeOK, ThreadType
<1>2. \A v \in Workers : H(v)' = H(v)
  BY <1>1 DEF H, M
<1>3. /\ pc[w] \in DeletePoints
      /\ mark[w] <= commits[H(w)]
      /\ mark[w] = commits[H(w)] =>
           /\ pc'[w] \in {"delCascade", "delUploads"} => \A u \in uploads' : u.host = H(w) => u.id \in ids'[w]
           /\ pc'[w] \in {"delReports", "delAcks"} => \A u \in uploads' : u.host # H(w)
           /\ pc'[w] = "delAcks" => \A r \in reports' : r.host # H(w)
  <2>1. pc[w] \in DeletePoints
    BY <1>1 DEF DeletePoints
  <2>2. CASE SelectUploads(w)
    <3>1. pc'[w] = "delCascade" /\ ids'[w] = {u.id : u \in {v \in uploads : v.host = H(w)}} /\ uploads' = uploads
      BY <2>2 DEF SelectUploads, Goto, rowVars, TypeOK, ThreadType
    <3> QED
      BY <2>1, <3>1 DEF Erasing
  <2>3. CASE DeleteCascade(w)
    <3>1. pc[w] = "delCascade" /\ pc'[w] = "delUploads" /\ ids' = ids /\ uploads' = uploads
      BY <2>3 DEF DeleteCascade, Goto, rowVars, TypeOK, ThreadType
    <3> QED
      BY <2>1, <3>1 DEF Erasing
  <2>4. CASE DeleteUploads(w)
    <3>1. pc[w] = "delUploads" /\ pc'[w] = "delReports" /\ uploads' = {u \in uploads : u.id \notin ids[w]}
      BY <2>4 DEF DeleteUploads, Goto, TypeOK, ThreadType
    <3> QED
      BY <2>1, <3>1 DEF Erasing
  <2>5. CASE DeleteReports(w)
    <3>1. pc[w] = "delReports" /\ pc'[w] = "delAcks" /\ uploads' = uploads /\ reports' = reports \ ReportsOf(H(w))
      BY <2>5 DEF DeleteReports, Goto, TypeOK, ThreadType
    <3> QED
      BY <2>1, <3>1 DEF Erasing, ReportsOf
  <2> QED
    BY <2>1, <2>2, <2>3, <2>4, <2>5
<1>4. ASSUME NEW v \in Workers, pc'[v] \in DeletePoints
      PROVE  /\ mark[v] <= commits[H(v)]
             /\ mark[v] = commits[H(v)] =>
                  /\ pc'[v] \in {"delCascade", "delUploads"} => \A u \in uploads' : u.host = H(v) => u.id \in ids'[v]
                  /\ pc'[v] \in {"delReports", "delAcks"} => \A u \in uploads' : u.host # H(v)
                  /\ pc'[v] = "delAcks" => \A r \in reports' : r.host # H(v)
  <2>1. CASE v = w
    BY <1>3, <2>1
  <2>2. CASE v # w
    <3>1. pc'[v] = pc[v] /\ ids'[v] = ids[v]
      BY <1>1, <2>2
    <3> QED
      BY <1>1, <1>4, <3>1 DEF Erasing
  <2> QED
    BY <2>1, <2>2
<1> QED
  BY <1>1, <1>2, <1>4 DEF Erasing

\* Every step of a thread.
LEMMA ErasingHandler ==
  ASSUME TypeOK, Erasing, NEW w \in Workers, Handler(w) \/ Fault(w)
  PROVE  Erasing'
<1> USE DEF kafkaVars, rowVars, lockVars, localVars, eventVars
<1>1. ASSUME UNCHANGED <<uploads, reports, commits>> PROVE CommitsCounted
  BY <1>1 DEF CommitsCounted
<1>2. ASSUME NEW p, p \notin DeletePoints, Goto(w, p), UNCHANGED <<log, uploads, reports, commits, ids, mark>>,
             \A v \in Workers : v # w => job'[v] = job[v]
      PROVE  Erasing'
  <2>1. \A v \in Workers : pc'[v] \in DeletePoints => v # w /\ pc'[v] = pc[v]
    BY <1>2 DEF Goto, TypeOK, ThreadType
  <2> QED
    BY <1>1, <1>2, <2>1, ErasingKept
<1>3. ASSUME NEW r, Finish(w, r), UNCHANGED <<uploads, reports, commits>> PROVE Erasing'
  BY <1>1, <1>3, ErasingFinish
<1>4. ASSUME DeleteFails(w), pc[w] \in DeletePoints, UNCHANGED <<rowVars, commits>> PROVE Erasing'
  BY <1>1, <1>4, ErasingFinish, ErasingRetry DEF DeleteFails
<1>5. CASE Take(w)
  <2>1. Goto(w, "check") /\ UNCHANGED <<log, uploads, reports, commits, ids, mark>>
    BY <1>5 DEF Take
  <2>2. \A v \in Workers : v # w => job'[v] = job[v]
    BY <1>5 DEF Take, TypeOK, ThreadType
  <2> QED
    BY <1>2, <2>1, <2>2 DEF DeletePoints
<1>6. CASE Accept(w)
  <2>1. /\ \A v \in Workers : v # w => pc'[v] = pc[v] /\ mark'[v] = mark[v]
        /\ pc'[w] \in {"lookup", "delSelect"} /\ mark'[w] = commits[H(w)]
        /\ UNCHANGED <<log, uploads, reports, job, ids, commits>>
    BY <1>6 DEF Accept, Goto, TypeOK, ThreadType
  <2>2. \A v \in Workers : H(v)' = H(v)
    BY <2>1 DEF H, M
  <2>3. commits[H(w)] \in Nat
    BY <1>6, JobType DEF Accept, TypeOK, EventType
  <2> QED
    BY <2>1, <2>2, <2>3 DEF Erasing, DeletePoints
<1>7. CASE LookupHost(w) \/ CheckNewOrg(w) \/ CreateAutoacks(w) \/ SaveHost(w) \/ InsertHost(w) \/ LockHost(w) \/ GetUpload(w)
  BY <1>2, <1>7 DEF LookupHost, CheckNewOrg, CreateAutoacks, SaveHost, InsertHost, LockHost, GetUpload, DeletePoints
<1>8. CASE Reject(w) \/ Ignore(w) \/ AutoackConflict(w) \/ InsertConflict(w) \/ HostVanished(w)
           \/ UploadsReferenced(w) \/ DeleteHostAcks(w) \/ CommitFails(w) \/ IngestError(w)
  BY <1>3, <1>8 DEF Reject, Ignore, AutoackConflict, InsertConflict, HostVanished, UploadsReferenced, DeleteHostAcks,
                    CommitFails, IngestError
<1>9. CASE WriteReports(w) \/ HooksFail(w)
  <2>1. pc[w] # "idle" /\ Finish(w, "success")
    BY <1>9 DEF WriteReports, HooksFail
  <2>2. CommitsCounted
    BY <1>1, <1>9, <2>1, StoreCounts DEF WriteReports, HooksFail
  <2> QED
    BY <2>1, <2>2, ErasingFinish
<1>10. CASE SelectUploads(w) \/ DeleteCascade(w) \/ DeleteUploads(w) \/ DeleteReports(w)
  BY <1>10, DeleteErasing
<1>11. CASE DeleteError(w)
  BY <1>4, <1>11 DEF DeleteError
<1>12. CASE SystemTypeError(w)
  <2>0. UNCHANGED <<uploads, reports, commits>>
    BY <1>12 DEF SystemTypeError
  <2>1. CASE UNCHANGED <<kafkaVars, pc, job, localVars>>
    <3>1. UNCHANGED <<log, pc, job, ids, mark>>
      BY <2>1
    <3> QED
      BY <1>1, <2>0, <3>1, ErasingKept
  <2>2. CASE Finish(w, "lost")
    BY <1>3, <2>0, <2>2
  <2> QED
    BY <1>12, <2>1, <2>2 DEF SystemTypeError
<1>13. CASE DeadlockVictim(w)
  <2>1. CASE Finish(w, "error") /\ UNCHANGED <<rowVars, commits>>
    BY <1>3, <2>1
  <2>2. CASE DeleteFails(w) /\ pc[w] \in DeletePoints /\ UNCHANGED <<rowVars, commits>>
    BY <1>4, <2>2
  <2> QED
    BY <1>13, <2>1, <2>2 DEF DeadlockVictim, Deadlocked, DeletePoints
<1> QED
  BY <1>5, <1>6, <1>7, <1>8, <1>9, <1>10, <1>11, <1>12, <1>13 DEF Handler, Fault

LEMMA ErasingHolds == Spec => []Erasing
<1>1. Init => Erasing
  BY DEF Init, Erasing, DeletePoints
<1>2. TypeOK /\ Erasing /\ [Next]_vars => Erasing'
  <2> SUFFICES ASSUME TypeOK, Erasing, [Next]_vars PROVE Erasing'
    OBVIOUS
  <2>1. ASSUME NEW w \in Workers, Handler(w) \/ Fault(w) PROVE Erasing'
    BY <2>1, ErasingHandler
  <2>2. CASE \/ Consumer \/ Stopped \/ UNCHANGED vars
             \/ \E h \in Hosts : ReplUpsert(h) \/ ReplLockHost(h) \/ ReplDelete(h)
    <3>1. UNCHANGED <<log, pc, job, ids, mark, commits>> /\ uploads' \subseteq uploads /\ reports' \subseteq reports
      BY <2>2 DEF Consumer, PollMalformed, PollSubmit, Stopped, vars, ReplUpsert, ReplLockHost, ReplDelete,
                  kafkaVars, rowVars, lockVars, localVars, eventVars
    <3>2. CommitsCounted
      BY <3>1 DEF CommitsCounted
    <3> QED
      BY <3>1, <3>2, ErasingKept
  <2> QED
    BY <2>1, <2>2 DEF Next
<1> QED
  BY <1>1, <1>2, TypeCorrect, PTL DEF Spec

\* A handler of a delete that ends as a success has made its last statement.
LEMMA SuccessIsLast ==
  ASSUME TypeOK, [Next]_vars, NEW w \in Workers,
         pc[w] \in DeletePoints, pc'[w] = "idle", outcome'[job[w]] = "success"
  PROVE  DeleteHostAcks(w)
<1>0. job[w] \in DOMAIN outcome /\ pc[w] \in Points
  BY JobType DEF TypeOK, KafkaType, ThreadType, DeletePoints
<1>1. ASSUME NEW r, r # "success", Finish(w, r) PROVE FALSE
  BY <1>0, <1>1 DEF Finish
<1>2. ASSUME NEW p, p # "idle", Goto(w, p) PROVE FALSE
  BY <1>2 DEF Goto, TypeOK, ThreadType
<1>3. ~ DeleteFails(w)
  <2>1. RetryPoint(w) # "idle"
    BY DEF RetryPoint, DeletePoints
  <2> QED
    BY <1>1, <1>2, <2>1 DEF DeleteFails, Retry
<1>4. ~ UNCHANGED pc
  BY DEF DeletePoints
<1>5. ASSUME NEW v \in Workers, Handler(v) \/ Fault(v) PROVE v = w
  <2>1. \A r : Finish(v, r) => v = w
    BY DEF Finish, DeletePoints, TypeOK, ThreadType
  <2>2. \A p : Goto(v, p) => v = w
    BY DEF Goto, DeletePoints, TypeOK, ThreadType
  <2>3. DeleteFails(v) => v = w
    BY <2>1, <2>2 DEF DeleteFails, Retry
  <2> QED
    BY <1>4, <1>5, <2>1, <2>2, <2>3
       DEF Handler, Fault, Take, Reject, Ignore, Accept, LookupHost, CheckNewOrg, CreateAutoacks, AutoackConflict, SaveHost,
           InsertHost, InsertConflict, LockHost, HostVanished, GetUpload, WriteReports, SelectUploads, DeleteCascade,
           DeleteUploads, UploadsReferenced, DeleteReports, DeleteHostAcks, DeadlockVictim, DeleteError, IngestError,
           SystemTypeError, HooksFail, CommitFails
<1>6. Handler(w) \/ Fault(w)
  <2>1. CASE Consumer \/ Stopped \/ UNCHANGED vars \/ \E h \in Hosts : ReplUpsert(h) \/ ReplLockHost(h) \/ ReplDelete(h)
    BY <1>4, <2>1 DEF Consumer, PollMalformed, PollSubmit, Stopped, vars, ReplUpsert, ReplLockHost, ReplDelete
  <2> QED
    BY <1>5, <2>1 DEF Next
<1>7. CASE Handler(w)
  <2>1. ~ (SelectUploads(w) \/ DeleteCascade(w) \/ DeleteUploads(w) \/ DeleteReports(w))
    BY <1>2 DEF SelectUploads, DeleteCascade, DeleteUploads, DeleteReports
  <2>2. ~ UploadsReferenced(w)
    BY <1>1 DEF UploadsReferenced
  <2>3. ~ DeadlockVictim(w)
    BY <1>1, <1>3 DEF DeadlockVictim
  <2> QED
    BY <1>7, <2>1, <2>2, <2>3
       DEF Handler, DeletePoints, Take, Reject, Ignore, Accept, LookupHost, CheckNewOrg, CreateAutoacks, AutoackConflict,
           SaveHost, InsertHost, InsertConflict, LockHost, HostVanished, GetUpload, WriteReports
<1>8. CASE Fault(w)
  BY <1>3, <1>8 DEF Fault, DeletePoints, IngestPoints, DeleteError, IngestError, SystemTypeError, HooksFail, CommitFails
<1> QED
  BY <1>6, <1>7, <1>8

\* A delete event that is reported a success has left nothing of its host, for
\* any number of threads, of errors it retried after and of other deletes,
\* unless an upload of the host committed in between (handle_inventory_event).
THEOREM DeletesErase == Spec => DeleteErases
<1>1. TypeOK /\ Erasing /\ [Next]_vars =>
        [\A w \in Workers :
           (/\ pc[w] \in DeletePoints /\ pc'[w] = "idle"
            /\ outcome'[job[w]] = "success" /\ commits[H(w)] = mark[w])
           => /\ \A u \in uploads' : u.host # H(w)
              /\ \A r \in reports' : r.host # H(w)
              /\ hostAcks'[H(w)] = {}]_vars
  <2> SUFFICES ASSUME TypeOK, Erasing, [Next]_vars, NEW w \in Workers,
                      pc[w] \in DeletePoints, pc'[w] = "idle",
                      outcome'[job[w]] = "success", commits[H(w)] = mark[w]
               PROVE  /\ \A u \in uploads' : u.host # H(w)
                      /\ \A r \in reports' : r.host # H(w)
                      /\ hostAcks'[H(w)] = {}
    OBVIOUS
  <2>1. DeleteHostAcks(w)
    BY SuccessIsLast
  <2>2. pc[w] = "delAcks" /\ UNCHANGED <<uploads, reports>> /\ hostAcks' = [hostAcks EXCEPT ![H(w)] = {}]
    BY <2>1 DEF DeleteHostAcks
  <2>3. H(w) \in Hosts
    BY <2>2, JobType DEF TypeOK
  <2> QED
    BY <2>2, <2>3 DEF Erasing, TypeOK, RowType
<1> QED
  BY <1>1, TypeCorrect, ErasingHolds, PTL DEF Spec, DeleteErases

-----------------------------------------------------------------------------
(***************************************************************************)
(* What a step does to the rows and to what the threads hold of them.      *)
(***************************************************************************)

Deleting == {"delCascade", "delUploads"}

\* A thread holds reports it has read in a transaction only, identifiers of
\* uploads and rows it is deleting in a delete only.
Tidy ==
  \A v \in Workers : /\ snap[v] # {} => pc[v] \in InTransaction
                     /\ ids[v] # {} => pc[v] \in Deleting
                     /\ pend[v] # {} => pc[v] = "delUploads"

Resting(v) == pc[v] \notin InTransaction \union Deleting /\ snap[v] = {} /\ ids[v] = {} /\ pend[v] = {}
Still(v) ==
  /\ pc'[v] = pc[v] /\ job'[v] = job[v] /\ snap'[v] = snap[v]
  /\ upl'[v] = upl[v] /\ ids'[v] = ids[v] /\ pend'[v] = pend[v]

\* No report or upload changes, and who does not go on as before holds nothing.
Calm ==
  /\ UNCHANGED <<log, reports, uploads, nextId>>
  /\ \A v \in Workers : Still(v) \/ Resting(v)'

\* Nothing is settled either, and nothing that was read under a lock given up;
\* or a handler ends without having stored anything.
Goes     == Calm /\ UNCHANGED <<snap, outcome>>
Stops(w) == Ends(w) /\ UNCHANGED <<reports, uploads, nextId>>

Written(w) ==
  /\ pc[w] = "write" /\ WriteFree(w)
  /\ StoreReports(w) /\ Unlock(w) /\ Finish(w, "success") /\ UNCHANGED nextId

\* The steps that move rows.
Moves(w) ==
  \/ LockHost(w) \/ GetUpload(w) \/ Written(w)
  \/ SelectUploads(w) \/ DeleteCascade(w) \/ DeleteUploads(w) \/ DeleteReports(w)

LEMMA StopsCalm ==
  ASSUME TypeOK, NEW w \in Workers, Stops(w)
  PROVE  Calm
<1>0. PICK r \in Outcomes : Finish(w, r)
  BY DEF Stops, Ends
<1>1. Resting(w)'
  BY <1>0 DEF Finish, Resting, InTransaction, Deleting, TypeOK, ThreadType
<1>2. \A v \in Workers : v # w => Still(v)
  BY <1>0 DEF Finish, Still, TypeOK, ThreadType
<1> QED
  BY <1>0, <1>1, <1>2 DEF Calm, Finish, Stops

LEMMA GotoGoes ==
  ASSUME TypeOK, Tidy, NEW w \in Workers, NEW p, Goto(w, p), p \notin InTransaction \union Deleting,
         pc[w] \notin InTransaction \union Deleting,
         UNCHANGED <<log, reports, uploads, nextId, outcome, snap, upl, ids, pend>>,
         \A v \in Workers : v # w => job'[v] = job[v]
  PROVE  Goes
<1>1. Resting(w)'
  BY DEF Goto, Resting, Tidy, InTransaction, Deleting, TypeOK, ThreadType
<1>2. \A v \in Workers : v # w => Still(v)
  BY DEF Goto, Still, TypeOK, ThreadType
<1> QED
  BY <1>1, <1>2 DEF Goes, Calm

LEMMA FailSteps ==
  ASSUME TypeOK, Tidy, NEW w \in Workers, DeleteFails(w), pc[w] \in DeletePoints, UNCHANGED rowVars
  PROVE  Goes \/ Stops(w)
<1>1. CASE Retry(w)
  <2>1. Resting(w)'
    <3>1. RetryPoint(w) \notin InTransaction \union Deleting /\ pc[w] \notin InTransaction
      BY DEF RetryPoint, DeletePoints, InTransaction, Deleting
    <3> QED
      BY <1>1, <3>1 DEF Retry, Goto, Resting, Tidy, TypeOK, ThreadType
  <2>2. \A v \in Workers : v # w => Still(v)
    BY <1>1 DEF Retry, Goto, Still, TypeOK, ThreadType
  <2> QED
    BY <1>1, <2>1, <2>2 DEF Goes, Calm, Retry, kafkaVars, rowVars
<1>2. CASE Finish(w, "error")
  BY <1>2 DEF rowVars, Stops, Ends, Outcomes, DeletePoints
<1> QED
  BY <1>1, <1>2 DEF DeleteFails

\* Every step of a thread is one or the other.
LEMMA ThreadSteps ==
  ASSUME TypeOK, Tidy, NEW w \in Workers, Handler(w) \/ Fault(w)
  PROVE  Goes \/ Stops(w) \/ Moves(w)
<1> USE DEF kafkaVars, rowVars, lockVars, localVars, InTransaction, Deleting
<1>0. ASSUME NEW r \in Outcomes \ {"none"}, Finish(w, r), pc[w] # "idle", UNCHANGED <<reports, uploads, nextId>>
      PROVE  Stops(w)
  BY <1>0 DEF Stops, Ends
<1>1. CASE Take(w)
  <2>1. \A v \in Workers : v # w => job'[v] = job[v]
    BY <1>1 DEF Take, TypeOK, ThreadType
  <2>2. Goto(w, "check") /\ pc[w] = "idle" /\ UNCHANGED <<log, reports, uploads, nextId, outcome, snap, upl, ids, pend>>
    BY <1>1 DEF Take
  <2> QED
    BY <2>1, <2>2, GotoGoes
<1>2. CASE Accept(w)
  <2>1. Goto(w, "lookup") \/ Goto(w, "delSelect")
    BY <1>2 DEF Accept
  <2>2. pc[w] = "check" /\ UNCHANGED <<log, job, reports, uploads, nextId, outcome, snap, upl, ids, pend>>
    BY <1>2 DEF Accept
  <2> QED
    BY <2>1, <2>2, GotoGoes
<1>3. CASE LookupHost(w) \/ CheckNewOrg(w) \/ CreateAutoacks(w)
  BY <1>3, GotoGoes DEF LookupHost, CheckNewOrg, CreateAutoacks
<1>4. CASE SaveHost(w) \/ InsertHost(w)
  BY <1>4, GotoGoes DEF SaveHost, InsertHost
<1>5. CASE Reject(w) \/ Ignore(w) \/ AutoackConflict(w) \/ InsertConflict(w) \/ HostVanished(w)
           \/ UploadsReferenced(w) \/ DeleteHostAcks(w) \/ CommitFails(w) \/ IngestError(w)
  BY <1>0, <1>5 DEF Reject, Ignore, AutoackConflict, InsertConflict, HostVanished, UploadsReferenced,
                    DeleteHostAcks, CommitFails, IngestError, Outcomes, IngestPoints
<1>6. CASE WriteReports(w) \/ HooksFail(w)
  BY <1>0, <1>6 DEF WriteReports, HooksFail, Moves, Written, Outcomes
<1>7. CASE DeleteError(w)
  BY <1>7, FailSteps DEF DeleteError
<1>8. CASE SystemTypeError(w)
  <2>1. CASE UNCHANGED <<kafkaVars, pc, job, localVars, outcome>>
    BY <1>8, <2>1 DEF SystemTypeError, Goes, Calm, Still
  <2>2. CASE Finish(w, "lost")
    BY <1>0, <1>8, <2>2 DEF SystemTypeError, Outcomes
  <2> QED
    BY <1>8, <2>1, <2>2 DEF SystemTypeError
<1>9. CASE DeadlockVictim(w)
  <2>1. CASE Finish(w, "error") /\ pc[w] = "write" /\ UNCHANGED rowVars
    BY <1>0, <2>1 DEF Outcomes
  <2>2. CASE DeleteFails(w) /\ pc[w] \in DeletePoints /\ UNCHANGED rowVars
    BY <2>2, FailSteps
  <2> QED
    BY <1>9, <2>1, <2>2 DEF DeadlockVictim, Deadlocked, DeletePoints
<1> QED
  BY <1>1, <1>2, <1>3, <1>4, <1>5, <1>6, <1>7, <1>8, <1>9 DEF Handler, Fault, Moves

LEMMA StepKinds ==
  ASSUME TypeOK, Tidy, [Next]_vars
  PROVE  \/ Goes \/ PollMalformed \/ (\E w \in Workers : Stops(w) \/ Moves(w))
         \/ \E h \in Hosts : ReplDelete(h)
<1>1. CASE PollSubmit \/ Stopped \/ UNCHANGED vars \/ \E h \in Hosts : ReplUpsert(h) \/ ReplLockHost(h)
  BY <1>1 DEF PollSubmit, Stopped, vars, ReplUpsert, ReplLockHost, Goes, Calm, Still,
              kafkaVars, rowVars, lockVars, localVars
<1> QED
  BY <1>1, ThreadSteps DEF Next, Consumer

\* The steps that move nothing, together.
LEMMA CalmSteps ==
  ASSUME TypeOK, Goes \/ PollMalformed \/ \E w \in Workers : Stops(w)
  PROVE  Calm
<1>1. CASE PollMalformed
  BY <1>1 DEF PollMalformed, Calm, Still, rowVars, localVars
<1> QED
  BY <1>1, StopsCalm DEF Goes

-----------------------------------------------------------------------------
(***************************************************************************)
(* Whose rows the threads hold: one host has the reports and uploads of an *)
(* upload number, a delete takes rows of its host only, and what is read   *)
(* under the lock is all that there is.                                    *)
(***************************************************************************)

\* Whose row an upload number is, of an upload that is stored, that a report
\* names, that a thread is about to store, or that a delete has selected: one
\* host's. o is some function that tells.
Owned(o) ==
  /\ \A u \in uploads : u.id < nextId /\ o[u.id] = u.host
  /\ \A r \in reports : r.upload < nextId /\ o[r.upload] = r.host
  /\ \A v \in Workers : pc[v] = "write" => upl[v] < nextId /\ o[upl[v]] = H(v)
  /\ \A v \in Workers : \A id \in ids[v] : id < nextId /\ o[id] = H(v)
Fit == \E o \in [Nat -> Hosts \union {NoOne}] : Owned(o)

\* What a delete takes of the reports refers to the uploads it selected.
Chosen == \A v \in Workers : \A r \in pend[v] : r.upload \in ids[v]

\* Every report is of a rule with content, and it and its upload row of a message.
Sourced ==
  /\ \A r \in reports : r.rule \in KnownRules /\ r.msg \in DOMAIN log
  /\ \A u \in uploads : u.msg \in DOMAIN log

\* Under the lock, what was read is one report a rule, and all there are.
Seen ==
  \A v \in Workers : pc[v] \in InTransaction =>
    /\ ReportsOf(H(v)) \subseteq snap[v]
    /\ \A r, s \in snap[v] : r.rule = s.rule => r = s

Held == Tidy /\ Fit /\ Chosen /\ Sourced /\ Seen

\* A step that moves no rows keeps all of this.
LEMMA CalmKeeps ==
  ASSUME TypeOK, Held, Calm
  PROVE  Held'
<1>0. \A v \in Workers : Still(v) => H(v)' = H(v)
  BY DEF Calm, Still, H, M
<1>1. Tidy' /\ Chosen'
  BY DEF Calm, Held, Tidy, Chosen, Still, Resting
<1>2. Fit'
  <2>1. PICK o \in [Nat -> Hosts \union {NoOne}] : Owned(o)
    BY DEF Held, Fit
  <2>2. Owned(o)'
    BY <1>0, <2>1 DEF Calm, Owned, Still, Resting, InTransaction
  <2> QED
    BY <2>2 DEF Fit
<1>3. Sourced'
  BY DEF Calm, Held, Sourced
<1>4. Seen'
  BY <1>0 DEF Calm, Held, Seen, Still, Resting, ReportsOf
<1> QED
  BY <1>1, <1>2, <1>3, <1>4 DEF Held

\* Where a step of another kind leaves the other threads.
LEMMA OthersStay ==
  ASSUME TypeOK, NEW w \in Workers, Moves(w)
  PROVE  /\ log' = log
         /\ \A v \in Workers : v # w => Still(v) /\ H(v)' = H(v)
<1>1. log' = log /\ \A v \in Workers : v # w => Still(v)
  <2>1. CASE Written(w)
    BY <2>1 DEF Written, Finish, Still, TypeOK, ThreadType
  <2>2. CASE LockHost(w) \/ GetUpload(w)
    BY <2>2 DEF LockHost, GetUpload, Goto, Still, TypeOK, ThreadType, kafkaVars, rowVars
  <2>3. CASE SelectUploads(w) \/ DeleteCascade(w) \/ DeleteUploads(w) \/ DeleteReports(w)
    BY <2>3 DEF SelectUploads, DeleteCascade, DeleteUploads, DeleteReports, Goto, Still, TypeOK, ThreadType,
                kafkaVars, localVars
  <2> QED
    BY <2>1, <2>2, <2>3 DEF Moves
<1> QED
  BY <1>1 DEF Still, H, M

\* What a thread that moves rows holds afterwards.
LEMMA MoverHolds ==
  ASSUME TypeOK, Tidy, NEW w \in Workers, Moves(w)
  PROVE  /\ snap'[w] # {} => pc'[w] \in InTransaction
         /\ ids'[w] # {} => pc'[w] \in Deleting
         /\ pend'[w] # {} => pc'[w] = "delUploads"
         /\ \A r \in pend'[w] : r.upload \in ids'[w]
<1> USE DEF InTransaction, Deleting, Goto
<1>1. CASE LockHost(w) \/ GetUpload(w)
  BY <1>1 DEF LockHost, GetUpload, Tidy, TypeOK, ThreadType
<1>2. CASE Written(w)
  BY <1>2 DEF Written, Finish, TypeOK, ThreadType
<1>3. CASE SelectUploads(w) \/ DeleteCascade(w)
  BY <1>3 DEF SelectUploads, DeleteCascade, Tidy, TypeOK, ThreadType
<1>4. CASE DeleteUploads(w) \/ DeleteReports(w)
  BY <1>4 DEF DeleteUploads, DeleteReports, localVars, Tidy, TypeOK, ThreadType
<1> QED
  BY <1>1, <1>2, <1>3, <1>4 DEF Moves

LEMMA TidyMoves ==
  ASSUME TypeOK, Held, NEW w \in Workers, Moves(w)
  PROVE  Tidy' /\ Chosen'
<1>1. \A v \in Workers : v # w => Still(v)
  BY OthersStay
<1>2. Tidy /\ Chosen
  BY DEF Held
<1> QED
  BY <1>1, <1>2, MoverHolds DEF Tidy, Chosen, Still

\* What is stored of a message is of its host, its upload row and its content.
LEMMA WrittenRows ==
  ASSUME TypeOK, NEW w \in Workers, pc[w] # "idle", NEW r \in Updated(w) \union Inserted(w)
  PROVE  /\ r.host = H(w) /\ r.upload = upl[w] /\ r.msg = job[w] /\ r.account = M(w).account
         /\ r.rule \in HitRules(w)
<1>1. CASE r \in Inserted(w)
  BY <1>1 DEF Inserted
<1>2. CASE r \in Updated(w)
  <2>1. PICK s \in Updatable(w) : r = [s EXCEPT !.upload = upl[w], !.msg = job[w], !.since = Since(w, s.rule)]
    BY <1>2 DEF Updated
  <2>2. s \in ReportRow /\ s.host = H(w) /\ s.rule \in HitRules(w) /\ s.account = M(w).account
    BY DEF Updatable, ReportsOf, TypeOK, RowType
  <2>3. r.host = s.host /\ r.rule = s.rule /\ r.upload = upl[w] /\ r.msg = job[w] /\ r.account = s.account
    BY <2>1, <2>2 DEF ReportRow
  <2> QED
    BY <2>2, <2>3
<1> QED
  BY <1>1, <1>2

\* The rows after a step: those there were, or those of the message stored.
LEMMA RowsAfter ==
  ASSUME TypeOK, NEW w \in Workers, Moves(w)
  PROVE  /\ nextId <= nextId'
         /\ \A r \in reports' : r \in reports \/ (Written(w) /\ r \in Updated(w) \union Inserted(w))
         /\ \A u \in uploads' : u \in uploads \/ (Written(w) /\ u.id = upl[w] /\ u.host = H(w) /\ u.msg = job[w])
<1> USE DEF TypeOK, RowType
<1>1. CASE LockHost(w) \/ SelectUploads(w) \/ DeleteCascade(w)
  BY <1>1 DEF LockHost, SelectUploads, DeleteCascade, rowVars
<1>2. CASE GetUpload(w) \/ DeleteUploads(w) \/ DeleteReports(w)
  BY <1>2 DEF GetUpload, DeleteUploads, DeleteReports
<1>3. CASE Written(w)
  BY <1>3 DEF Written, StoreReports
<1> QED
  BY <1>1, <1>2, <1>3 DEF Moves

LEMMA SourcedMoves ==
  ASSUME TypeOK, Held, NEW w \in Workers, Moves(w)
  PROVE  Sourced'
<1>1. log' = log /\ Sourced
  BY OthersStay DEF Held
<1>2. Written(w) => pc[w] # "idle" /\ job[w] \in DOMAIN log /\ HitRules(w) \subseteq KnownRules
  BY JobType DEF Written, TypeOK, HitRules, Stored
<1> QED
  BY <1>1, <1>2, RowsAfter, WrittenRows DEF Sourced

LEMMA FitMoves ==
  ASSUME TypeOK, Held, NEW w \in Workers, Moves(w)
  PROVE  Fit'
<1>0. PICK o \in [Nat -> Hosts \union {NoOne}] : Owned(o)
  BY DEF Held, Fit
<1>1. /\ \A v \in Workers : v # w => Still(v) /\ H(v)' = H(v)
      /\ pc[w] # "idle" /\ H(w) \in Hosts /\ nextId \in Nat
  <2>1. pc[w] # "idle"
    BY DEF Moves, LockHost, GetUpload, Written, SelectUploads, DeleteCascade, DeleteUploads, DeleteReports
  <2> QED
    BY <2>1, OthersStay, JobType DEF TypeOK, RowType
<1>2. CASE GetUpload(w) /\ nextId' # nextId
  <2> DEFINE p == [o EXCEPT ![nextId] = H(w)]
  <2>1. /\ nextId' = nextId + 1 /\ upl'[w] = nextId /\ H(w)' = H(w)
        /\ UNCHANGED <<reports, uploads, ids>>
    BY <1>2 DEF GetUpload, TypeOK, ThreadType, kafkaVars, H, M
  <2>2. /\ p \in [Nat -> Hosts \union {NoOne}] /\ p[nextId] = H(w)
        /\ \A i \in Nat : i < nextId => p[i] = o[i]
    BY <1>1
  <2>3. /\ \A u \in uploads : u.id \in Nat
        /\ \A r \in reports : r.upload \in Nat
        /\ \A v \in Workers : upl[v] \in Nat /\ ids[v] \subseteq Nat
    BY DEF TypeOK, RowType, ThreadType, UploadRow, ReportRow
  <2> HIDE DEF p
  <2>4. \A i \in Nat : i < nextId => i < nextId'
    BY <1>1, <2>1
  <2>5. /\ \A u \in uploads' : u.id < nextId' /\ p[u.id] = u.host
        /\ \A r \in reports' : r.upload < nextId' /\ p[r.upload] = r.host
    BY <1>0, <2>1, <2>2, <2>3, <2>4 DEF Owned
  <2>6. \A v \in Workers : pc'[v] = "write" => upl'[v] < nextId' /\ p[upl'[v]] = H(v)'
    <3> SUFFICES ASSUME NEW v \in Workers, pc'[v] = "write" PROVE upl'[v] < nextId' /\ p[upl'[v]] = H(v)'
      OBVIOUS
    <3>1. CASE v = w
      BY <1>1, <2>1, <2>2, <3>1
    <3>2. CASE v # w
      BY <1>0, <1>1, <2>2, <2>3, <2>4, <3>2 DEF Owned, Still
    <3> QED
      BY <3>1, <3>2
  <2>7. \A v \in Workers : \A id \in ids'[v] : id < nextId' /\ p[id] = H(v)'
    BY <1>0, <1>1, <2>1, <2>2, <2>3, <2>4 DEF Owned
  <2> QED
    BY <2>2, <2>5, <2>6, <2>7 DEF Fit, Owned
<1>3. CASE ~(GetUpload(w) /\ nextId' # nextId)
  <2>1. nextId' = nextId
    BY <1>3 DEF Moves, LockHost, Written, SelectUploads, DeleteCascade, DeleteUploads, DeleteReports, rowVars
  <2>2. /\ pc'[w] = "write" => upl'[w] < nextId /\ o[upl'[w]] = H(w)'
        /\ \A id \in ids'[w] : id < nextId /\ o[id] = H(w)'
    <3> USE DEF TypeOK, ThreadType, Owned, Goto
    <3>1. CASE GetUpload(w)
      <4>0. H(w)' = H(w) /\ ids' = ids
        BY <3>1 DEF GetUpload, kafkaVars, H, M
      <4>1. PICK u \in MyUploads(w) : upl' = [upl EXCEPT ![w] = u.id]
        BY <1>1, <2>1, <3>1 DEF GetUpload
      <4> QED
        BY <1>0, <4>0, <4>1 DEF MyUploads
    <3>2. CASE LockHost(w)
      BY <1>0, <3>2 DEF LockHost, kafkaVars, H, M
    <3>3. CASE Written(w)
      BY <3>3 DEF Written, Finish
    <3>4. CASE SelectUploads(w)
      <4>1. ids'[w] = {u.id : u \in {x \in uploads : x.host = H(w)}} /\ H(w)' = H(w) /\ pc'[w] # "write"
        BY <3>4 DEF SelectUploads, kafkaVars, H, M
      <4> QED
        BY <1>0, <4>1
    <3>5. CASE DeleteCascade(w) \/ DeleteUploads(w) \/ DeleteReports(w)
      <4>1. H(w)' = H(w) /\ ids'[w] \subseteq ids[w] /\ pc'[w] # "write"
        BY <3>5 DEF DeleteCascade, DeleteUploads, DeleteReports, localVars, kafkaVars, H, M
      <4> QED
        BY <1>0, <4>1
    <3> QED
      BY <3>1, <3>2, <3>3, <3>4, <3>5 DEF Moves
  <2>3. /\ \A u \in uploads' : u.id < nextId /\ o[u.id] = u.host
        /\ \A r \in reports' : r.upload < nextId /\ o[r.upload] = r.host
    <3>1. Written(w) => pc[w] = "write"
      BY DEF Written
    <3> QED
      BY <1>0, <1>1, <3>1, RowsAfter, WrittenRows DEF Owned
  <2> QED
    BY <1>0, <1>1, <2>1, <2>2, <2>3 DEF Fit, Owned, Still
<1> QED
  BY <1>2, <1>3

LEMMA SeenMoves ==
  ASSUME TypeOK, Held, HostLocked, UniqueReports, NEW w \in Workers, Moves(w)
  PROVE  Seen'
<1> SUFFICES ASSUME NEW v \in Workers, pc'[v] \in InTransaction
             PROVE  /\ ReportsOf(H(v))' \subseteq snap'[v]
                    /\ \A r, s \in snap'[v] : r.rule = s.rule => r = s
  BY DEF Seen, ReportsOf
<1>1. CASE v # w
  <2>1. Still(v) /\ H(v)' = H(v) /\ pc[v] \in InTransaction
    BY <1>1, OthersStay DEF Still
  <2>2. Written(w) => H(w) # H(v) /\ pc[w] # "idle"
    BY <1>1, <2>1 DEF Written, HostLocked, InTransaction
  <2>3. ReportsOf(H(v))' \subseteq ReportsOf(H(v))
    BY <2>1, <2>2, RowsAfter, WrittenRows DEF ReportsOf
  <2> QED
    BY <2>1, <2>3 DEF Held, Seen, Still
<1>2. CASE v = w
  <2>1. CASE LockHost(w)
    <3>1. snap'[w] = ReportsOf(H(w)) /\ reports' = reports /\ H(w)' = H(w)
      BY <2>1 DEF LockHost, TypeOK, ThreadType, rowVars, kafkaVars, H, M
    <3> QED
      BY <1>2, <3>1 DEF UniqueReports, ReportsOf
  <2>2. CASE GetUpload(w)
    <3>1. pc[w] \in InTransaction /\ snap' = snap /\ reports' = reports /\ H(w)' = H(w)
      BY <2>2 DEF GetUpload, InTransaction, kafkaVars, H, M
    <3> QED
      BY <1>2, <3>1 DEF Held, Seen, ReportsOf
  <2>3. CASE Written(w) \/ SelectUploads(w) \/ DeleteCascade(w) \/ DeleteUploads(w) \/ DeleteReports(w)
    <3>1. pc'[w] \notin InTransaction
      BY <2>3 DEF Written, Finish, SelectUploads, DeleteCascade, DeleteUploads, DeleteReports, Goto, InTransaction,
                  TypeOK, ThreadType
    <3> QED
      BY <1>2, <3>1
  <2> QED
    BY <2>1, <2>2, <2>3 DEF Moves
<1> QED
  BY <1>1, <1>2

\* Rows that go take nothing of this along.
LEMMA ReplDeleteKeeps ==
  ASSUME TypeOK, Held, NEW h \in Hosts, ReplDelete(h)
  PROVE  Held'
<1>1. /\ UNCHANGED <<log, pc, job, snap, upl, ids, pend, nextId>>
      /\ reports' \subseteq reports /\ uploads' \subseteq uploads
  BY DEF ReplDelete, kafkaVars, localVars
<1>2. \A v \in Workers : H(v)' = H(v)
  BY <1>1 DEF H, M
<1>3. Fit'
  <2>1. PICK o \in [Nat -> Hosts \union {NoOne}] : Owned(o)
    BY DEF Held, Fit
  <2>2. Owned(o)'
    BY <1>1, <1>2, <2>1 DEF Owned
  <2> QED
    BY <2>2 DEF Fit
<1>4. Tidy' /\ Chosen' /\ Sourced'
  BY <1>1 DEF Held, Tidy, Chosen, Sourced
<1>5. Seen'
  BY <1>1, <1>2 DEF Held, Seen, ReportsOf
<1> QED
  BY <1>3, <1>4, <1>5 DEF Held

LEMMA HeldHolds == Spec => []Held
<1>1. Init => Held
  <2> SUFFICES ASSUME Init PROVE Held
    OBVIOUS
  <2>1. Fit
    <3> DEFINE o == [i \in Nat |-> NoOne]
    <3>1. o \in [Nat -> Hosts \union {NoOne}] /\ Owned(o)
      BY DEF Init, Owned
    <3> QED
      BY <3>1 DEF Fit
  <2> QED
    BY <2>1 DEF Init, Held, Tidy, Chosen, Sourced, Seen, InTransaction
<1>2. TypeOK /\ HostLocked /\ UniqueReports /\ Held /\ [Next]_vars => Held'
  <2> SUFFICES ASSUME TypeOK, HostLocked, UniqueReports, Held, [Next]_vars PROVE Held'
    OBVIOUS
  <2>1. CASE \E w \in Workers : Moves(w)
    BY <2>1, TidyMoves, FitMoves, SourcedMoves, SeenMoves DEF Held
  <2>2. Tidy
    BY DEF Held
  <2> QED
    BY <2>1, <2>2, StepKinds, CalmSteps, CalmKeeps, ReplDeleteKeeps
<1> QED
  BY <1>1, <1>2, TypeCorrect, LocksHold, PTL DEF Spec

-----------------------------------------------------------------------------
(***************************************************************************)
(* What the webhooks and the inventory view event tell, while a host is    *)
(* left to its uploads.                                                    *)
(***************************************************************************)

\* A thread deletes because of a delete event, and the replication service
\* locks no Host before it has begun.
Caused ==
  /\ \A v \in Workers : pc[v] \in DeletePoints => M(v).type = "delete"
  /\ replLeft <= MaxRepl
  /\ \A h \in Hosts : hostLock[h] = Repl => replLeft < MaxRepl

\* Which thread steps disturb what the events tell.
LEMMA ThreadAround ==
  ASSUME TypeOK, NEW w \in Workers, Handler(w) \/ Fault(w)
  PROVE  /\ UNCHANGED <<log, inventory, replLeft>> /\ faults <= faults' /\ acks \subseteq acks'
         /\ UNCHANGED eventVars \/ faults' > 0 \/ WriteReports(w)
         /\ UNCHANGED hostAcks \/ DeleteHostAcks(w)
         /\ \A h \in Hosts : hostLock'[h] = Repl => hostLock[h] = Repl
<1>0. faults \in Nat /\ Repl \notin Workers /\ Repl # NoOne
  BY HolderAssumption DEF TypeOK, HolderAssumption
<1>1. UNCHANGED <<log, inventory, replLeft>> /\ faults <= faults' /\ acks \subseteq acks'
  BY <1>0 DEF Handler, Fault, Take, Reject, Ignore, Accept, LookupHost, CheckNewOrg, CreateAutoacks, AutoackConflict, SaveHost,
           InsertHost, InsertConflict, LockHost, HostVanished, GetUpload, WriteReports, SelectUploads, DeleteCascade,
           DeleteUploads, UploadsReferenced, DeleteReports, DeleteHostAcks, DeadlockVictim, DeleteError, IngestError,
           SystemTypeError, HooksFail, CommitFails, Finish, DeleteFails, Retry, kafkaVars, rowVars, budgetVars
<1>2. UNCHANGED eventVars \/ faults' > 0 \/ WriteReports(w)
  BY <1>0 DEF Handler, Fault, Take, Reject, Ignore, Accept, LookupHost, CheckNewOrg, CreateAutoacks, AutoackConflict, SaveHost,
           InsertHost, InsertConflict, LockHost, HostVanished, GetUpload, SelectUploads, DeleteCascade,
           DeleteUploads, UploadsReferenced, DeleteReports, DeleteHostAcks, DeadlockVictim, DeleteError, IngestError,
           SystemTypeError, HooksFail, CommitFails
<1>3. UNCHANGED hostAcks \/ DeleteHostAcks(w)
  BY DEF Handler, Fault, Take, Reject, Ignore, Accept, LookupHost, CheckNewOrg, CreateAutoacks, AutoackConflict, SaveHost,
           InsertHost, InsertConflict, LockHost, HostVanished, GetUpload, WriteReports, SelectUploads, DeleteCascade,
           DeleteUploads, UploadsReferenced, DeleteReports, DeadlockVictim, DeleteError, IngestError,
           SystemTypeError, HooksFail, CommitFails, rowVars
<1>4. hostLock' = hostLock \/ Unlock(w) \/ LockHost(w)
  BY DEF Handler, Fault, Take, Reject, Ignore, Accept, LookupHost, CheckNewOrg, CreateAutoacks, AutoackConflict, SaveHost,
           InsertHost, InsertConflict, HostVanished, GetUpload, WriteReports, SelectUploads, DeleteCascade,
           DeleteUploads, UploadsReferenced, DeleteReports, DeleteHostAcks, DeadlockVictim, DeleteError, IngestError,
           SystemTypeError, HooksFail, CommitFails, lockVars
<1>5. \A h \in Hosts : hostLock'[h] = Repl => hostLock[h] = Repl
  BY <1>0, <1>4 DEF Unlock, LockHost, TypeOK, LockType
<1> QED
  BY <1>1, <1>2, <1>3, <1>5

\* A thread that deletes did so before, or has just accepted a delete event.
LEMMA DeleteGoesOn ==
  ASSUME TypeOK, NEW w \in Workers, Handler(w) \/ Fault(w), NEW v \in Workers, pc'[v] \in DeletePoints
  PROVE  H(v)' = H(v) /\ M(v)' = M(v) /\ (pc[v] \in DeletePoints \/ M(v).type = "delete")
<1> USE DEF DeletePoints, Goto
<1>0. log' = log
  BY ThreadAround
<1>1. job'[v] = job[v] /\ (pc[v] \in DeletePoints \/ M(v).type = "delete")
  <2> USE DEF TypeOK, ThreadType
  <2>1. ASSUME NEW r, Finish(w, r) PROVE job'[v] = job[v] /\ pc[v] \in DeletePoints
    BY <2>1 DEF Finish
  <2>2. CASE Take(w) \/ Accept(w)
    BY <2>2 DEF Take, Accept
  <2>3. CASE DeleteFails(w)
    <3>1. CASE Retry(w) 
      BY <3>1 DEF Retry, RetryPoint
    <3> QED
      BY <2>1, <2>3, <3>1 DEF DeleteFails
  <2>4. CASE LookupHost(w) \/ CheckNewOrg(w) \/ CreateAutoacks(w) \/ SaveHost(w) \/ InsertHost(w) \/ LockHost(w) \/ GetUpload(w)
    BY <2>4 DEF LookupHost, CheckNewOrg, CreateAutoacks, SaveHost, InsertHost, LockHost, GetUpload
  <2>5. CASE SelectUploads(w) \/ DeleteCascade(w) \/ DeleteUploads(w) \/ DeleteReports(w)
    BY <2>5 DEF SelectUploads, DeleteCascade, DeleteUploads, DeleteReports
  <2>6. CASE SystemTypeError(w)
    <3>1. CASE UNCHANGED <<kafkaVars, pc, job, localVars, outcome>>
      BY <3>1
    <3> QED
      BY <2>1, <2>6, <3>1 DEF SystemTypeError
  <2> QED
    BY <2>1, <2>2, <2>3, <2>4, <2>5, <2>6
       DEF Handler, Fault, Reject, Ignore, AutoackConflict, InsertConflict, HostVanished, WriteReports,
           UploadsReferenced, DeleteHostAcks, DeadlockVictim, DeleteError, IngestError, HooksFail, CommitFails
<1> QED
  BY <1>0, <1>1 DEF H, M

\* The same of every step.
LEMMA Around ==
  ASSUME TypeOK, [Next]_vars
  PROVE  /\ log' = log /\ faults <= faults' /\ acks \subseteq acks'
         /\ UNCHANGED eventVars \/ faults' > 0 \/ \E w \in Workers : WriteReports(w)
         /\ UNCHANGED hostAcks \/ (\E w \in Workers : DeleteHostAcks(w)) \/ \E h \in Hosts : ReplDelete(h)
         /\ (replLeft' = replLeft /\ inventory' \subseteq inventory) \/ replLeft' < replLeft
         /\ \A h \in Hosts : hostLock'[h] = Repl => hostLock[h] = Repl \/ replLeft' < replLeft
<1>1. ASSUME NEW w \in Workers, Handler(w) \/ Fault(w)
      PROVE  /\ log' = log /\ faults <= faults' /\ acks \subseteq acks'
             /\ UNCHANGED eventVars \/ faults' > 0 \/ WriteReports(w)
             /\ UNCHANGED hostAcks \/ DeleteHostAcks(w)
             /\ replLeft' = replLeft /\ inventory' \subseteq inventory
             /\ \A h \in Hosts : hostLock'[h] = Repl => hostLock[h] = Repl
  BY <1>1, ThreadAround
<1>2. CASE Consumer \/ Stopped \/ UNCHANGED vars
  BY <1>2 DEF Consumer, PollMalformed, PollSubmit, Stopped, vars, kafkaVars, rowVars, lockVars, budgetVars, eventVars, TypeOK
<1>3. ASSUME NEW h \in Hosts, ReplUpsert(h) \/ ReplLockHost(h) \/ ReplDelete(h)
      PROVE  /\ log' = log /\ faults <= faults' /\ acks \subseteq acks' /\ UNCHANGED eventVars
             /\ UNCHANGED hostAcks \/ ReplDelete(h)
             /\ (replLeft' = replLeft /\ inventory' \subseteq inventory) \/ replLeft' < replLeft
             /\ \A g \in Hosts : hostLock'[g] = Repl => hostLock[g] = Repl \/ replLeft' < replLeft
  BY <1>3, HolderAssumption DEF ReplUpsert, ReplLockHost, ReplDelete, kafkaVars, rowVars, lockVars, budgetVars, TypeOK, LockType, HolderAssumption
<1> QED
  BY <1>1, <1>2, <1>3 DEF Next

LEMMA CausedHolds == Spec => []Caused
<1>1. Init => Caused
  BY HolderAssumption, PoolAssumption DEF Init, Caused, DeletePoints, HolderAssumption, PoolAssumption
<1>2. TypeOK /\ Caused /\ [Next]_vars => Caused'
  <2> SUFFICES ASSUME TypeOK, Caused, [Next]_vars PROVE Caused'
    OBVIOUS
  <2>1. \A v \in Workers : pc'[v] \in DeletePoints => M(v)'.type = "delete"
    <3>1. ASSUME NEW w \in Workers, Handler(w) \/ Fault(w), NEW v \in Workers, pc'[v] \in DeletePoints
          PROVE  M(v)'.type = "delete"
      BY <3>1, DeleteGoesOn DEF Caused
    <3>2. CASE Consumer \/ Stopped \/ UNCHANGED vars \/ \E h \in Hosts : ReplUpsert(h) \/ ReplLockHost(h) \/ ReplDelete(h)
      <4>1. UNCHANGED <<log, pc, job>>
        BY <3>2 DEF Consumer, PollMalformed, PollSubmit, Stopped, vars, ReplUpsert, ReplLockHost, ReplDelete, kafkaVars
      <4> QED
        BY <4>1 DEF Caused, M
    <3> QED
      BY <3>1, <3>2 DEF Next
  <2>2. replLeft \in Nat /\ replLeft' \in Int /\ MaxRepl \in Nat
    <3>1. TypeOK'
      BY TypeStep
    <3> QED
      BY <3>1, PoolAssumption DEF TypeOK, PoolAssumption
  <2> QED
    BY <2>1, <2>2, Around DEF Caused
<1> QED
  BY <1>1, <1>2, TypeCorrect, PTL DEF Spec

\* No delete, error or replication touches the host (EventsTrackReports).
Undisturbed(h) ==
  /\ \A i \in DOMAIN log : ~(log[i].type = "delete" /\ log[i].host = h)
  /\ h \in inventory /\ faults = 0 /\ replLeft = MaxRepl

SparedOf(h) == UNION {Spared(log[i]) : i \in {i \in DOMAIN log : log[i].host = h}}
Quiet(h)    == HookAcked(h) \union SparedOf(h)

Tracks(h) ==
  /\ announced[h] \ Quiet(h) = (RulesIn(ReportsOf(h)) \cap ActiveRules) \ Quiet(h)
  /\ viewed[h] \ SparedOf(h) = RulesIn(ReportsOf(h)) \ SparedOf(h)

\* An upload of the host finds what it read still there.
Undeleted(h) ==
  \A v \in Workers : pc[v] \in InTransaction /\ H(v) = h => RulesIn(snap[v]) \subseteq RulesIn(ReportsOf(h))

Tracking == \A h \in Hosts : Undisturbed(h) => Tracks(h) /\ Undeleted(h)

\* A host undisturbed was so before, and its reports change by uploads alone.
LEMMA UndisturbedStep ==
  ASSUME TypeOK, TypeOK', Held, Caused, [Next]_vars, NEW h \in Hosts, Undisturbed(h)'
  PROVE  /\ Undisturbed(h) /\ faults' = 0 /\ SparedOf(h)' = SparedOf(h)
         /\ hostAcks'[h] = hostAcks[h]
         /\ ReportsOf(h)' = ReportsOf(h) \/ \E w \in Workers : Written(w) /\ H(w) = h
         /\ \A w \in Workers : Written(w) /\ H(w) # h => ReportsOf(h)' = ReportsOf(h)
<1>1. /\ faults \in Nat /\ faults' = 0 /\ replLeft \in Nat /\ replLeft' = MaxRepl /\ MaxRepl \in Nat
      /\ replLeft <= MaxRepl
  BY PoolAssumption DEF PoolAssumption, TypeOK, Undisturbed, Caused
<1>2. ~ (replLeft' < replLeft)
  BY <1>1
<1>3. Undisturbed(h) /\ log' = log
  BY <1>1, <1>2, Around DEF Undisturbed
<1>4. \A g \in Hosts : ~ ReplDelete(g)
  <2> SUFFICES ASSUME NEW g \in Hosts, ReplDelete(g) PROVE FALSE
    OBVIOUS
  <2>1. replLeft < MaxRepl /\ replLeft' = replLeft
    BY DEF ReplDelete, Caused, budgetVars
  <2> QED
    BY <1>1, <2>1
<1>5. \A w \in Workers : pc[w] \in DeletePoints => H(w) # h
  BY <1>3, JobType DEF Undisturbed, Caused, TypeOK, DeletePoints, H, M
<1>6. hostAcks'[h] = hostAcks[h]
  <2>1. ASSUME NEW w \in Workers, DeleteHostAcks(w) PROVE hostAcks'[h] = hostAcks[h]
    BY <1>5, <2>1 DEF DeleteHostAcks, DeletePoints, TypeOK, RowType
  <2> QED
    BY <1>4, <2>1, Around
<1>7. ASSUME NEW w \in Workers, Written(w), H(w) # h PROVE ReportsOf(h)' = ReportsOf(h)
  <2>1. pc[w] # "idle" /\ \A r \in Updatable(w) \union Resolved(w) : r.host = H(w)
    BY <1>7 DEF Written, Updatable, Resolved, ReportsOf
  <2>2. \A r : r.host = h => (r \in reports' <=> r \in reports)
    <3>1. \A r \in Updated(w) \union Inserted(w) : r.host = H(w)
      BY <2>1, WrittenRows
    <3> QED
      BY <1>7, <2>1, <3>1 DEF Written, StoreReports
  <2> QED
    BY <2>2 DEF ReportsOf
<1>8. ReportsOf(h)' = ReportsOf(h) \/ \E w \in Workers : Written(w) /\ H(w) = h
  <2>1. CASE Calm
    BY <2>1 DEF Calm, ReportsOf
  <2>2. ASSUME NEW w \in Workers, Moves(w), ~ Written(w) PROVE ReportsOf(h)' = ReportsOf(h)
    <3>1. CASE LockHost(w) \/ GetUpload(w) \/ SelectUploads(w) \/ DeleteCascade(w)
      BY <3>1 DEF LockHost, GetUpload, SelectUploads, DeleteCascade, rowVars, ReportsOf
    <3>2. CASE DeleteUploads(w)
      <4>1. H(w) # h /\ reports' = reports \ pend[w]
        BY <1>5, <3>2 DEF DeleteUploads, DeletePoints
      <4>2. PICK o \in [Nat -> Hosts \union {NoOne}] : Owned(o)
        BY DEF Held, Fit
      <4>3. \A r \in reports : r \in pend[w] => r.host = H(w)
        BY <4>2 DEF Held, Chosen, Owned
      <4> QED
        BY <4>1, <4>3 DEF ReportsOf
    <3>3. CASE DeleteReports(w)
      BY <1>5, <3>3 DEF DeleteReports, DeletePoints, ReportsOf
    <3> QED
      BY <2>2, <3>1, <3>2, <3>3 DEF Moves
  <2>3. Tidy
    BY DEF Held
  <2> QED
    BY <1>4, <1>7, <2>1, <2>2, <2>3, StepKinds, CalmSteps
<1> QED
  BY <1>1, <1>3, <1>6, <1>7, <1>8 DEF SparedOf

\* The rules a message leaves its host: those it reports, and some it spares.
LEMMA RulesLeft ==
  ASSUME TypeOK, Held, HostLocked, NEW w \in Workers, Written(w),
         NEW h \in Hosts, H(w) = h, Undeleted(h)
  PROVE  /\ RulesIn(snap[w]) \ SparedOf(h) = RulesIn(ReportsOf(h)) \ SparedOf(h)
         /\ RulesIn(ReportsOf(h))' \ SparedOf(h) = HitRules(w) \ SparedOf(h)
<1>0. pc[w] # "idle" /\ pc[w] \in InTransaction /\ job[w] \in DOMAIN log
  BY JobType DEF Written, InTransaction, TypeOK
<1>1. RulesIn(snap[w]) = RulesIn(ReportsOf(h))
  <2>1. \A r \in ReportsOf(h) : r.rule \in RulesIn(snap[w])
    BY <1>0 DEF HostLocked, ReportsOf
  <2> QED
    BY <1>0, <2>1 DEF Undeleted, RulesIn
<1>2. Spared(M(w)) \subseteq SparedOf(h)
  BY <1>0 DEF SparedOf, H, M
<1>3. /\ \A x \in HitRules(w) : x \in M(w).hits /\ x \in Filtered(M(w).hits)
      /\ \A r \in ReportsOf(h) : r.rule \in Filtered(M(w).hits) /\ r.rule \notin HitRules(w) => r.rule \in Spared(M(w))
  BY DEF HitRules, Stored, Spared, Held, Sourced, ReportsOf
<1>4. ASSUME NEW x \in RulesIn(ReportsOf(h))', x \notin SparedOf(h) PROVE x \in HitRules(w)
  <2>1. PICK r \in reports' : r.host = h /\ r.rule = x
    BY DEF RulesIn, ReportsOf
  <2>2. CASE r \in Updated(w) \union Inserted(w)
    BY <1>0, <2>1, <2>2, WrittenRows
  <2>3. CASE r \in ReportsOf(h) /\ r \notin Resolved(w)
    <3>1. r.rule \in RulesIn(snap[w])
      BY <1>1, <2>3 DEF RulesIn
    <3>2. r.rule \in Filtered(M(w).hits)
      BY <2>3, <3>1 DEF Resolved
    <3> QED
      BY <1>2, <1>3, <1>4, <2>1, <2>3, <3>2
  <2> QED
    BY <2>1, <2>2, <2>3 DEF Written, StoreReports, ReportsOf
<1>5. ASSUME NEW x \in HitRules(w) PROVE x \in RulesIn(ReportsOf(h))'
  <2> SUFFICES \E r \in reports' : r.host = h /\ r.rule = x
    BY DEF RulesIn, ReportsOf
  <2>1. CASE x \in RulesIn(snap[w])
    <3>1. PICK r \in ReportsOf(h) : r.rule = x
      BY <1>1, <2>1 DEF RulesIn
    <3>2. r \notin Resolved(w) /\ r \in reports /\ r.host = h /\ r \in ReportRow
      BY <1>3, <3>1 DEF Resolved, ReportsOf, TypeOK, RowType
    <3>3. CASE r \in Updatable(w)
      <4> DEFINE s == [r EXCEPT !.upload = upl[w], !.msg = job[w], !.since = Since(w, r.rule)]
      <4>1. s \in Updated(w) /\ s.host = r.host /\ s.rule = r.rule
        BY <3>2, <3>3 DEF Updated, ReportRow
      <4> QED
        BY <3>1, <3>2, <4>1 DEF Written, StoreReports
    <3>4. CASE r \notin Updatable(w)
      BY <3>1, <3>2, <3>4 DEF Written, StoreReports
    <3> QED
      BY <3>3, <3>4
  <2>2. CASE x \notin RulesIn(snap[w])
    <3>1. [host |-> H(w), rule |-> x, upload |-> upl[w], msg |-> job[w], account |-> M(w).account, since |-> job[w]] \in Inserted(w)
      BY <2>2 DEF Inserted
    <3> QED
      BY <3>1 DEF Written, StoreReports
  <2> QED
    BY <2>1, <2>2
<1> QED
  BY <1>1, <1>4, <1>5

\* The message stored, its webhooks and its view event sent: all three agree.
LEMMA SentTracks ==
  ASSUME TypeOK, Held, HostLocked, NEW w \in Workers, WriteReports(w),
         NEW h \in Hosts, H(w) = h, Undisturbed(h), Tracks(h), Undeleted(h), SparedOf(h)' = SparedOf(h)
  PROVE  Tracks(h)'
<1>1. /\ Written(w) /\ SendHooks(w) /\ SendView(w)
      /\ UNCHANGED <<acks, hostAcks>> /\ h \in inventory
  BY DEF WriteReports, Written, Undisturbed
<1>2. HookAcked(h)' = HookAcked(h) /\ Quiet(h)' = Quiet(h)
  BY <1>1 DEF HookAcked, Quiet
<1> DEFINE R == RulesIn(snap[w])
           new == ((HitRules(w) \ R) \cap ActiveRules) \ HookAcked(h)
           gone == ((R \ HitRules(w)) \cap ActiveRules) \ HookAcked(h)
<1>3. announced'[h] = (announced[h] \union new) \ gone /\ viewed'[h] = HitRules(w)
  BY <1>1 DEF SendHooks, SendView, TypeOK, EventType
<1>4. /\ R \ SparedOf(h) = RulesIn(ReportsOf(h)) \ SparedOf(h)
      /\ RulesIn(ReportsOf(h))' \ SparedOf(h) = HitRules(w) \ SparedOf(h)
  BY <1>1, RulesLeft
<1> DEFINE After == RulesIn(ReportsOf(h))'
           Before == RulesIn(ReportsOf(h))
<1>5. announced[h] \ Quiet(h) = (Before \cap ActiveRules) \ Quiet(h)
  BY DEF Tracks
<1>6. \A x : x \notin Quiet(h) => x \notin SparedOf(h) /\ x \notin HookAcked(h)
  BY DEF Quiet
<1>7. After = RulesIn(ReportsOf(h))'
  OBVIOUS
<1> HIDE DEF R, After, Before
<1>8. ((announced[h] \union new) \ gone) \ Quiet(h) = (After \cap ActiveRules) \ Quiet(h)
  <2> SUFFICES ASSUME NEW x, x \notin Quiet(h)
               PROVE  x \in (announced[h] \union new) \ gone <=> x \in After /\ x \in ActiveRules
    OBVIOUS
  <2>1. x \in announced[h] <=> x \in Before /\ x \in ActiveRules
    BY <1>5
  <2>2. (x \in R <=> x \in Before) /\ (x \in After <=> x \in HitRules(w))
    BY <1>4, <1>6 DEF After, Before
  <2> QED
    BY <1>6, <2>1, <2>2
<1>9. HitRules(w) \ SparedOf(h) = After \ SparedOf(h)
  BY <1>4 DEF After
<1> HIDE DEF new, gone
<1> QED
  BY <1>2, <1>3, <1>7, <1>8, <1>9 DEF Tracks

LEMMA TrackingStep ==
  ASSUME TypeOK, TypeOK', Held, HostLocked, UniqueReports, Caused, Tracking, [Next]_vars
  PROVE  Tracking'
<1> SUFFICES ASSUME NEW h \in Hosts, Undisturbed(h)' PROVE Tracks(h)' /\ Undeleted(h)'
  BY DEF Tracking
<1>0. Tidy
  BY DEF Held
<1>1. /\ Undisturbed(h) /\ faults' = 0 /\ SparedOf(h)' = SparedOf(h)
      /\ hostAcks'[h] = hostAcks[h]
      /\ ReportsOf(h)' = ReportsOf(h) \/ \E w \in Workers : Written(w) /\ H(w) = h
      /\ \A w \in Workers : Written(w) /\ H(w) # h => ReportsOf(h)' = ReportsOf(h)
  BY UndisturbedStep
<1>2. Tracks(h) /\ Undeleted(h)
  BY <1>1 DEF Tracking
<1>3. Tracks(h)'
  <2>1. ASSUME UNCHANGED <<announced, viewed>>, ReportsOf(h)' = ReportsOf(h) PROVE Tracks(h)'
    <3>1. HookAcked(h) \subseteq HookAcked(h)'
      BY <1>1, Around DEF HookAcked
    <3>2. RulesIn(ReportsOf(h))' = RulesIn(ReportsOf(h))
      BY <2>1 DEF RulesIn
    <3>3. Quiet(h) \subseteq Quiet(h)'
      BY <1>1, <3>1 DEF Quiet
    <3> QED
      BY <1>1, <1>2, <2>1, <3>2, <3>3 DEF Tracks
  <2>2. CASE UNCHANGED eventVars
    <3>1. ASSUME NEW w \in Workers, Written(w) PROVE FALSE
      <4>1. commits' = [commits EXCEPT ![H(w)] = @ + 1] /\ H(w) \in Hosts
        BY <3>1, JobType DEF Written, StoreReports, TypeOK
      <4>2. commits[H(w)] \in Nat /\ commits'[H(w)] = commits[H(w)] + 1
        BY <4>1 DEF TypeOK, EventType
      <4> QED
        BY <2>2, <4>2 DEF eventVars
    <3> QED
      BY <1>1, <2>1, <2>2, <3>1 DEF eventVars
  <2>3. ASSUME NEW w \in Workers, WriteReports(w) PROVE Tracks(h)'
    <3>1. Written(w) /\ H(w) \in Hosts
      BY <2>3, JobType DEF WriteReports, Written, TypeOK
    <3>2. CASE H(w) = h
      BY <1>1, <1>2, <2>3, <3>2, SentTracks
    <3>3. CASE H(w) # h
      <4>1. announced'[h] = announced[h] /\ viewed'[h] = viewed[h] /\ ReportsOf(h)' = ReportsOf(h) /\ acks' = acks
        BY <1>1, <2>3, <3>1, <3>3 DEF WriteReports, SendHooks, SendView, TypeOK, EventType
      <4>2. HookAcked(h)' = HookAcked(h) /\ RulesIn(ReportsOf(h))' = RulesIn(ReportsOf(h))
        BY <1>1, <4>1 DEF HookAcked, RulesIn
      <4> QED
        BY <1>1, <1>2, <4>1, <4>2 DEF Tracks, Quiet
    <3> QED
      BY <3>2, <3>3
  <2>4. UNCHANGED eventVars \/ \E w \in Workers : WriteReports(w)
    BY <1>1, Around
  <2> QED
    BY <2>2, <2>3, <2>4
<1>4. Undeleted(h)'
  <2> SUFFICES ASSUME NEW v \in Workers, pc'[v] \in InTransaction, H(v)' = h
               PROVE  RulesIn(snap'[v]) \subseteq RulesIn(ReportsOf(h))'
    BY DEF Undeleted, RulesIn
  <2>1. ASSUME Still(v), H(v)' = H(v) PROVE RulesIn(snap'[v]) \subseteq RulesIn(ReportsOf(h))'
    <3>1. \A w \in Workers : Written(w) /\ H(w) = h => w = v
      BY <2>1 DEF Still, Written, HostLocked, InTransaction
    <3>2. ~ Written(v)
      BY <2>1 DEF Still, Written, Finish, InTransaction, TypeOK, ThreadType
    <3>3. RulesIn(ReportsOf(h))' = RulesIn(ReportsOf(h))
      BY <1>1, <3>1, <3>2 DEF RulesIn
    <3> QED
      BY <1>2, <2>1, <3>3 DEF Still, Undeleted
  <2>2. CASE Calm
    <3>1. Still(v) /\ log' = log
      BY <2>2 DEF Calm, Resting
    <3> QED
      BY <2>1, <3>1 DEF Still, H, M
  <2>3. ASSUME NEW w \in Workers, Moves(w) PROVE RulesIn(snap'[v]) \subseteq RulesIn(ReportsOf(h))'
    <3>1. CASE v # w
      BY <2>1, <2>3, <3>1, OthersStay
    <3>2. CASE v = w /\ LockHost(v)
      BY <3>2 DEF LockHost, TypeOK, ThreadType, rowVars, kafkaVars, H, M, RulesIn, ReportsOf
    <3>3. CASE v = w /\ GetUpload(v)
      <4>1. pc[v] \in InTransaction /\ snap' = snap /\ reports' = reports /\ H(v)' = H(v)
        BY <3>3 DEF GetUpload, kafkaVars, H, M, InTransaction
      <4> QED
        BY <1>2, <4>1 DEF Undeleted, RulesIn, ReportsOf
    <3>4. Moves(v) => LockHost(v) \/ GetUpload(v)
      BY DEF Moves, Written, Finish, SelectUploads, DeleteCascade, DeleteUploads, DeleteReports, Goto, InTransaction,
             TypeOK, ThreadType
    <3> QED
      BY <2>3, <3>1, <3>2, <3>3, <3>4
  <2>4. ASSUME NEW g \in Hosts, ReplDelete(g) PROVE RulesIn(snap'[v]) \subseteq RulesIn(ReportsOf(h))'
    <3>1. Still(v) /\ H(v)' = H(v)
      BY <2>4 DEF ReplDelete, kafkaVars, localVars, Still, H, M
    <3> QED
      BY <2>1, <3>1
  <2> QED
    BY <1>0, <2>2, <2>3, <2>4, StepKinds, CalmSteps
<1> QED
  BY <1>3, <1>4

\* While a host is left to its uploads, whoever folds its webhooks knows its
\* active reports and the inventory view counts them all, for any threads and
\* sources: apart from the rules a message spares, and of webhooks from those
\* acknowledged since (trigger_report_hooks, send_inventory_view_event).
THEOREM EventsTrack == Spec => []EventsTrackReports
<1>1. Init => Tracking
  BY DEF Init, Tracking, Tracks, Undeleted, InTransaction, RulesIn, ReportsOf
<1>2. TypeOK /\ TypeOK' /\ Held /\ HostLocked /\ UniqueReports /\ Caused /\ Tracking /\ [Next]_vars => Tracking'
  BY TrackingStep
<1>3. Tracking => EventsTrackReports
  BY DEF Tracking, EventsTrackReports, Undisturbed, Tracks, Quiet, SparedOf
<1> QED
  BY <1>1, <1>2, <1>3, TypeCorrect, LocksHold, HeldHolds, CausedHolds, PTL DEF Spec

-----------------------------------------------------------------------------
(***************************************************************************)
(* The service implements HostReports. First what its steps rely on: a     *)
(* message is in one place, and the reports of a host stay together.       *)
(***************************************************************************)

\* A message not yet polled, queued or being handled is not settled, and is in
\* one of these places only.
Unsettled ==
  /\ \A i \in DOMAIN log : i > polled => outcome[i] = "none"
  /\ \A k \in DOMAIN queue : queue[k] <= polled /\ outcome[queue[k]] = "none"
  /\ \A k, l \in DOMAIN queue : queue[k] = queue[l] => k = l
  /\ \A v \in Busy : /\ job[v] <= polled /\ outcome[job[v]] = "none"
                     /\ \A k \in DOMAIN queue : queue[k] # job[v]
  /\ \A v, w \in Busy : job[v] = job[w] => v = w

LEMMA UnsettledStep ==
  ASSUME TypeOK, Unsettled, [Next]_vars
  PROVE  Unsettled'
<1>0. /\ queue \in Seq(DOMAIN log) /\ Len(queue) \in Nat /\ DOMAIN queue = 1..Len(queue)
      /\ log \in Seq(Message) /\ DOMAIN log = 1..Len(log) /\ Len(log) \in Nat
      /\ polled \in Nat /\ polled <= Len(log) /\ outcome \in [DOMAIN log -> Outcomes]
      /\ \A k \in DOMAIN queue : queue[k] \in DOMAIN log
      /\ \A v \in Busy : v \in Workers /\ job[v] \in DOMAIN log
  BY DataAssumption, JobType DEF DataAssumption, TypeOK, KafkaType, Busy
<1>1. ASSUME Busy' = Busy, UNCHANGED <<kafkaVars, job, outcome>> PROVE Unsettled'
  BY <1>1 DEF Unsettled, kafkaVars
<1>2. CASE PollMalformed
  <2>1. /\ Busy' = Busy /\ job' = job /\ queue' = queue /\ log' = log /\ polled' = polled + 1
        /\ outcome' = [outcome EXCEPT ![polled + 1] = "invalid"]
    BY <1>2 DEF PollMalformed, Busy
  <2> QED
    BY <1>0, <2>1 DEF Unsettled
<1>3. CASE PollSubmit
  <2>1. /\ Busy' = Busy /\ job' = job /\ log' = log /\ polled' = polled + 1 /\ outcome' = outcome
        /\ queue' = Append(queue, polled + 1) /\ polled + 1 \in DOMAIN log
    BY <1>0, <1>3 DEF PollSubmit, Busy
  <2>2. /\ DOMAIN queue' = 1..(Len(queue) + 1) /\ queue'[Len(queue) + 1] = polled + 1
        /\ \A k \in DOMAIN queue : queue'[k] = queue[k]
    BY <1>0, <2>1
  <2> QED
    BY <1>0, <2>1, <2>2 DEF Unsettled
<1>4. ASSUME NEW w \in Workers, Take(w) PROVE Unsettled'
  <2>1. /\ w \notin Busy /\ Busy' = Busy \union {w} /\ job' = [job EXCEPT ![w] = Head(queue)]
        /\ log' = log /\ polled' = polled /\ outcome' = outcome /\ queue' = Tail(queue) /\ queue # << >>
    BY <1>4 DEF Take, Goto, Busy, TypeOK, ThreadType
  <2>2. /\ 1 \in DOMAIN queue /\ Head(queue) = queue[1]
        /\ DOMAIN queue' = 1..(Len(queue) - 1)
        /\ \A k \in DOMAIN queue' : k + 1 \in DOMAIN queue /\ queue'[k] = queue[k + 1] /\ k + 1 # 1
    BY <1>0, <2>1
  <2>3. /\ job'[w] = queue[1] /\ \A v \in Busy : job'[v] = job[v]
    BY <2>1, <2>2 DEF TypeOK, ThreadType
  <2>4. \A k \in DOMAIN queue' : queue'[k] # queue[1] /\ queue'[k] <= polled /\ outcome[queue'[k]] = "none"
    BY <2>2 DEF Unsettled
  <2>5. \A v \in Busy' : /\ job'[v] <= polled /\ outcome[job'[v]] = "none"
                         /\ \A k \in DOMAIN queue' : queue'[k] # job'[v]
    BY <2>1, <2>2, <2>3, <2>4 DEF Unsettled
  <2>6. \A v, u \in Busy' : job'[v] = job'[u] => v = u
    BY <2>1, <2>2, <2>3 DEF Unsettled
  <2>7. \A k, l \in DOMAIN queue' : queue'[k] = queue'[l] => k = l
    <3> SUFFICES ASSUME NEW k \in DOMAIN queue', NEW l \in DOMAIN queue', queue'[k] = queue'[l] PROVE k = l
      OBVIOUS
    <3>1. k + 1 = l + 1
      BY <2>2 DEF Unsettled
    <3> QED
      BY <1>0, <2>2, <3>1
  <2> QED
    BY <2>1, <2>4, <2>5, <2>6, <2>7 DEF Unsettled
<1>5. ASSUME NEW w \in Workers, Ends(w) PROVE Unsettled'
  <2>1. PICK r : Finish(w, r)
    BY <1>5 DEF Ends
  <2>2. /\ w \in Busy /\ Busy' = Busy \ {w} /\ \A v \in Busy' : job'[v] = job[v]
        /\ log' = log /\ polled' = polled /\ queue' = queue /\ outcome' = [outcome EXCEPT ![job[w]] = r]
    BY <1>5, <2>1 DEF Ends, Finish, Busy, TypeOK, ThreadType
  <2>3. \A i \in DOMAIN log : i # job[w] => outcome'[i] = outcome[i]
    BY <1>0, <2>2
  <2>4. job[w] <= polled /\ \A k \in DOMAIN queue : queue[k] # job[w]
    BY <2>2 DEF Unsettled
  <2>5. \A i \in DOMAIN log : i > polled => outcome'[i] = "none"
    BY <1>0, <2>2, <2>3, <2>4 DEF Unsettled
  <2>6. \A k \in DOMAIN queue : outcome'[queue[k]] = "none"
    BY <1>0, <2>3, <2>4 DEF Unsettled
  <2>7. \A v \in Busy' : v \in Busy /\ job[v] # job[w]
    BY <2>2 DEF Unsettled
  <2>8. \A v \in Busy' : outcome'[job'[v]] = "none"
    BY <1>0, <2>2, <2>3, <2>7 DEF Unsettled
  <2> QED
    BY <2>2, <2>5, <2>6, <2>7, <2>8 DEF Unsettled
<1>6. CASE Stopped \/ UNCHANGED vars
  <2>1. Busy' = Busy /\ UNCHANGED <<kafkaVars, job, outcome>>
    BY <1>6 DEF Stopped, vars, Busy
  <2> QED
    BY <1>1, <2>1
<1>7. ASSUME NEW h \in Hosts, ReplUpsert(h) \/ ReplLockHost(h) \/ ReplDelete(h) PROVE Unsettled'
  <2>1. Busy' = Busy /\ UNCHANGED <<kafkaVars, job, outcome>>
    BY <1>7 DEF ReplUpsert, ReplLockHost, ReplDelete, Busy
  <2> QED
    BY <1>1, <2>1
<1> QED
  BY <1>1, <1>2, <1>3, <1>4, <1>5, <1>6, <1>7, PoolStep DEF Next, Consumer

LEMMA UnsettledHolds == Spec => []Unsettled
<1>1. Init => Unsettled
  BY DEF Init, Unsettled, Busy
<1>2. TypeOK /\ Unsettled /\ [Next]_vars => Unsettled'
  BY UnsettledStep
<1> QED
  BY <1>1, <1>2, TypeCorrect, PTL DEF Spec

\* A message of the host leaves the report as it is: it spares the report's
\* rule, or would update it and does not find it by its account.
LeftBy(m, r) ==
  r.rule \in Spared(log[m]) \/ (r.rule \in Stored(log[m]) /\ r.account # log[m].account)
Left(r) == \E m \in DOMAIN log : log[m].host = r.host /\ LeftBy(m, r)

\* The reports of a host that no message would leave belong to one upload row.
Together ==
  \A r, s \in reports : r.host = s.host /\ ~ Left(r) /\ ~ Left(s) => r.upload = s.upload

Kept(w) == {r \in ReportsOf(H(w)) : LeftBy(job[w], r)}

\* A message replaces the reports of its host, all but those it leaves.
LEMMA Replaced ==
  ASSUME TypeOK, Held, HostLocked, NEW w \in Workers, Written(w)
  PROVE  /\ \A r : r.host # H(w) => (r \in reports' <=> r \in reports)
         /\ Updatable(w) = {r \in ReportsOf(H(w)) : r.rule \in HitRules(w) /\ r.account = M(w).account}
         /\ {r \in reports' : r.host = H(w)} = Kept(w) \union Updated(w) \union Inserted(w)
<1>0. pc[w] # "idle" /\ pc[w] \in InTransaction /\ job[w] \in DOMAIN log
  BY JobType DEF Written, InTransaction, TypeOK
<1>1. \A r \in ReportsOf(H(w)) : r.rule \in RulesIn(snap[w])
  BY <1>0 DEF HostLocked, ReportsOf
<1>2. Updatable(w) = {r \in ReportsOf(H(w)) : r.rule \in HitRules(w) /\ r.account = M(w).account}
  BY <1>1 DEF Updatable
<1>3. \A r \in ReportsOf(H(w)) : r \in Kept(w) <=> r \notin Updatable(w) \union Resolved(w)
  <2>1. \A r \in ReportsOf(H(w)) : r.rule \in KnownRules
    BY DEF Held, Sourced, ReportsOf
  <2> QED
    BY <1>1, <1>2, <2>1 DEF Kept, LeftBy, Resolved, HitRules, Stored, Spared, M
<1>4. \A r \in Updated(w) \union Inserted(w) : r.host = H(w)
  BY <1>0, WrittenRows
<1>5. \A r \in Updatable(w) \union Resolved(w) \union Kept(w) : r \in reports /\ r.host = H(w)
  BY DEF Updatable, Resolved, Kept, ReportsOf
<1>6. reports' = (reports \ (Updatable(w) \union Resolved(w))) \union Updated(w) \union Inserted(w)
  BY DEF Written, StoreReports
<1> QED
  BY <1>2, <1>3, <1>4, <1>5, <1>6 DEF ReportsOf

LEMMA TogetherStep ==
  ASSUME TypeOK, Held, HostLocked, Together, [Next]_vars
  PROVE  Together'
<1>0. Tidy
  BY DEF Held
<1>1. ASSUME log' = log PROVE \A r : Left(r)' <=> Left(r)
  BY <1>1 DEF Left, LeftBy
<1>2. ASSUME log' = log, reports' \subseteq reports PROVE Together'
  BY <1>1, <1>2 DEF Together
<1>3. ASSUME NEW w \in Workers, Written(w) PROVE Together'
  <2>1. pc[w] # "idle" /\ job[w] \in DOMAIN log /\ log' = log
    BY <1>3, JobType DEF Written, Finish, TypeOK
  <2>2. /\ \A r : r.host # H(w) => (r \in reports' <=> r \in reports)
        /\ \A r \in reports' : r.host = H(w) => r \in Kept(w) \/ r \in Updated(w) \union Inserted(w)
    BY <1>3, Replaced
  <2>3. \A r \in Kept(w) : Left(r)
    BY <2>1 DEF Kept, Left, ReportsOf, H, M
  <2> SUFFICES ASSUME NEW r \in reports', NEW s \in reports', r.host = s.host, ~ Left(r), ~ Left(s)
               PROVE  r.upload = s.upload
    BY <1>1, <2>1 DEF Together
  <2>4. CASE r.host = H(w)
    <3>1. r \in Updated(w) \union Inserted(w) /\ s \in Updated(w) \union Inserted(w)
      BY <2>2, <2>3, <2>4
    <3> QED
      BY <2>1, <3>1, WrittenRows
  <2>5. CASE r.host # H(w)
    BY <2>2, <2>5 DEF Together
  <2> QED
    BY <2>4, <2>5
<1>4. ASSUME NEW w \in Workers, Moves(w), ~ Written(w) PROVE Together'
  BY <1>2, <1>4, OthersStay, RowsAfter
<1>5. ASSUME NEW h \in Hosts, ReplDelete(h) PROVE Together'
  BY <1>2, <1>5 DEF ReplDelete, kafkaVars
<1>6. CASE Calm
  BY <1>2, <1>6 DEF Calm
<1> QED
  BY <1>0, <1>3, <1>4, <1>5, <1>6, StepKinds, CalmSteps

LEMMA TogetherHolds == Spec => []Together
<1>1. Init => Together
  BY DEF Init, Together
<1>2. TypeOK /\ Held /\ HostLocked /\ Together /\ [Next]_vars => Together'
  BY TogetherStep
<1> QED
  BY <1>1, <1>2, TypeCorrect, LocksHold, HeldHolds, PTL DEF Spec

-----------------------------------------------------------------------------
(***************************************************************************)
(* The state as HostReports shows it, and the steps that do not write      *)
(* reports.                                                                *)
(***************************************************************************)

\* The variables of HostReports, as this module's state shows them.
Messages == [m \in DOMAIN log |-> [host |-> log[m].host, account |-> log[m].account,
                                   rules |-> Stored(log[m]), spared |-> Spared(log[m])]]
Current  == [h \in Hosts |-> {Shown(r) : r \in ReportsOf(h)}]
Doubt    == [h \in Hosts |-> Doubtful(h)]

\* A rule is in doubt only through what a transaction of the host has read.
LEMMA DoubtMeans ==
  ASSUME Tidy, NEW h, NEW x
  PROVE  x \in Doubtful(h) <=> /\ x \notin RulesIn(ReportsOf(h))
                               /\ \E v \in Workers : pc[v] \in InTransaction /\ H(v) = h /\ x \in RulesIn(snap[v])
<1>1. \A v \in Workers : x \in RulesIn(snap[v]) => pc[v] \in InTransaction
  BY DEF Tidy, RulesIn
<1>2. \A v \in Workers : pc[v] \in InTransaction => pc[v] # "idle"
  BY DEF InTransaction
<1> QED
  BY <1>1, <1>2 DEF Doubtful

LEMMA DoubtMeansNext ==
  ASSUME Tidy', NEW h, NEW x
  PROVE  x \in Doubtful(h)' <=> /\ x \notin RulesIn(ReportsOf(h))'
                                /\ \E v \in Workers : pc'[v] \in InTransaction /\ H(v)' = h /\ x \in RulesIn(snap'[v])
<1>1. \A v \in Workers : x \in RulesIn(snap'[v]) => pc'[v] \in InTransaction
  BY DEF Tidy, RulesIn
<1>2. \A v \in Workers : pc'[v] \in InTransaction => pc'[v] # "idle"
  BY DEF InTransaction
<1>3. Doubtful(h)' = (UNION {RulesIn(snap'[w]) : w \in {v \in Workers : pc'[v] # "idle" /\ H(v)' = h}}) \ RulesIn(ReportsOf(h))'
  BY DEF Doubtful, RulesIn
<1> QED
  BY <1>1, <1>2, <1>3

\* Rules in doubt change with the threads in a transaction and the reports.
LEMMA DoubtStays ==
  ASSUME Tidy, Tidy', UNCHANGED <<log, job, snap>>, NEW h, RulesIn(ReportsOf(h))' = RulesIn(ReportsOf(h)),
         \A v \in Workers : pc[v] \in InTransaction <=> pc'[v] \in InTransaction
  PROVE  Doubtful(h)' = Doubtful(h)
<1>1. \A v \in Workers : H(v)' = H(v)
  BY DEF H, M
<1>2. \A x : x \in Doubtful(h)' <=> x \in Doubtful(h)
  BY <1>1, DoubtMeans, DoubtMeansNext
<1>3. Doubtful(h) \subseteq UNION {RulesIn(snap[v]) : v \in Workers} /\ Doubtful(h)' \subseteq UNION {RulesIn(snap[v]) : v \in Workers}'
  BY DEF Doubtful
<1> QED
  BY <1>2

\* What shows of the reports stays, while reports and uploads do.
LEMMA CurrentStays ==
  ASSUME UNCHANGED <<reports, uploads>>
  PROVE  Current' = Current
BY DEF Current, Shown, ReportsOf

LEMMA MessagesStay ==
  ASSUME log' = log
  PROVE  Messages' = Messages
BY DEF Messages

LEMMA StutterMeans ==
  ASSUME UNCHANGED <<Messages, Current, Doubt, outcome>>
  PROVE  UNCHANGED Promise!vars
BY DEF Promise!vars, Messages, Current, Doubt

LEMMA DropMeans ==
  ASSUME NEW m \in DOMAIN Messages, NEW s \in Outcomes \ {"none"},
         outcome[m] = "none", outcome' = [outcome EXCEPT ![m] = s],
         Doubt' \in {Doubt, [Doubt EXCEPT ![Messages[m].host] = {}]}, UNCHANGED <<Messages, Current>>
  PROVE  Promise!Drop(m)
BY DEF Promise!Drop, Promise!Settle, Messages, Current, Doubt

\* Of a report that shows, a message leaves what it leaves of the row.
LEMMA LeavesMeans ==
  ASSUME NEW m \in DOMAIN log, NEW r
  PROVE  Promise!Leaves(m, Shown(r)) <=> LeftBy(m, r)
<1>1. Shown(r).rule = r.rule /\ Shown(r).account = r.account
  BY DEF Shown
<1>2. \A c : Promise!Leaves(m, c) <=>
        c.rule \in Messages[m].spared \/ (c.rule \in Messages[m].rules /\ c.account # Messages[m].account)
  BY DEF Promise!Leaves, Messages
<1>3. Messages[m].spared = Spared(log[m]) /\ Messages[m].rules = Stored(log[m]) /\ Messages[m].account = log[m].account
  BY DEF Messages
<1> QED
  BY <1>1, <1>2, <1>3 DEF LeftBy

LEMMA FirmMeans ==
  ASSUME NEW h \in Hosts, NEW r \in ReportsOf(h)
  PROVE  Shown(r) \in Promise!Firm(h) <=> ~ Left(r)
<1>1. Promise!Firm(h) = {c \in Current[h] : \A m \in DOMAIN Messages : Messages[m].host = h => ~ Promise!Leaves(m, c)}
  BY DEF Promise!Firm, Messages, Current
<1>2. DOMAIN Messages = DOMAIN log /\ \A m \in DOMAIN log : Messages[m].host = log[m].host
  BY DEF Messages
<1>3. Shown(r) \in Current[h] /\ r.host = h
  BY DEF Current, ReportsOf
<1>4. \A m \in DOMAIN log : Promise!Leaves(m, Shown(r)) <=> LeftBy(m, r)
  BY LeavesMeans
<1> QED
  BY <1>1, <1>2, <1>3, <1>4 DEF Left

LEMMA EraseMeans ==
  ASSUME NEW h, NEW left \in SUBSET Current[h],
         left \intersect Promise!Firm(h) \in {{}, Promise!Firm(h)},
         Current' = [Current EXCEPT ![h] = left],
         Doubt' \in {Doubt, [Doubt EXCEPT ![h] = @ \union {r.rule : r \in Current[h] \ left}]},
         UNCHANGED <<Messages, outcome>>
  PROVE  Promise!Erase(h)
BY DEF Promise!Erase, Messages, Current, Doubt

\* What a Store of m leaves, the rules it renews, and what it makes of the former.
LeftOf(m)     == {r \in Current[Messages[m].host] : Promise!Leaves(m, r)}
NewOf(m)      == (Messages[m].rules \ Doubt[Messages[m].host]) \ {r.rule : r \in LeftOf(m)}
StayOf(m, from) == {[r EXCEPT !.from = from[r]] : r \in LeftOf(m)}

LEMMA StoreMeans ==
  ASSUME NEW m, outcome[m] = "none", outcome' = [outcome EXCEPT ![m] = "success"], UNCHANGED Messages,
         NEW from \in [LeftOf(m) -> SUBSET DOMAIN Messages],
         \A r \in LeftOf(m) : from[r] \subseteq r.from \union {m},
         Current' = [Current EXCEPT ![Messages[m].host] = Promise!Renewed(m, NewOf(m)) \union StayOf(m, from)],
         Doubt' = [Doubt EXCEPT ![Messages[m].host] = {}]
  PROVE  Promise!Store(m)
<1> DEFINE h == Messages[m].host
           those == {r \in Current[h] : Promise!Leaves(m, r)}
           rules == (Messages[m].rules \ Doubt[h]) \ {r.rule : r \in those}
           Stored1(f) == /\ \A r \in those : f[r] \subseteq r.from \union {m}
                         /\ Current' = [Current EXCEPT ![h] =
                                         Promise!Renewed(m, rules) \union {[r EXCEPT !.from = f[r]] : r \in those}]
<1>1. Promise!Settle(m, "success")
  BY DEF Promise!Settle
<1>2. \E f \in [those -> SUBSET DOMAIN Messages] : Stored1(f)
  <2>1. Stored1(from) /\ from \in [those -> SUBSET DOMAIN Messages]
    BY DEF LeftOf, NewOf, StayOf
  <2> HIDE DEF Stored1, those
  <2> QED
    BY <2>1
<1>3. Doubt' = [Doubt EXCEPT ![h] = {}] /\ UNCHANGED Messages
  OBVIOUS
<1>4. Promise!Store(m) <=> /\ Promise!Settle(m, "success")
                           /\ \E f \in [those -> SUBSET DOMAIN Messages] : Stored1(f)
                           /\ Doubt' = [Doubt EXCEPT ![h] = {}]
                           /\ UNCHANGED Messages
  BY DEF Promise!Store, Messages, Current, Doubt
<1> QED
  BY <1>1, <1>2, <1>3, <1>4

\* Nothing of the reports moves, and nobody is settled: a stutter.
LEMMA StutterSteps ==
  ASSUME TypeOK, Tidy, Tidy', Goes \/ \E w \in Workers : LockHost(w) \/ GetUpload(w) \/ SelectUploads(w) \/ DeleteCascade(w)
  PROVE  UNCHANGED Promise!vars
<1> SUFFICES Doubt' = Doubt /\ UNCHANGED <<log, reports, uploads, outcome>>
  BY CurrentStays, MessagesStay, StutterMeans
<1>1. UNCHANGED <<log, reports, uploads, outcome>>
  BY DEF Goes, Calm, LockHost, GetUpload, SelectUploads, DeleteCascade, kafkaVars, rowVars
<1>2. ASSUME \A h : \A x : x \in Doubtful(h)' <=> x \in Doubtful(h) PROVE Doubt' = Doubt
  <2>1. \A h : (\A x : x \in Doubtful(h)' <=> x \in Doubtful(h)) => Doubtful(h)' = Doubtful(h)
    BY DEF Doubtful
  <2> QED
    BY <1>2, <2>1 DEF Doubt
<1>3. ASSUME NEW w \in Workers, LockHost(w) PROVE Doubt' = Doubt
  <2>1. /\ job' = job /\ snap' = [snap EXCEPT ![w] = ReportsOf(H(w))] /\ pc' = [pc EXCEPT ![w] = "upload"]
        /\ pc[w] = "lock" /\ snap[w] = {}
    BY <1>3 DEF LockHost, Goto, Tidy, InTransaction
  <2>2. \A v \in Workers : H(v)' = H(v)
    BY <1>1, <2>1 DEF H, M
  <2>3. \A v \in Workers : v # w => pc'[v] = pc[v] /\ snap'[v] = snap[v]
    BY <2>1 DEF TypeOK, ThreadType
  <2>4. snap'[w] = ReportsOf(H(w)) /\ pc[w] \notin InTransaction
    BY <2>1 DEF TypeOK, ThreadType, InTransaction
  <2>5. \A h : RulesIn(ReportsOf(h))' = RulesIn(ReportsOf(h))
    BY <1>1 DEF RulesIn, ReportsOf
  <2>6. RulesIn(snap'[w]) = RulesIn(ReportsOf(H(w)))
    BY <2>4 DEF RulesIn
  <2> SUFFICES ASSUME NEW h, NEW x PROVE x \in Doubtful(h)' <=> x \in Doubtful(h)
    BY <1>2
  <2> QED
    BY <2>2, <2>3, <2>4, <2>5, <2>6, DoubtMeans, DoubtMeansNext
<1>4. ASSUME NEW w \in Workers, GetUpload(w) \/ SelectUploads(w) \/ DeleteCascade(w) PROVE Doubt' = Doubt
  <2>1. UNCHANGED <<log, job, snap>> /\ \A v \in Workers : pc[v] \in InTransaction <=> pc'[v] \in InTransaction
    BY <1>4 DEF GetUpload, SelectUploads, DeleteCascade, Goto, TypeOK, ThreadType, kafkaVars, InTransaction
  <2>2. \A h : RulesIn(ReportsOf(h))' = RulesIn(ReportsOf(h))
    BY <1>1 DEF RulesIn, ReportsOf
  <2> QED
    BY <2>1, <2>2, DoubtStays DEF Doubt
<1>5. CASE Goes
  <2>1. \A v \in Workers : snap[v] = snap'[v] /\ (Still(v) \/ snap'[v] = {})
    BY <1>5 DEF Goes, Calm, Resting
  <2>2. \A v \in Workers : Still(v) => H(v)' = H(v) /\ pc'[v] = pc[v]
    BY <1>1 DEF Still, H, M
  <2>3. \A h : RulesIn(ReportsOf(h))' = RulesIn(ReportsOf(h))
    BY <1>1 DEF RulesIn, ReportsOf
  <2> SUFFICES ASSUME NEW h, NEW x PROVE x \in Doubtful(h)' <=> x \in Doubtful(h)
    BY <1>1, <1>2
  <2>4. \A v \in Workers : x \in RulesIn(snap[v]) => Still(v)
    BY <2>1 DEF RulesIn
  <2> QED
    BY <2>1, <2>2, <2>3, <2>4, DoubtMeans, DoubtMeansNext
<1> QED
  BY <1>1, <1>3, <1>4, <1>5

\* Who ends a transaction leaves nothing in doubt of its host: it held the lock.
LEMMA DoubtSettled ==
  ASSUME TypeOK, Tidy, Tidy', HostLocked, NEW w \in Workers, pc[w] \in InTransaction,
         NEW s, Finish(w, s), NEW g, g = H(w),
         \A h : h # g => RulesIn(ReportsOf(h))' = RulesIn(ReportsOf(h))
  PROVE  Doubt' = [Doubt EXCEPT ![g] = {}]
<1>1. /\ snap'[w] = {} /\ pc'[w] = "idle" /\ log' = log
      /\ \A v \in Workers : v # w => pc'[v] = pc[v] /\ snap'[v] = snap[v] /\ job'[v] = job[v]
  BY DEF Finish, TypeOK, ThreadType
<1>2. \A v \in Workers : v # w => H(v)' = H(v)
  BY <1>1 DEF H, M
<1>3. Doubtful(g)' = {}
  <2>1. \A v \in Workers : v # w => ~ (pc'[v] \in InTransaction /\ H(v)' = g)
    BY <1>1, <1>2 DEF HostLocked
  <2>2. \A x : x \notin Doubtful(g)'
    BY <1>1, <2>1, DoubtMeansNext DEF InTransaction
  <2>3. Doubtful(g)' \subseteq UNION {RulesIn(snap[v]) : v \in Workers}'
    BY DEF Doubtful
  <2> QED
    BY <2>2, <2>3
<1>4. ASSUME NEW h, h # g PROVE Doubtful(h)' = Doubtful(h)
  <2>1. \A x : x \in Doubtful(h)' <=> x \in Doubtful(h)
    BY <1>1, <1>2, <1>4, DoubtMeans, DoubtMeansNext DEF InTransaction
  <2> QED
    BY <2>1 DEF Doubtful
<1> QED
  BY <1>3, <1>4 DEF Doubt

\* A handler that ends without storing settles its message, and what it read
\* under the lock is in doubt no more.
LEMMA DropSteps ==
  ASSUME TypeOK, Tidy, Tidy', HostLocked, Unsettled, NEW w \in Workers, Stops(w)
  PROVE  Promise!Drop(job[w])
<1>1. PICK r \in Outcomes \ {"none"} : Finish(w, r)
  BY DEF Stops, Ends
<1>2. /\ pc[w] # "idle" /\ UNCHANGED <<log, reports, uploads>> /\ job[w] \in DOMAIN log /\ H(w) \in Hosts
      /\ outcome[job[w]] = "none" /\ outcome' = [outcome EXCEPT ![job[w]] = r]
  BY <1>1, JobType DEF Stops, Ends, Finish, Unsettled, Busy, TypeOK
<1>3. /\ snap'[w] = {} /\ pc'[w] = "idle"
      /\ \A v \in Workers : v # w => pc'[v] = pc[v] /\ snap'[v] = snap[v] /\ H(v)' = H(v)
  <2>1. \A v \in Workers : v # w => pc'[v] = pc[v] /\ snap'[v] = snap[v] /\ job'[v] = job[v]
    BY <1>1 DEF Finish, TypeOK, ThreadType
  <2> QED
    BY <1>1, <1>2, <2>1 DEF Finish, H, M, TypeOK, ThreadType
<1>4. \A h : RulesIn(ReportsOf(h))' = RulesIn(ReportsOf(h))
  BY <1>2 DEF RulesIn, ReportsOf
<1> PICK g \in Hosts : g = H(w)
  BY <1>2
<1>5. CASE pc[w] \notin InTransaction
  <2>1. \A h, x : x \in Doubtful(h)' <=> x \in Doubtful(h)
    BY <1>3, <1>4, <1>5, DoubtMeans, DoubtMeansNext DEF InTransaction
  <2>2. \A h : Doubtful(h)' = Doubtful(h)
    BY <2>1 DEF Doubtful
  <2>3. Doubt' = Doubt
    BY <2>2 DEF Doubt
  <2> QED
    BY <1>2, <2>3, CurrentStays, MessagesStay, DropMeans DEF Messages
<1>6. CASE pc[w] \in InTransaction
  <2>1. Doubt' = [Doubt EXCEPT ![g] = {}]
    BY <1>1, <1>4, <1>6, DoubtSettled
  <2>2. Messages[job[w]].host = g /\ job[w] \in DOMAIN Messages
    BY <1>2 DEF Messages, H, M
  <2> QED
    BY <1>2, <2>1, <2>2, CurrentStays, MessagesStay, DropMeans
<1> QED
  BY <1>5, <1>6

LEMMA MalformedStep ==
  ASSUME TypeOK, Tidy, Tidy', Unsettled, PollMalformed
  PROVE  \E m \in DOMAIN Messages : Promise!Drop(m)
<1>1. /\ polled + 1 \in DOMAIN log /\ outcome[polled + 1] = "none" /\ outcome' = [outcome EXCEPT ![polled + 1] = "invalid"]
      /\ UNCHANGED <<log, pc, job, snap, reports, uploads>>
  <2>1. log \in Seq(Message) /\ polled \in Nat
    BY DataAssumption DEF DataAssumption, TypeOK, KafkaType
  <2>2. polled + 1 \in DOMAIN log
    BY <2>1 DEF PollMalformed
  <2> QED
    BY <2>1, <2>2 DEF PollMalformed, rowVars, localVars, Unsettled
<1>2. Doubt' = Doubt
  <2>1. \A h : RulesIn(ReportsOf(h))' = RulesIn(ReportsOf(h))
    BY <1>1 DEF RulesIn, ReportsOf
  <2> QED
    BY <1>1, <2>1, DoubtStays DEF Doubt
<1> QED
  BY <1>1, <1>2, CurrentStays, MessagesStay, DropMeans DEF Messages, Outcomes

-----------------------------------------------------------------------------
(***************************************************************************)
(* The deletes.                                                            *)
(***************************************************************************)

\* A delete in one step: reports of one host go, all that no message leaves or
\* none of these, and what an upload under way has read of them is in doubt.
LEMMA Erases ==
  ASSUME Tidy, Tidy', HostLocked, UniqueReports, NEW h \in Hosts,
         UNCHANGED <<log, outcome, job, snap>>,
         \A v \in Workers : pc[v] \in InTransaction <=> pc'[v] \in InTransaction,
         reports' \subseteq reports, \A r \in reports : r.host # h => r \in reports',
         \A r \in reports' : Shown(r)' = Shown(r),
         \/ \A r \in ReportsOf(h) : ~ Left(r) => r \notin reports'
         \/ \A r \in ReportsOf(h) : ~ Left(r) => r \in reports'
  PROVE  Promise!Erase(h)
<1> DEFINE kept == {r \in ReportsOf(h) : r \in reports'}
           left == {Shown(r) : r \in kept}
           gone == {r.rule : r \in Current[h] \ left}
<1>1. /\ Current[h] = {Shown(r) : r \in ReportsOf(h)} /\ left \subseteq Current[h]
      /\ \A r : Shown(r).rule = r.rule
      /\ \A r, s \in ReportsOf(h) : r.rule = s.rule => r = s
  BY DEF Current, Shown, ReportsOf, UniqueReports
<1>2. left \intersect Promise!Firm(h) \in {{}, Promise!Firm(h)}
  <2>1. /\ Promise!Firm(h) \subseteq Current[h]
        /\ \A r \in ReportsOf(h) : Shown(r) \in Promise!Firm(h) <=> ~ Left(r)
    BY FirmMeans DEF Promise!Firm, Current
  <2>2. ASSUME \A r \in ReportsOf(h) : ~ Left(r) => r \notin reports'
        PROVE  left \intersect Promise!Firm(h) = {}
    BY <1>1, <2>1, <2>2
  <2>3. ASSUME \A r \in ReportsOf(h) : ~ Left(r) => r \in reports'
        PROVE  left \intersect Promise!Firm(h) = Promise!Firm(h)
    BY <1>1, <2>1, <2>3
  <2> QED
    BY <2>2, <2>3
<1>3. ReportsOf(h)' = kept /\ \A g : g # h => ReportsOf(g)' = ReportsOf(g)
  BY DEF ReportsOf
<1>4. Current' = [Current EXCEPT ![h] = left]
  <2>1. Current' = [g \in Hosts |-> {Shown(r)' : r \in ReportsOf(g)'}]
    BY DEF Current
  <2>2. \A g : \A r \in ReportsOf(g)' : Shown(r)' = Shown(r)
    BY DEF ReportsOf
  <2>3. \A g \in Hosts : {Shown(r)' : r \in ReportsOf(g)'} = {Shown(r) : r \in ReportsOf(g)'}
    BY <2>2
  <2> HIDE DEF kept
  <2>4. \A g \in Hosts : {Shown(r) : r \in ReportsOf(g)'} = IF g = h THEN left ELSE {Shown(r) : r \in ReportsOf(g)}
    BY <1>3
  <2> HIDE DEF left
  <2> QED
    BY <2>1, <2>3, <2>4 DEF Current
<1>5. \A x : x \in gone <=> x \in RulesIn(ReportsOf(h)) /\ x \notin RulesIn(ReportsOf(h))'
  <2>1. RulesIn(ReportsOf(h))' = {r.rule : r \in kept}
    BY <1>3 DEF RulesIn
  <2>2. \A r \in ReportsOf(h) : Shown(r) \in left <=> r \in kept
    BY <1>1
  <2>3. \A x : x \in gone <=> \E r \in ReportsOf(h) : r \notin kept /\ r.rule = x
    <3> HIDE DEF kept, left
    <3> QED
      BY <1>1, <2>2
  <2>4. \A x : x \in RulesIn(ReportsOf(h)) <=> \E r \in ReportsOf(h) : r.rule = x
    BY DEF RulesIn
  <2> HIDE DEF gone
  <2> QED
    BY <1>1, <2>1, <2>3, <2>4
<1>6. \A g : g # h => Doubtful(g)' = Doubtful(g)
  BY <1>3, DoubtStays DEF RulesIn
<1>7. \A v \in Workers : H(v)' = H(v)
  BY DEF H, M
<1>8. Doubtful(h)' \in {Doubtful(h), Doubtful(h) \union gone}
  <2> HIDE DEF gone
  <2>1. \A x : x \in RulesIn(ReportsOf(h))' => x \in RulesIn(ReportsOf(h))
    BY <1>3 DEF RulesIn
  <2>2. ASSUME NEW v \in Workers, pc[v] \in InTransaction, H(v) = h
        PROVE  Doubtful(h)' = Doubtful(h) \union gone
    <3>1. \A x : x \in RulesIn(ReportsOf(h)) => x \in RulesIn(snap[v])
      BY <2>2 DEF HostLocked, ReportsOf, RulesIn
    <3>2. \A x : x \in Doubtful(h)' <=> x \in Doubtful(h) \/ x \in gone
      BY <1>5, <1>7, <2>1, <2>2, <3>1, DoubtMeans, DoubtMeansNext
    <3> QED
      BY <3>2 DEF Doubtful
  <2>3. ASSUME \A v \in Workers : pc[v] \in InTransaction => H(v) # h
        PROVE  Doubtful(h)' = Doubtful(h)
    <3>1. \A x : x \in Doubtful(h)' <=> x \in Doubtful(h)
      BY <1>7, <2>3, DoubtMeans, DoubtMeansNext
    <3> QED
      BY <3>1 DEF Doubtful
  <2> QED
    BY <2>2, <2>3
<1>9. Doubt' \in {Doubt, [Doubt EXCEPT ![h] = @ \union gone]}
  <2> HIDE DEF gone
  <2>1. Doubt[h] = Doubtful(h) /\ Doubt = [g \in Hosts |-> Doubtful(g)] /\ Doubt' = [g \in Hosts |-> Doubtful(g)']
    BY DEF Doubt
  <2>2. CASE Doubtful(h)' = Doubtful(h)
    <3>1. \A g \in Hosts : Doubtful(g)' = Doubtful(g)
      BY <1>6, <2>2
    <3> QED
      BY <2>1, <3>1
  <2>3. CASE Doubtful(h)' = Doubtful(h) \union gone
    <3> QED
      BY <1>6, <2>1, <2>3
  <2> QED
    BY <1>8, <2>2, <2>3
<1> HIDE DEF left
<1> QED
  BY <1>1, <1>2, <1>4, <1>9, MessagesStay, EraseMeans

\* The second statement of a delete: by Chosen and Owned it takes rows of its
\* host only, and by Together all that no message leaves, or none.
LEMMA UploadsErased ==
  ASSUME TypeOK, Held, Tidy', HostLocked, UniqueReports, Together, NEW w \in Workers, DeleteUploads(w)
  PROVE  Promise!Erase(H(w))
<1>0. /\ UNCHANGED <<log, outcome, job, snap>> /\ reports' = reports \ pend[w] /\ H(w) \in Hosts
      /\ uploads' = {u \in uploads : u.id \notin ids[w]} /\ pc[w] = "delUploads" /\ pc' = [pc EXCEPT ![w] = "delReports"]
  BY JobType DEF DeleteUploads, Goto, kafkaVars, TypeOK
<1>1. \A v \in Workers : pc[v] \in InTransaction <=> pc'[v] \in InTransaction
  BY <1>0 DEF InTransaction, TypeOK, ThreadType
<1>2. \A r \in reports : r.upload \in ids[w] => r.host = H(w)
  BY DEF Held, Fit, Owned
<1>3. \A r \in reports : r \in pend[w] <=> r.upload \in ids[w]
  BY DEF DeleteUploads, Orphans, Held, Chosen
<1>4. \A r \in reports' : Shown(r)' = Shown(r)
  <2> SUFFICES ASSUME NEW r \in reports' PROVE {v \in uploads' : v.id = r.upload} = {v \in uploads : v.id = r.upload}
    BY DEF Shown
  <2> QED
    BY <1>0, <1>3
<1> PICK g \in Hosts : g = H(w)
  BY <1>0
<1>5. \/ \A r \in ReportsOf(g) : ~ Left(r) => r \notin reports'
      \/ \A r \in ReportsOf(g) : ~ Left(r) => r \in reports'
  BY <1>0, <1>3 DEF Together, ReportsOf
<1>6. Promise!Erase(g)
  BY <1>0, <1>1, <1>2, <1>3, <1>4, <1>5, Erases DEF Held
<1> QED
  BY <1>6

LEMMA ReportsErased ==
  ASSUME TypeOK, Held, Tidy', HostLocked, UniqueReports, NEW w \in Workers, DeleteReports(w)
  PROVE  Promise!Erase(H(w))
<1>0. /\ UNCHANGED <<log, outcome, job, snap, uploads>> /\ reports' = reports \ ReportsOf(H(w)) /\ H(w) \in Hosts
      /\ pc[w] = "delReports" /\ pc' = [pc EXCEPT ![w] = "delAcks"]
  BY JobType DEF DeleteReports, Goto, kafkaVars, localVars, TypeOK
<1>1. \A v \in Workers : pc[v] \in InTransaction <=> pc'[v] \in InTransaction
  BY <1>0 DEF InTransaction, TypeOK, ThreadType
<1>2. \A r \in reports' : Shown(r)' = Shown(r)
  BY <1>0 DEF Shown
<1> PICK g \in Hosts : g = H(w)
  BY <1>0
<1>3. Promise!Erase(g)
  BY <1>0, <1>1, <1>2, Erases DEF Held, ReportsOf
<1> QED
  BY <1>3

LEMMA HostErased ==
  ASSUME TypeOK, Held, Tidy', HostLocked, UniqueReports, NEW h \in Hosts, ReplDelete(h)
  PROVE  Promise!Erase(h)
<1>0. /\ UNCHANGED <<log, outcome, job, snap, pc>> /\ reports' = reports \ ReportsOf(h)
      /\ uploads' = {u \in uploads : u.host # h}
  BY DEF ReplDelete, kafkaVars, localVars
<1>1. \A u \in uploads : \A r \in reports : u.id = r.upload => u.host = r.host
  BY DEF Held, Fit, Owned
<1>2. \A r \in reports' : Shown(r)' = Shown(r)
  <2> SUFFICES ASSUME NEW r \in reports' PROVE {v \in uploads' : v.id = r.upload} = {v \in uploads : v.id = r.upload}
    BY DEF Shown
  <2> QED
    BY <1>0, <1>1 DEF ReportsOf
<1> QED
  BY <1>0, <1>2, Erases DEF Held, ReportsOf

-----------------------------------------------------------------------------
(***************************************************************************)
(* The write of a message, and the theorem.                                *)
(***************************************************************************)

\* What a message writes shows as the abstract message's reports.
LEMMA RenewedMeans ==
  ASSUME TypeOK, Held, HostLocked, UniqueReports, NEW w \in Workers, Written(w),
         NEW m, m = job[w], NEW g, g = H(w),
         NEW R, R = (Messages[m].rules \ Doubt[g]) \ {r.rule : r \in Kept(w)}
  PROVE  {Shown(r)' : r \in Updated(w) \union Inserted(w)} = Promise!Renewed(m, R)
<1> DEFINE rows     == Updated(w) \union Inserted(w)
           Fresh(x) == [rule |-> x, account |-> M(w).account, from |-> {m},
                        since |-> IF \E o \in Current[g] : o.rule = x
                                    THEN (CHOOSE o \in Current[g] : o.rule = x).since ELSE m]
<1>0. /\ pc[w] # "idle" /\ pc[w] \in InTransaction /\ m \in DOMAIN log /\ g \in Hosts /\ M(w) = log[m]
      /\ Messages[m].host = g /\ Messages[m].rules = HitRules(w) /\ Messages[m].account = M(w).account
      /\ Doubt[g] = Doubtful(g)
  BY JobType DEF Written, InTransaction, TypeOK, Messages, Doubt, HitRules, H, M
<1>1. Promise!Renewed(m, R) = {Fresh(x) : x \in R}
  <2>1. Promise!Renewed(m, R) =
          {[rule |-> x, account |-> Messages[m].account, from |-> {m},
            since |-> IF \E o \in Current[Messages[m].host] : o.rule = x
                        THEN (CHOOSE o \in Current[Messages[m].host] : o.rule = x).since ELSE m] : x \in R}
    BY DEF Promise!Renewed, Messages, Current
  <2> QED
    BY <1>0, <2>1
<1>2. Current[g] = {Shown(r) : r \in ReportsOf(g)} /\ \A r : Shown(r).rule = r.rule /\ Shown(r).since = r.since
  BY <1>0 DEF Current, Shown
<1>3. /\ ReportsOf(g) \subseteq snap[w] /\ \A r, s \in snap[w] : r.rule = s.rule => r = s
      /\ \A x : x \in RulesIn(snap[w]) <=> \E s \in snap[w] : s.rule = x
      /\ \A x : x \in RulesIn(ReportsOf(g)) <=> \E s \in ReportsOf(g) : s.rule = x
  BY <1>0 DEF Held, Seen, RulesIn
<1>4. \A x : x \in Doubtful(g) <=> x \in RulesIn(snap[w]) /\ x \notin RulesIn(ReportsOf(g))
  <2>1. \A v \in Workers : pc[v] \in InTransaction /\ H(v) = g <=> v = w
    BY <1>0 DEF HostLocked
  <2> QED
    BY <2>1, DoubtMeans DEF Held
<1>4a. \A x : x \in R <=> /\ x \in HitRules(w) /\ (x \in RulesIn(snap[w]) => x \in RulesIn(ReportsOf(g)))
                         /\ \A r \in Kept(w) : r.rule # x
  BY <1>0, <1>4
<1>4b. /\ \A r \in Kept(w) : r \in ReportsOf(g)
       /\ \A r \in ReportsOf(g) : r \in Kept(w) <=> r.rule \in Spared(M(w)) \/ (r.rule \in HitRules(w) /\ r.account # M(w).account)
       /\ \A x \in HitRules(w) : x \notin Spared(M(w))
  BY <1>0 DEF Kept, LeftBy, HitRules, Stored, Spared
<1>5. \A r \in rows : Shown(r)' = [rule |-> r.rule, account |-> M(w).account, since |-> r.since, from |-> {m}]
  <2> SUFFICES ASSUME NEW r \in rows
               PROVE  /\ {r.msg} \union {u.msg : u \in {v \in uploads' : v.id = r.upload}} = {m}
                      /\ r.account = M(w).account
    BY DEF Shown
  <2>1. r.msg = m /\ r.upload = upl[w] /\ r.account = M(w).account
    BY <1>0, WrittenRows
  <2>2. \A u \in uploads' : u.id = upl[w] => u.msg = m
    BY DEF Written, StoreReports
  <2> QED
    BY <2>1, <2>2
<1>6. ASSUME NEW q \in ReportsOf(g)
      PROVE  /\ Since(w, q.rule) = q.since
             /\ Fresh(q.rule) = [rule |-> q.rule, account |-> M(w).account, since |-> q.since, from |-> {m}]
  <2>1. (CHOOSE s \in snap[w] : s.rule = q.rule) = q
    BY <1>3, <1>6
  <2>2. \A o \in Current[g] : o.rule = q.rule <=> o = Shown(q)
    BY <1>2, <1>6 DEF UniqueReports, ReportsOf
  <2>3. Shown(q) \in Current[g] /\ (CHOOSE o \in Current[g] : o.rule = q.rule) = Shown(q)
    BY <1>2, <1>6, <2>2
  <2> QED
    BY <1>2, <2>1, <2>2, <2>3 DEF Since
<1>7. ASSUME NEW x, x \notin RulesIn(snap[w])
      PROVE  Fresh(x) = [rule |-> x, account |-> M(w).account, since |-> m, from |-> {m}]
  <2>1. ~ \E o \in Current[g] : o.rule = x
    BY <1>2, <1>3, <1>7
  <2> QED
    BY <2>1
<1> HIDE DEF Fresh
<1>8. ASSUME NEW q \in ReportsOf(g), q.rule \in HitRules(w), q.account = M(w).account
      PROVE  /\ [q EXCEPT !.upload = upl[w], !.msg = job[w], !.since = Since(w, q.rule)] \in Updated(w)
             /\ [q EXCEPT !.upload = upl[w], !.msg = job[w], !.since = Since(w, q.rule)].rule = q.rule
             /\ [q EXCEPT !.upload = upl[w], !.msg = job[w], !.since = Since(w, q.rule)].since = q.since
  <2>1. q \in Updatable(w)
    BY <1>8, Replaced
  <2>2. q \in ReportRow
    BY <1>8 DEF ReportsOf, TypeOK, RowType
  <2> QED
    BY <1>6, <2>1, <2>2 DEF Updated, ReportRow
<1>9. \A r \in rows : r.rule \in R /\ Shown(r)' = Fresh(r.rule)
  <2>1. ASSUME NEW r \in Inserted(w) PROVE r.rule \in R /\ Shown(r)' = Fresh(r.rule)
    <3>1. r.rule \in HitRules(w) /\ r.rule \notin RulesIn(snap[w]) /\ r.since = m
      BY <2>1 DEF Inserted
    <3>2. \A q \in Kept(w) : q.rule # r.rule
      BY <1>3, <1>4b, <3>1
    <3> QED
      BY <1>4a, <1>5, <1>7, <2>1, <3>1, <3>2
  <2>2. ASSUME NEW r \in Updated(w) PROVE r.rule \in R /\ Shown(r)' = Fresh(r.rule)
    <3>1. PICK q \in Updatable(w) : r = [q EXCEPT !.upload = upl[w], !.msg = job[w], !.since = Since(w, q.rule)]
      BY <2>2 DEF Updated
    <3>2. q \in ReportsOf(g) /\ q.rule \in HitRules(w) /\ q.account = M(w).account
      BY <3>1 DEF Updatable
    <3>3. r.rule = q.rule /\ r.since = q.since
      BY <1>8, <3>1, <3>2
    <3>4. \A k \in Kept(w) : k.rule # q.rule
      <4>1. q \notin Kept(w)
        BY <1>4b, <3>2
      <4> QED
        BY <1>4b, <3>2, <4>1 DEF UniqueReports, ReportsOf
    <3> QED
      BY <1>4a, <1>3, <1>5, <1>6, <2>2, <3>2, <3>3, <3>4
  <2> QED
    BY <2>1, <2>2
<1>10. ASSUME NEW x \in R PROVE \E r \in rows : r.rule = x
  <2>1. x \in HitRules(w) /\ (x \notin RulesIn(snap[w]) \/ x \in RulesIn(ReportsOf(g)))
    BY <1>4a, <1>10
  <2>2. CASE x \in RulesIn(ReportsOf(g))
    <3>1. PICK q \in ReportsOf(g) : q.rule = x
      BY <1>3, <2>2
    <3>2. q.account = M(w).account
      BY <1>4a, <1>4b, <1>10, <2>1, <3>1
    <3> QED
      BY <1>8, <2>1, <3>1, <3>2
  <2>3. CASE x \notin RulesIn(snap[w])
    <3>1. [host |-> H(w), rule |-> x, upload |-> upl[w], msg |-> job[w], account |-> M(w).account, since |-> job[w]] \in Inserted(w)
      BY <2>1, <2>3 DEF Inserted
    <3> QED
      BY <3>1
  <2> QED
    BY <2>1, <2>2, <2>3
<1> HIDE DEF rows
<1>11. {Shown(r)' : r \in rows} = {Fresh(x) : x \in R}
  BY <1>9, <1>10
<1> QED
  BY <1>1, <1>11 DEF rows

\* A shown report with another upload row.
LEMMA FromReplaced ==
  ASSUME NEW a, NEW b, NEW c, NEW d, NEW e
  PROVE  [[rule |-> a, account |-> e, since |-> b, from |-> c] EXCEPT !.from = d]
           = [rule |-> a, account |-> e, since |-> b, from |-> d]
OBVIOUS

\* A message that stores is one Store of the abstract specification.
LEMMA StoreSteps ==
  ASSUME TypeOK, Held, Held', HostLocked, UniqueReports, Unsettled, NEW w \in Workers, Written(w)
  PROVE  \E m \in DOMAIN Messages : Promise!Store(m)
<1> PICK m, g : m = job[w] /\ g = H(w)
  OBVIOUS
<1> DEFINE new  == Updated(w) \union Inserted(w)
           left == {r \in Current[g] : Promise!Leaves(m, r)}
<1>0. /\ pc[w] = "write" /\ pc[w] # "idle" /\ pc[w] \in InTransaction /\ m \in DOMAIN log /\ g \in Hosts /\ M(w) = log[m]
      /\ Messages[m].host = g /\ DOMAIN Messages = DOMAIN log
      /\ log' = log /\ outcome[m] = "none" /\ outcome' = [outcome EXCEPT ![m] = "success"]
  BY JobType DEF Written, Finish, InTransaction, TypeOK, Messages, H, M, Unsettled, Busy
<1>1. /\ \A r : r.host # g => (r \in reports' <=> r \in reports)
      /\ {r \in reports' : r.host = g} = Kept(w) \union new
  BY Replaced
<1>2. ReportsOf(g)' = Kept(w) \union new /\ \A h : h # g => ReportsOf(h)' = ReportsOf(h)
  BY <1>1 DEF ReportsOf
<1>3. \A h : h # g => \A r \in ReportsOf(h) : Shown(r)' = Shown(r)
  <2>1. \A h : h # g => \A r \in ReportsOf(h) : r.upload # upl[w]
    BY <1>0 DEF Held, Fit, Owned, ReportsOf
  <2>2. \A u : u.id # upl[w] => (u \in uploads' <=> u \in uploads)
    BY DEF Written, StoreReports
  <2> SUFFICES ASSUME NEW h, h # g, NEW r \in ReportsOf(h)
               PROVE  {v \in uploads' : v.id = r.upload} = {v \in uploads : v.id = r.upload}
    BY DEF Shown
  <2> QED
    BY <2>1, <2>2
<1> PICK R : R = (Messages[m].rules \ Doubt[g]) \ {r.rule : r \in Kept(w)}
  OBVIOUS
<1>4. {Shown(r)' : r \in new} = Promise!Renewed(m, R)
  BY <1>0, RenewedMeans
<1>5. Doubt' = [Doubt EXCEPT ![g] = {}]
  <2>1. \A h : h # g => RulesIn(ReportsOf(h))' = RulesIn(ReportsOf(h))
    BY <1>2 DEF RulesIn
  <2> QED
    BY <1>0, <2>1, DoubtSettled DEF Held, Written
<1>6. /\ Current[g] = {Shown(r) : r \in ReportsOf(g)}
      /\ \A r : Shown(r).rule = r.rule
      /\ \A r : Shown(r) = [rule |-> r.rule, account |-> r.account, since |-> r.since, from |-> Shown(r).from]
      /\ \A r : Shown(r)' = [rule |-> r.rule, account |-> r.account, since |-> r.since, from |-> Shown(r).from']
  BY <1>0 DEF Current, Shown
<1>7. left = {Shown(r) : r \in Kept(w)}
  <2>1. \A r : Promise!Leaves(m, Shown(r)) <=> LeftBy(m, r)
    BY <1>0, LeavesMeans
  <2> QED
    BY <1>6, <2>1 DEF Kept
<1>7a. R = (Messages[m].rules \ Doubt[g]) \ {c.rule : c \in left}
  <2>1. \A r : Shown(r).rule = r.rule
    BY <1>6
  <2>2. {c.rule : c \in {Shown(r) : r \in Kept(w)}} = {r.rule : r \in Kept(w)}
    BY <2>1
  <2> QED
    BY <1>7, <2>2
<1>8. \A r \in Kept(w) : Shown(r).from' \subseteq DOMAIN log /\ Shown(r).from' \subseteq Shown(r).from \union {m}
  <2>1. \A r \in Kept(w) : r \in reports'
    BY <1>2 DEF ReportsOf
  <2>2. \A u \in uploads' : u \in uploads \/ u.msg = m
    BY DEF Written, StoreReports
  <2>3. \A r : /\ Shown(r).from = {r.msg} \union {u.msg : u \in {v \in uploads : v.id = r.upload}}
               /\ Shown(r).from' = {r.msg} \union {u.msg : u \in {v \in uploads' : v.id = r.upload}}
    BY DEF Shown
  <2>4. \A r : Shown(r).from' \subseteq Shown(r).from \union {m}
    BY <2>2, <2>3
  <2> QED
    BY <1>0, <2>1, <2>4 DEF Shown, Held, Sourced
<1>9. \A r, s \in Kept(w) : r.rule = s.rule => r = s
  BY DEF Kept, ReportsOf, UniqueReports
<1>10. \A r, f : [Shown(r) EXCEPT !.from = f] = [rule |-> r.rule, account |-> r.account, since |-> r.since, from |-> f]
  <2> SUFFICES ASSUME NEW r, NEW f
               PROVE  [Shown(r) EXCEPT !.from = f] = [rule |-> r.rule, account |-> r.account, since |-> r.since, from |-> f]
    OBVIOUS
  <2>1. Shown(r) = [rule |-> r.rule, account |-> r.account, since |-> r.since, from |-> Shown(r).from]
    BY <1>6
  <2> QED
    BY <2>1, FromReplaced
<1> PICK old, kept : old = left /\ kept = Kept(w)
  OBVIOUS
<1> PICK was, now : was = [r \in kept |-> Shown(r)] /\ now = [r \in kept |-> Shown(r).from']
  OBVIOUS
<1>11. PICK from : from = [c \in old |-> now[CHOOSE r \in kept : was[r] = c]]
  OBVIOUS
<1>12. from \in [old -> SUBSET DOMAIN Messages]
  <2>1. \A c \in old : \E r \in kept : was[r] = c
    BY <1>7
  <2>2. \A r \in kept : now[r] \in SUBSET DOMAIN Messages
    BY <1>0, <1>8
  <2> QED
    BY <1>11, <2>1, <2>2
<1>13. \A r \in kept : Shown(r)' = [Shown(r) EXCEPT !.from = from[Shown(r)]]
  <2> SUFFICES ASSUME NEW r \in kept PROVE Shown(r)' = [Shown(r) EXCEPT !.from = from[Shown(r)]]
    OBVIOUS
  <2>1. \A q \in kept : was[q] = Shown(r) => q = r
    BY <1>6, <1>9
  <2>2. Shown(r) \in old /\ was[r] = Shown(r)
    BY <1>7
  <2>3. (CHOOSE q \in kept : was[q] = Shown(r)) = r
    BY <2>1, <2>2
  <2>4. from[Shown(r)] = now[r] /\ now[r] = Shown(r).from'
    BY <1>11, <2>2, <2>3
  <2> QED
    <3>1. Shown(r)' = [rule |-> r.rule, account |-> r.account, since |-> r.since, from |-> now[r]]
      BY <1>6, <2>4
    <3>2. [Shown(r) EXCEPT !.from = now[r]] = [rule |-> r.rule, account |-> r.account, since |-> r.since, from |-> now[r]]
      BY <1>10
    <3> QED
      BY <2>4, <3>1, <3>2
<1>13a. \A c \in old : from[c] \subseteq c.from \union {m}
  <2>1. \A c \in old : \E r \in kept : was[r] = c
    BY <1>7
  <2>2. \A r \in kept : now[r] \subseteq was[r].from \union {m}
    BY <1>8
  <2> QED
    BY <1>11, <2>1, <2>2
<1>14. {Shown(r)' : r \in Kept(w)} = {[c EXCEPT !.from = from[c]] : c \in old}
  <2>1. old = {Shown(r) : r \in kept}
    BY <1>7
  <2> DEFINE after(c) == [c EXCEPT !.from = from[c]]
  <2>2. \A r \in kept : Shown(r)' = after(Shown(r))
    BY <1>13
  <2> HIDE DEF after
  <2>3. {Shown(r)' : r \in kept} = {after(c) : c \in old}
    BY <2>1, <2>2
  <2> QED
    BY <2>3 DEF after
<1>15. Current' = [Current EXCEPT ![g] = Promise!Renewed(m, R) \union {[c EXCEPT !.from = from[c]] : c \in old}]
  <2>1. Current' = [h \in Hosts |-> {Shown(r)' : r \in ReportsOf(h)'}]
    BY DEF Current
  <2> HIDE DEF new
  <2>2. {Shown(r)' : r \in ReportsOf(g)'} = {Shown(r)' : r \in new} \union {Shown(r)' : r \in Kept(w)}
    BY <1>2
  <2>3. \A h \in Hosts : h # g => {Shown(r)' : r \in ReportsOf(h)'} = Current[h]
    BY <1>2, <1>3 DEF Current
  <2> QED
    BY <1>4, <1>14, <2>1, <2>2, <2>3 DEF Current
<1> HIDE DEF left
<1>16. old = LeftOf(m) /\ R = NewOf(m) /\ g = Messages[m].host
  BY <1>0, <1>7a DEF left, LeftOf, NewOf
<1>17. StayOf(m, from) = {[c EXCEPT !.from = from[c]] : c \in old}
  BY <1>16 DEF StayOf
<1>18. Promise!Store(m)
  <2>1. Current' = [Current EXCEPT ![Messages[m].host] = Promise!Renewed(m, NewOf(m)) \union StayOf(m, from)]
    BY <1>15, <1>16, <1>17
  <2>2. UNCHANGED Messages /\ Doubt' = [Doubt EXCEPT ![Messages[m].host] = {}]
    BY <1>0, <1>5, MessagesStay
  <2>3. from \in [LeftOf(m) -> SUBSET DOMAIN Messages] /\ \A r \in LeftOf(m) : from[r] \subseteq r.from \union {m}
    BY <1>12, <1>13a, <1>16
  <2> QED
    BY <1>0, <2>1, <2>2, <2>3, StoreMeans
<1> QED
  BY <1>0, <1>18

\* Every step of the Advisor Service is one of the abstract specification, or
\* none.
LEMMA PromiseStep ==
  ASSUME TypeOK, Held, Held', HostLocked, UniqueReports, Unsettled, Together, [Next]_vars
  PROVE  [Promise!Next]_(Promise!vars)
<1>0. Tidy /\ Tidy' /\ DOMAIN Messages = DOMAIN log /\ \A w \in Workers : Stops(w) => job[w] \in DOMAIN log /\ H(w) \in Hosts
  BY JobType DEF Held, Stops, Ends, TypeOK, Messages
<1>1. CASE Goes
  BY <1>0, <1>1, StutterSteps
<1>2. CASE PollMalformed
  BY <1>0, <1>2, MalformedStep DEF Promise!Next, Messages
<1>3. ASSUME NEW w \in Workers, Stops(w) PROVE Promise!Next
  BY <1>0, <1>3, DropSteps DEF Promise!Next, Messages
<1>4. ASSUME NEW w \in Workers, Moves(w) PROVE [Promise!Next]_(Promise!vars)
  <2>1. CASE LockHost(w) \/ GetUpload(w) \/ SelectUploads(w) \/ DeleteCascade(w)
    BY <1>0, <2>1, StutterSteps
  <2>2. CASE Written(w)
    BY <2>2, StoreSteps DEF Promise!Next, Messages
  <2>3. CASE DeleteUploads(w) \/ DeleteReports(w)
    <3>1. \E h \in Hosts : Promise!Erase(h)
      <4>1. H(w) \in Hosts
        BY <2>3, JobType DEF DeleteUploads, DeleteReports, TypeOK
      <4>2. Promise!Erase(H(w))
        BY <1>0, <2>3, UploadsErased, ReportsErased
      <4> QED
        BY <4>1, <4>2
    <3> QED
      BY <3>1 DEF Promise!Next
  <2> QED
    BY <1>4, <2>1, <2>2, <2>3 DEF Moves
<1>5. ASSUME NEW h \in Hosts, ReplDelete(h) PROVE Promise!Next
  BY <1>0, <1>5, HostErased DEF Promise!Next
<1> QED
  BY <1>0, <1>1, <1>2, <1>3, <1>4, <1>5, StepKinds

\* The Host row lock makes a message's upload one step, whatever runs beside it
\* and however it ends (create_db_reports, handle_inventory_event and the
\* replication service's deletes): the rows and locks implement HostReports.
THEOREM PromiseKept == Spec => KeepsPromise
<1>1. Init => Promise!Init
  <2> SUFFICES ASSUME Init PROVE Promise!Init
    OBVIOUS
  <2>1. \A h : ReportsOf(h) = {} /\ Doubtful(h) = {}
    BY DEF Init, ReportsOf, Doubtful
  <2> QED
    BY <2>1 DEF Init, Promise!Init
<1>2. /\ TypeOK /\ Held /\ Held' /\ HostLocked /\ UniqueReports /\ Unsettled /\ Together /\ [Next]_vars
      => [Promise!Next]_(Promise!vars)
  BY PromiseStep
<1> QED
  BY <1>1, <1>2, TypeCorrect, LocksHold, HeldHolds, UnsettledHolds, TogetherHolds, PTL DEF Spec, KeepsPromise, Promise!Spec
=============================================================================
