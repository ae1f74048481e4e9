------------------- MODULE InventoryReplication_proofs -------------------
(***************************************************************************)
(* Theorems about the inventory replication service, for every partition,  *)
(* consumer group, batch size and number of faults: no event is lost, the  *)
(* replica converges to what the events say, and the tables agree.         *)
(***************************************************************************)
EXTENDS InventoryReplication, WellFoundedInduction, TLAPS

\* Offsets are numbers, and the events of the log are events.
LEMMA LogType ==
  ASSUME log \in Logs
  PROVE  /\ Len(log) \in Nat
         /\ \A i \in 1..Len(log) : log[i].host \in Hosts /\ log[i].updated \in Nat
<1>1. log \in Seq(Event)
  BY ReplicationAssumption DEF ReplicationAssumption
<1>2. Len(log) \in Nat /\ \A i \in 1..Len(log) : log[i] \in Event
  BY <1>1
<1> QED
  BY <1>2 DEF Event

\* What a consumer is to write stays inside its batch when both stay, or when
\* there is nothing to write.
LEMMA FreshKept ==
  ASSUME FreshInBatch, log' = log,
         \A d \in Consumers :
           \/ fresh'[d] = {}
           \/ /\ fresh'[d] = fresh[d] /\ pos'[d] = pos[d] /\ last'[d] = last[d]
              /\ pc'[d] = "poll" => pc[d] = "poll"
  PROVE  FreshInBatch'
  BY DEF FreshInBatch, Upserts, Batch

\* Positions and batches lie inside the log.
LEMMA BatchBounds ==
  ASSUME TypeOK, NEW c \in Consumers
  PROVE  /\ Len(log) \in Nat /\ committed \in 0..Len(log)
         /\ pos[c] \in 0..Len(log) /\ last[c] \in 0..Len(log)
         /\ Batch(c) \subseteq 1..Len(log) /\ Upserts(c) \subseteq Batch(c)
         /\ fresh[c] \subseteq Upserts(c)
         /\ pc[c] = "poll" => fresh[c] = {}
<1>1. Len(log) \in Nat
  BY LogType DEF TypeOK, KafkaType
<1> QED
  BY <1>1 DEF TypeOK, KafkaType, ConsumerType, FreshInBatch, Batch, Upserts

\* The steps that handle a batch (handle_inventory_event) keep the types.
LEMMA BatchType ==
  ASSUME TypeOK, NEW c \in Consumers,
         Poll(c) \/ BulkDelete(c) \/ FilterStale(c) \/ BulkUpsert(c)
  PROVE  TypeOK'
<1> USE DEF Goto, kafkaVars, rowVars, budgetVars, historyVars
<1>1. CASE Poll(c)
  <2>1. PICK n \in 1..BatchSize : /\ pos[c] + n <= Len(log)
                                  /\ last' = [last EXCEPT ![c] = pos[c] + n]
    BY <1>1 DEF Poll
  <2>2. pos[c] + n \in 0..Len(log)
    BY <2>1, BatchBounds, ReplicationAssumption DEF ReplicationAssumption
  <2>3. ConsumerType'
    BY <1>1, <2>1, <2>2 DEF Poll, TypeOK, ConsumerType, Points
  <2>4. FreshInBatch'
    <3>1. fresh[c] = {} /\ UNCHANGED <<log, fresh, pos>>
      BY <1>1, BatchBounds DEF Poll
    <3>2. \A d \in Consumers : d # c => last'[d] = last[d] /\ pc'[d] = pc[d]
      BY <1>1, <2>1 DEF Poll, TypeOK, ConsumerType
    <3> QED
      BY <3>1, <3>2, FreshKept DEF TypeOK
  <2> QED
    BY <1>1, <2>3, <2>4 DEF Poll, TypeOK, KafkaType, RowType, CountType, HistoryType
<1>2. CASE BulkDelete(c)
  <2>1. RowType' /\ overtaken' \subseteq Hosts
    BY <1>2 DEF BulkDelete, OutOfOrder, TypeOK, RowType, HistoryType
  <2>2. ConsumerType'
    BY <1>2 DEF BulkDelete, TypeOK, ConsumerType, Points
  <2>3. FreshInBatch'
    BY <1>2, FreshKept DEF BulkDelete, TypeOK, ConsumerType
  <2> QED
    BY <1>2, <2>1, <2>2, <2>3 DEF BulkDelete, TypeOK, KafkaType, CountType, HistoryType
<1>3. CASE FilterStale(c)
  <2>1. Fresh(c) \subseteq Upserts(c) /\ Fresh(c) \subseteq 1..Len(log)
    BY BatchBounds DEF Fresh, Deduped
  <2>2. ConsumerType'
    BY <1>3, <2>1 DEF FilterStale, TypeOK, ConsumerType, Points
  <2>3. FreshInBatch'
    <3>1. UNCHANGED <<log, pos, last>>
      BY <1>3 DEF FilterStale
    <3>2. \A d \in Consumers : /\ fresh'[d] \subseteq Upserts(d)
                               /\ pc'[d] = "poll" => fresh'[d] = {}
      BY <1>3, <2>1 DEF FilterStale, TypeOK, ConsumerType, FreshInBatch
    <3> QED
      BY <3>1, <3>2 DEF FreshInBatch, Upserts, Batch
  <2> QED
    BY <1>3, <2>2, <2>3 DEF FilterStale, TypeOK, KafkaType, RowType, CountType, HistoryType
<1>4. CASE BulkUpsert(c)
  <2>1. \A i \in fresh[c] : log[i].host \in Hosts /\ log[i].updated \in Nat
    BY BatchBounds, LogType DEF TypeOK, KafkaType
  <2>2. FreshHosts(c) \subseteq Hosts
    BY <2>1 DEF FreshHosts
  <2>3. \A h \in FreshHosts(c) : log[CHOOSE i \in fresh[c] : log[i].host = h].updated \in Nat
    BY <2>1 DEF FreshHosts
  <2>4. RowType' /\ overtaken' \subseteq Hosts
    BY <1>4, <2>2, <2>3 DEF BulkUpsert, UpsertedHosts, OutOfOrder, TypeOK, RowType, HistoryType
  <2>5. ConsumerType'
    BY <1>4 DEF BulkUpsert, TypeOK, ConsumerType, Points
  <2>6. FreshInBatch'
    BY <1>4, FreshKept DEF BulkUpsert, TypeOK, ConsumerType
  <2> QED
    BY <1>4, <2>4, <2>5, <2>6 DEF BulkUpsert, TypeOK, KafkaType, CountType, HistoryType
<1> QED
  BY <1>1, <1>2, <1>3, <1>4

\* Commits, failures, restarts and rebalances (_receive_batch) keep the types.
LEMMA LoopType ==
  ASSUME TypeOK, NEW c \in Consumers,
         \/ Commit(c) \/ CommitFails(c) \/ HandlerFails(c) \/ Crash(c)
         \/ Restart(c) \/ Rebalance(c)
  PROVE  TypeOK'
<1> USE DEF Goto, kafkaVars, rowVars, budgetVars, historyVars
<1>1. CASE Commit(c) \/ CommitFails(c)
  <2>1. NextBatch(c) /\ committed' \in 0..Len(log) /\ faults' \in Nat
    BY <1>1, BatchBounds DEF Commit, CommitFails, TypeOK, CountType
  <2>2. ConsumerType'
    BY <2>1, BatchBounds DEF NextBatch, TypeOK, ConsumerType, Points
  <2>3. HistoryType'
    BY <2>1, BatchBounds DEF NextBatch, TypeOK, HistoryType
  <2>4. FreshInBatch'
    BY <2>1, FreshKept DEF NextBatch, TypeOK, ConsumerType
  <2> QED
    BY <2>1, <2>2, <2>3, <2>4 DEF NextBatch, TypeOK, KafkaType, RowType, CountType
<1>2. CASE HandlerFails(c) \/ Crash(c)
  <2>1. ConsumerType'
    BY <1>2 DEF HandlerFails, Crash, TypeOK, ConsumerType, Points
  <2>2. FreshInBatch'
    BY <1>2, FreshKept DEF HandlerFails, Crash, TypeOK, ConsumerType
  <2>3. CountType'
    BY <1>2 DEF HandlerFails, Crash, TypeOK, CountType
  <2>4. UNCHANGED <<kafkaVars, rowVars, cull, historyVars>>
    BY <1>2 DEF HandlerFails, Crash
  <2>5. KafkaType' /\ RowType' /\ HistoryType'
    BY <2>4 DEF TypeOK, KafkaType, RowType, HistoryType
  <2> QED
    BY <2>1, <2>2, <2>3, <2>5 DEF TypeOK
<1>3. CASE Restart(c)
  <2>1. ConsumerType'
    BY <1>3, BatchBounds DEF Restart, Resume, TypeOK, ConsumerType, Points
  <2>2. FreshInBatch'
    BY <1>3, FreshKept DEF Restart, TypeOK, ConsumerType
  <2> QED
    BY <1>3, <2>1, <2>2 DEF Restart, TypeOK, KafkaType, RowType, CountType, HistoryType
<1>4. CASE Rebalance(c)
  <2>1. ConsumerType'
    BY <1>4, BatchBounds DEF Rebalance, Resume, TypeOK, ConsumerType
  <2>2. FreshInBatch'
    <3>1. fresh[c] = {} /\ UNCHANGED <<log, fresh, pc>>
      BY <1>4, BatchBounds DEF Rebalance
    <3>2. \A d \in Consumers : d # c => pos'[d] = pos[d] /\ last'[d] = last[d]
      BY <1>4 DEF Rebalance, TypeOK, ConsumerType
    <3> QED
      BY <3>1, <3>2, FreshKept DEF TypeOK
  <2>3. moves' \in Nat
    BY <1>4 DEF Rebalance, TypeOK, CountType
  <2> QED
    BY <1>4, <2>1, <2>2, <2>3 DEF Rebalance, TypeOK, KafkaType, RowType, CountType, HistoryType
<1> QED
  BY <1>1, <1>2, <1>3, <1>4

\* The other writers of the tables keep the types.
LEMMA OthersType ==
  ASSUME TypeOK, (\E h \in Hosts : Ingest(h)) \/ CullSelect \/ CullDelete \/ Drained
                 \/ UNCHANGED vars
  PROVE  TypeOK'
<1>1. UNCHANGED <<kafkaVars, consumerVars, historyVars>>
  BY DEF Ingest, CullSelect, CullDelete, Drained, vars
<1>2. KafkaType' /\ ConsumerType' /\ HistoryType'
  BY <1>1 DEF kafkaVars, consumerVars, historyVars, TypeOK, KafkaType, ConsumerType, HistoryType
<1>3. FreshInBatch'
  BY <1>1, FreshKept DEF kafkaVars, consumerVars, TypeOK
<1>4. RowType' /\ CountType'
  BY DEF Ingest, CullSelect, CullDelete, Drained, vars, rowVars, budgetVars, TypeOK,
     RowType, CountType
<1> QED
  BY <1>2, <1>3, <1>4 DEF TypeOK

\* Types hold initially and in every step.
THEOREM TypeCorrect == Spec => []TypeOK
<1>1. Init => TypeOK
  BY LogType DEF Init, TypeOK, KafkaType, ConsumerType, FreshInBatch, RowType, CountType,
     HistoryType, Points
<1>2. TypeOK /\ [Next]_vars => TypeOK'
  BY BatchType, LoopType, OthersType DEF Next, Consumer, Environment
<1> QED
  BY <1>1, <1>2, PTL DEF Spec

-----------------------------------------------------------------------------
\* What the live owner of the partition has read was handled: it starts at the
\* committed offset and passes a batch only when its handler returned.
ReadHandled == pc[owner] # "down" => 1..pos[owner] \subseteq handled

\* No event is lost: a committed offset stands for handled events, for every
\* partition and any number of crashes, failed commits and rebalances.
THEOREM NothingLost == Spec => []CommittedHandled
<1>1. Init => CommittedHandled /\ ReadHandled
  BY DEF Init, CommittedHandled, ReadHandled
<1>2. TypeOK /\ CommittedHandled /\ ReadHandled /\ [Next]_vars
      => (CommittedHandled /\ ReadHandled)'
  <2> SUFFICES ASSUME TypeOK, CommittedHandled, ReadHandled, [Next]_vars
               PROVE  CommittedHandled' /\ ReadHandled'
    OBVIOUS
  <2> USE DEF Goto, kafkaVars, consumerVars, budgetVars, historyVars
  <2>1. ASSUME NEW c \in Consumers, Poll(c) \/ BulkDelete(c) \/ FilterStale(c) \/ BulkUpsert(c)
        PROVE  CommittedHandled' /\ ReadHandled'
    <3>1. UNCHANGED <<committed, owner, pos, handled>> /\ pc[c] # "down"
      BY <2>1 DEF Poll, BulkDelete, FilterStale, BulkUpsert
    <3>2. pc'[owner] # "down" => pc[owner] # "down"
      BY <2>1, <3>1 DEF Poll, BulkDelete, FilterStale, BulkUpsert, TypeOK, ConsumerType, KafkaType
    <3> QED
      BY <3>1, <3>2 DEF CommittedHandled, ReadHandled
  <2>2. ASSUME NEW c \in Consumers, Commit(c) \/ CommitFails(c)
        PROVE  CommittedHandled' /\ ReadHandled'
    <3>1. /\ handled' = handled \union Batch(c) /\ owner' = owner /\ pc[c] = "commit"
          /\ pos' = [pos EXCEPT ![c] = last[c]] /\ pc' = [pc EXCEPT ![c] = "poll"]
      BY <2>2 DEF Commit, CommitFails, NextBatch
    <3>2. pos[c] \in Nat /\ last[c] \in Nat
      BY BatchBounds
    <3>3. owner = c => 1..last[c] \subseteq handled'
      BY <3>1, <3>2 DEF ReadHandled, Batch
    <3>4. committed' = committed \/ (owner = c /\ committed' = last[c])
      BY <2>2 DEF Commit, CommitFails
    <3>5. CommittedHandled'
      BY <3>1, <3>3, <3>4 DEF CommittedHandled
    <3>6. ReadHandled'
      BY <3>1, <3>3 DEF ReadHandled, TypeOK, ConsumerType, KafkaType
    <3> QED
      BY <3>5, <3>6
  <2>3. ASSUME NEW c \in Consumers, HandlerFails(c) \/ Crash(c)
        PROVE  CommittedHandled' /\ ReadHandled'
    BY <2>3 DEF HandlerFails, Crash, CommittedHandled, ReadHandled, TypeOK, ConsumerType, KafkaType
  <2>4. ASSUME NEW c \in Consumers, Restart(c) \/ Rebalance(c)
        PROVE  CommittedHandled' /\ ReadHandled'
    BY <2>4 DEF Restart, Rebalance, Resume, CommittedHandled, ReadHandled, TypeOK, ConsumerType, KafkaType
  <2>5. CASE (\E h \in Hosts : Ingest(h)) \/ CullSelect \/ CullDelete \/ Drained
             \/ UNCHANGED vars
    BY <2>5 DEF Ingest, CullSelect, CullDelete, Drained, vars, CommittedHandled, ReadHandled
  <2> QED
    BY <2>1, <2>2, <2>3, <2>4, <2>5 DEF Next, Consumer, Environment
<1> QED
  BY <1>1, <1>2, TypeCorrect, PTL DEF Spec

-----------------------------------------------------------------------------
\* What refers to a host refers to a Host row, and until a cull has selected
\* rows each inventory row has its Host row (bulk_upsert_hosts writes both).
NothingCulled == culls = 0 => cull = {}

\* The two tables agree, whatever consumers, uploads, failures and culls do.
THEOREM TablesStayInStep == Spec => []TablesAgree
<1>1. Init => TablesAgree /\ NothingCulled
  BY DEF Init, TablesAgree, NothingCulled
<1>2. TypeOK /\ TablesAgree /\ NothingCulled /\ [Next]_vars => (TablesAgree /\ NothingCulled)'
  <2> SUFFICES ASSUME TypeOK, TablesAgree, NothingCulled, [Next]_vars
               PROVE  TablesAgree' /\ NothingCulled'
    OBVIOUS
  <2> USE DEF TypeOK, RowType, CountType, TablesAgree, NothingCulled
  <2>1. ASSUME NEW c \in Consumers, BulkDelete(c)
        PROVE  TablesAgree' /\ NothingCulled'
    BY <2>1 DEF BulkDelete, budgetVars
  <2>2. ASSUME NEW c \in Consumers, BulkUpsert(c)
        PROVE  TablesAgree' /\ NothingCulled'
    <3>1. /\ hostRows' = hostRows \union FreshHosts(c)
          /\ \A h \in Hosts \ FreshHosts(c) : inventory'[h] = inventory[h]
          /\ UNCHANGED <<dependents, cull, culls>>
      BY <2>2 DEF BulkUpsert, UpsertedHosts, budgetVars
    <3> QED
      BY <3>1
  <2>3. CASE CullSelect
    BY <2>3 DEF CullSelect, rowVars
  <2>4. CASE CullDelete
    BY <2>4 DEF CullDelete, budgetVars
  <2>5. ASSUME NEW h \in Hosts, Ingest(h)
        PROVE  TablesAgree' /\ NothingCulled'
    BY <2>5 DEF Ingest
  <2>6. CASE UNCHANGED <<rowVars, cull, culls>>
    BY <2>6 DEF rowVars
  <2> QED
    BY <2>1, <2>2, <2>3, <2>4, <2>5, <2>6
    DEF Next, Consumer, Environment, Poll, FilterStale, Commit, CommitFails, NextBatch,
        HandlerFails, Crash, Restart, Rebalance, Drained, vars, budgetVars
<1> QED
  BY <1>1, <1>2, TypeCorrect, PTL DEF Spec

-----------------------------------------------------------------------------
(***************************************************************************)
(* Convergence.  First the value of Final, which is defined by recursion   *)
(* over the log: the latest 'updated' among the upserts that no delete     *)
(* follows.  Induction over a set of numbers replaces the schema.          *)
(***************************************************************************)

\* Every set of numbers has a least one.
LEMMA LeastNumber ==
  ASSUME NEW T \in SUBSET Nat, T # {}
  PROVE  \E x \in T : \A y \in T : x <= y
<1> DEFINE R == {ss \in Nat \X Nat : ss[1] < ss[2]}
<1>1. IsWellFoundedOn(R, Nat)
  BY NatLessThanWellFounded, SMT DEF OpToRel
<1>2. \A x, y \in Nat : <<y, x>> \notin R => x <= y
  OBVIOUS
<1> HIDE DEF R
<1>3. \E x \in T : \A y \in T : ~(<<y, x>> \in R)
  BY <1>1, WFMin
<1> QED
  BY <1>2, <1>3

\* Induction over the numbers up to n.
LEMMA Induction ==
  ASSUME NEW n \in Nat, NEW T, 0 \in T,
         \A k \in 0..(n - 1) : k \in T => k + 1 \in T
  PROVE  0..n \subseteq T
<1> SUFFICES ASSUME (0..n) \ T # {} PROVE FALSE
  OBVIOUS
<1>1. PICK x \in (0..n) \ T : \A y \in (0..n) \ T : x <= y
  <2>1. (0..n) \ T \in SUBSET Nat
    OBVIOUS
  <2> QED
    BY <2>1, LeastNumber
<1>2. x - 1 \in 0..(n - 1) /\ x - 1 \in T
  BY <1>1
<1> QED
  BY <1>1, <1>2

\* The value that the events of h up to n leave, as Final defines it.
AfterOf(f, h, n) ==
  f = [i \in 0..n |->
        IF i = 0 THEN 0
        ELSE IF log[i].host # h \/ log[i].type = "skipped" THEN f[i - 1]
        ELSE IF log[i].type = "delete" THEN 0
        ELSE IF log[i].updated > f[i - 1] THEN log[i].updated ELSE f[i - 1]]

\* The recursion has a solution: that of n is extended to n + 1.
LEMMA FinalDefined ==
  ASSUME Len(log) \in Nat, NEW h
  PROVE  \E f : AfterOf(f, h, Len(log)) /\ Final(h) = f[Len(log)]
<1> DEFINE N == Len(log)
           T == {n \in 0..N : \E f : AfterOf(f, h, n)}
<1>1. 0 \in T
  <2>1. AfterOf([i \in 0..0 |-> 0], h, 0)
    BY DEF AfterOf
  <2> QED
    BY <2>1
<1>2. ASSUME NEW k \in 0..(N - 1), k \in T
      PROVE  k + 1 \in T
  <2>1. PICK f : AfterOf(f, h, k)
    BY <1>2
  <2> DEFINE v == IF log[k + 1].host # h \/ log[k + 1].type = "skipped" THEN f[k]
                  ELSE IF log[k + 1].type = "delete" THEN 0
                  ELSE IF log[k + 1].updated > f[k] THEN log[k + 1].updated ELSE f[k]
             g == [i \in 0..(k + 1) |-> IF i = k + 1 THEN v ELSE f[i]]
  <2>2. AfterOf(g, h, k + 1)
    BY <2>1, SMTT(30) DEF AfterOf
  <2> QED
    BY <2>2
<1>3. N \in T
  <2> HIDE DEF T
  <2>1. 0..N \subseteq T
    BY <1>1, <1>2, Induction
  <2> QED
    BY <2>1
<1> DEFINE F == CHOOSE f : AfterOf(f, h, N)
<1>4. AfterOf(F, h, N)
  BY <1>3
<1>5. Final(h) = F[N]
  BY DEF Final, AfterOf
<1> QED
  BY <1>4, <1>5

\* The deletes of h after position k, up to n; the upserts of h that none follows.
Deletes(h, k, n) == {j \in (k + 1)..n : log[j].type = "delete" /\ log[j].host = h}
Live(h, n) == {i \in 1..n : /\ log[i].type = "upsert" /\ log[i].host = h
                            /\ Deletes(h, i, n) = {}}

\* v is the latest of the live upserts of h that stand up to k.
LatestOf(v, h, k, n) ==
  /\ v = 0 \/ \E i \in Live(h, n) : v = log[i].updated
  /\ \A i \in Live(h, n) : i <= k => log[i].updated <= v

\* The events of the log have the three types, and dates after 0.
LEMMA EventType ==
  ASSUME log \in Logs
  PROVE  \A i \in 1..Len(log) : /\ log[i].type \in {"upsert", "delete", "skipped"}
                                /\ log[i].updated \in Nat \ {0}
<1>1. log \in Seq(Event)
  BY ReplicationAssumption DEF ReplicationAssumption
<1>2. Len(log) \in Nat /\ \A i \in 1..Len(log) : log[i] \in Event
  BY <1>1
<1> QED
  BY <1>2 DEF Event

\* What Final computes is the latest of all live upserts.
LEMMA FinalValue ==
  ASSUME log \in Logs, NEW h, NEW v \in Nat, LatestOf(v, h, Len(log), Len(log))
  PROVE  Final(h) = v
<1> DEFINE N == Len(log)
<1>1. N \in Nat /\ \A i \in 1..N : /\ log[i].type \in {"upsert", "delete", "skipped"}
                                  /\ log[i].updated \in Nat \ {0}
  BY LogType, EventType
<1>2. PICK f : AfterOf(f, h, N) /\ Final(h) = f[N]
  BY <1>1, FinalDefined
<1> DEFINE T == {n \in 0..N : f[n] \in Nat /\ LatestOf(f[n], h, n, n)}
<1>3. 0 \in T
  BY <1>1, <1>2 DEF AfterOf, LatestOf, Live
<1>4. ASSUME NEW k \in 0..(N - 1), k \in T
      PROVE  k + 1 \in T
  <2>1. f[k] \in Nat /\ LatestOf(f[k], h, k, k) /\ k + 1 \in 1..N
    BY <1>1, <1>4
  <2>2. f[k + 1] = IF log[k + 1].host # h \/ log[k + 1].type = "skipped" THEN f[k]
                   ELSE IF log[k + 1].type = "delete" THEN 0
                   ELSE IF log[k + 1].updated > f[k] THEN log[k + 1].updated ELSE f[k]
    BY <1>1, <1>2, <2>1 DEF AfterOf
  <2>3. CASE log[k + 1].host # h \/ log[k + 1].type = "skipped"
    <3>1. Live(h, k + 1) = Live(h, k)
      BY <1>1, <2>1, <2>3 DEF Live, Deletes
    <3>2. \A i \in Live(h, k) : i <= k /\ i <= k + 1
      BY <1>1, <2>1 DEF Live
    <3>3. f[k + 1] = f[k]
      BY <2>2, <2>3
    <3> QED
      BY <2>1, <3>1, <3>2, <3>3 DEF LatestOf
  <2>4. CASE log[k + 1].host = h /\ log[k + 1].type = "delete"
    <3>1. Live(h, k + 1) = {}
      <4>1. \A i \in 1..k : k + 1 \in Deletes(h, i, k + 1)
        BY <2>1, <2>4 DEF Deletes
      <4> QED
        BY <1>1, <2>1, <2>4, <4>1 DEF Live
    <3> QED
      BY <2>1, <2>2, <2>4, <3>1 DEF LatestOf
  <2>5. CASE log[k + 1].host = h /\ log[k + 1].type = "upsert"
    <3>1. Live(h, k + 1) = Live(h, k) \union {k + 1}
      BY <1>1, <2>1, <2>5 DEF Live, Deletes
    <3>2. \A i \in Live(h, k) : i <= k /\ log[i].updated \in Nat
      BY <1>1, <2>1 DEF Live
    <3> QED
      BY <1>1, <2>1, <2>2, <2>5, <3>1, <3>2 DEF LatestOf
  <2> QED
    BY <1>1, <2>1, <2>3, <2>4, <2>5
<1>5. f[N] \in Nat /\ LatestOf(f[N], h, N, N)
  <2> HIDE DEF T
  <2>1. 0..N \subseteq T
    BY <1>1, <1>3, <1>4, Induction
  <2> QED
    BY <1>1, <2>1 DEF T
<1>6. \A i \in Live(h, N) : i <= N /\ log[i].updated \in Nat \ {0}
  BY <1>1 DEF Live
<1> QED
  BY <1>1, <1>2, <1>5, <1>6 DEF LatestOf

(***************************************************************************)
(* The invariant: a host that nobody overtook is as if its events had been *)
(* applied one by one up to every position from which they may be applied  *)
(* again.  Where a delete is still to come, the row does not matter.       *)
(***************************************************************************)

Stands(v, h, k) ==
  Deletes(h, k, Len(log)) = {} => LatestOf(v, h, k, Len(log))

UpTo(k, h) == Stands(inventory[h], h, k)

\* Hosts whose upsert precedes a delete in the same batch.
Mixed(c) ==
  {h \in Hosts : \E i, j \in Batch(c) :
                   /\ i < j /\ log[i].host = h /\ log[j].host = h
                   /\ log[i].type = "upsert" /\ log[j].type = "delete"}

Positions ==
  /\ committed <= pos[owner]
  /\ \A c \in Consumers : pos[c] <= last[c]

\* What the steps of a batch have done for hosts that nobody overtook: deleted
\* rows are gone; what is to be written is newer than the row, and nothing in
\* the batch is newer; at the end the row is that of the batch's last event.
Mid(c) ==
  /\ pc[c] \in {"filter", "upsert", "commit"} => Mixed(c) \subseteq overtaken
  /\ pc[c] \in {"filter", "upsert"} => \A h \in Deleted(c) \ overtaken : inventory[h] = 0
  /\ pc[c] = "upsert" => \A i \in Upserts(c) : log[i].host \notin overtaken =>
       /\ log[i].host \notin FreshHosts(c) => log[i].updated <= inventory[log[i].host]
       /\ \A j \in fresh[c] : log[j].host = log[i].host =>
            /\ log[j].updated > inventory[log[i].host]
            /\ log[j].updated >= log[i].updated
  /\ pc[c] = "commit" => \A h \in Hosts \ overtaken : UpTo(last[c], h)

Replayable ==
  /\ Positions
  /\ \A h \in Hosts \ overtaken : UpTo(committed, h) /\ UpTo(pos[owner], h)
  /\ Mid(owner)

\* When all is read, the row is what Final computes.
LEMMA ReplayedAll ==
  ASSUME TypeOK, Replayable
  PROVE  Converged
<1> SUFFICES ASSUME AllRead, NEW h \in Hosts \ overtaken
             PROVE  inventory[h] = Final(h)
  BY DEF Converged
<1>1. Len(log) \in Nat /\ log \in Logs /\ inventory[h] \in Nat
  BY LogType DEF TypeOK, KafkaType, RowType
<1>2. Deletes(h, Len(log), Len(log)) = {}
  BY <1>1 DEF Deletes
<1>3. UpTo(Len(log), h)
  BY DEF Replayable, AllRead
<1> QED
  BY <1>1, <1>2, <1>3, FinalValue DEF UpTo, Stands

\* No row of a host that nobody overtook changes, and the owner stands where
\* it stood: nothing changes for its batch.
LEMMA RowsKept ==
  ASSUME TypeOK, Replayable, UNCHANGED <<log, committed, owner>>,
         overtaken \subseteq overtaken',
         \A h \in Hosts \ overtaken' : inventory'[h] = inventory[h],
         pc'[owner] = pc[owner] \/ pc'[owner] \in {"down", "poll"},
         pos'[owner] = pos[owner], last'[owner] = last[owner],
         fresh'[owner] = fresh[owner] \/ pc'[owner] \in {"down", "poll"},
         \A d \in Consumers : pos'[d] <= last'[d]
  PROVE  Replayable'
<1>1. \A h \in Hosts \ overtaken' : \A k : UpTo(k, h) => UpTo(k, h)'
  BY DEF UpTo, Stands, LatestOf, Live, Deletes
<1>2. (\A h \in Hosts \ overtaken : UpTo(committed, h) /\ UpTo(pos[owner], h))'
  BY <1>1 DEF Replayable
<1>3. Positions'
  BY DEF Replayable, Positions
<1>4. CASE pc'[owner] \in {"down", "poll"}
  BY <1>2, <1>3, <1>4 DEF Replayable, Mid
<1>5. CASE pc'[owner] \notin {"down", "poll"}
  <2>1. Batch(owner)' = Batch(owner) /\ Upserts(owner)' = Upserts(owner)
        /\ Deleted(owner)' = Deleted(owner) /\ Mixed(owner)' = Mixed(owner)
        /\ FreshHosts(owner)' = FreshHosts(owner)
    BY <1>5 DEF Batch, Upserts, Deleted, Mixed, FreshHosts
  <2>2. owner \in Consumers /\ Deleted(owner) \subseteq Hosts
        /\ \A i \in Upserts(owner) : log[i].host \in Hosts
    BY BatchBounds, LogType DEF TypeOK, KafkaType, Deleted
  <2>3. Mid(owner)'
    BY <1>1, <1>5, <2>1, <2>2 DEF Replayable, Mid
  <2> QED
    BY <1>2, <1>3, <2>3 DEF Replayable
<1> QED
  BY <1>4, <1>5

\* A batch takes the row of h from x to v: a deleted row is gone, and nothing
\* of h in the batch is later than v.
Applied(c, h, x, v) ==
  /\ h \in Hosts \ Mixed(c)
  /\ h \in Deleted(c) => x = 0
  /\ x \in Nat /\ v \in Nat /\ x <= v
  /\ v = x \/ \E j \in Upserts(c) : log[j].host = h /\ v = log[j].updated
  /\ \A i \in Upserts(c) : log[i].host = h => log[i].updated <= v

\* After the batch the row stands up to the batch's end ...
LEMMA BatchDone ==
  ASSUME TypeOK, NEW c \in Consumers, pos[c] <= last[c],
         NEW h, NEW x, NEW v, Applied(c, h, x, v), Stands(x, h, pos[c])
  PROVE  Stands(v, h, last[c])
<1> DEFINE N == Len(log)
<1> SUFFICES ASSUME Deletes(h, last[c], N) = {}
             PROVE  LatestOf(v, h, last[c], N)
  BY DEF Stands
<1>1. N \in Nat /\ pos[c] \in 0..N /\ last[c] \in 0..N
      /\ \A i \in 1..N : log[i].updated \in Nat
  BY BatchBounds, LogType DEF TypeOK, KafkaType
<1>2. \A i \in Live(h, N) : i \in 1..N /\ (i <= last[c] => i <= pos[c] \/ i \in Upserts(c))
  BY <1>1 DEF Live, Upserts, Batch
<1>3. \A j \in Upserts(c) : log[j].host = h => j \in Live(h, N)
  <2> SUFFICES ASSUME NEW j \in Upserts(c), log[j].host = h, NEW d \in Deletes(h, j, N)
               PROVE  FALSE
    BY <1>1 DEF Live, Upserts, Batch
  <2>1. d \in Batch(c) /\ j \in Batch(c) /\ j < d
    BY <1>1 DEF Deletes, Batch, Upserts
  <2> QED
    BY <2>1 DEF Deletes, Upserts, Applied, Mixed
<1>4. CASE h \in Deleted(c)
  <2>1. PICK d \in Batch(c) : log[d].type = "delete" /\ log[d].host = h
    BY <1>4 DEF Deleted
  <2>2. \A i \in Live(h, N) : ~(i <= pos[c])
    <3> SUFFICES ASSUME NEW i \in Live(h, N), i <= pos[c] PROVE d \in Deletes(h, i, N)
      BY DEF Live
    <3> QED
      BY <1>1, <1>2, <2>1 DEF Deletes, Batch
  <2> QED
    BY <1>1, <1>2, <1>3, <1>4, <2>2 DEF LatestOf, Applied, Live
<1>5. CASE h \notin Deleted(c)
  <2>1. Deletes(h, pos[c], N) = {}
    BY <1>1, <1>5 DEF Deletes, Deleted, Batch
  <2>2. LatestOf(x, h, pos[c], N)
    BY <2>1 DEF Stands
  <2> QED
    BY <1>1, <1>2, <1>3, <2>2 DEF LatestOf, Applied, Live
<1> QED
  BY <1>4, <1>5

\* ... and up to where it stood before, should the events come again.
LEMMA BatchRedone ==
  ASSUME TypeOK, NEW c \in Consumers, NEW h, NEW x, NEW v, Applied(c, h, x, v),
         NEW k \in Nat, k <= pos[c], Stands(x, h, k)
  PROVE  Stands(v, h, k)
<1> DEFINE N == Len(log)
<1> SUFFICES ASSUME Deletes(h, k, N) = {}
             PROVE  LatestOf(v, h, k, N)
  BY DEF Stands
<1>1. N \in Nat /\ pos[c] \in 0..N /\ last[c] \in 0..N
      /\ \A i \in 1..N : log[i].updated \in Nat
  BY BatchBounds, LogType DEF TypeOK, KafkaType
<1>2. LatestOf(x, h, k, N)
  BY DEF Stands
<1>3. \A j \in Upserts(c) : log[j].host = h => j \in Live(h, N)
  BY <1>1 DEF Live, Upserts, Batch, Deletes
<1> QED
  BY <1>1, <1>2, <1>3 DEF LatestOf, Applied, Live

\* Of the upserts of a host in a batch one is kept, and none is later.
LEMMA LatestKept ==
  ASSUME TypeOK, NEW c \in Consumers, NEW i \in Upserts(c)
  PROVE  \E j \in Deduped(c) : /\ log[j].host = log[i].host
                               /\ log[j].updated >= log[i].updated
<1> DEFINE N == Len(log)
           S == {j \in Upserts(c) : log[j].host = log[i].host}
           T == {n \in 0..N : \E b \in Nat : \A j \in 1..n : log[j].updated <= b}
           W == {b \in Nat : \A j \in S : log[j].updated <= b}
<1>1. N \in Nat /\ \A j \in 1..N : log[j].updated \in Nat
  BY LogType DEF TypeOK, KafkaType
<1>2. Upserts(c) \subseteq 1..N
  BY BatchBounds
<1>3. 0 \in T
  BY <1>1
<1>4. ASSUME NEW k \in 0..(N - 1), k \in T
      PROVE  k + 1 \in T
  <2>1. PICK b \in Nat : \A j \in 1..k : log[j].updated <= b
    BY <1>4
  <2>2. log[k + 1].updated \in Nat
    BY <1>1
  <2>3. PICK d \in Nat : b <= d /\ log[k + 1].updated <= d
    BY <2>2
  <2>4. \A j \in 1..(k + 1) : log[j].updated <= d
    <3> SUFFICES ASSUME NEW j \in 1..(k + 1) PROVE log[j].updated <= d
      OBVIOUS
    <3>1. j \in 1..k \/ j = k + 1
      OBVIOUS
    <3>2. log[j].updated \in Nat
      BY <1>1
    <3> QED
      BY <2>1, <2>3, <3>1, <3>2
  <2>5. k + 1 \in 0..N
    BY <1>1
  <2> QED
    BY <2>4, <2>5
<1>5. N \in T
  <2> HIDE DEF T
  <2>1. 0..N \subseteq T
    BY <1>1, <1>3, <1>4, Induction
  <2> QED
    BY <1>1, <2>1
<1>6. W # {} /\ W \in SUBSET Nat
  BY <1>2, <1>5
<1>7. PICK b \in W : \A d \in W : b <= d
  <2> HIDE DEF W
  <2> QED
    BY <1>6, LeastNumber
<1>8. \E j \in S : log[j].updated = b
  <2> SUFFICES ASSUME \A j \in S : log[j].updated # b PROVE FALSE
    OBVIOUS
  <2>1. \A j \in S : log[j].updated \in Nat /\ log[j].updated < b
    BY <1>1, <1>2, <1>7
  <2>2. i \in S
    OBVIOUS
  <2>3. b - 1 \in W
    BY <1>7, <2>1, <2>2
  <2> QED
    BY <1>7, <2>3
<1>9. PICK j \in S : log[j].updated = b /\ \A k \in S : log[k].updated = b => j <= k
  <2> DEFINE M == {k \in S : log[k].updated = b}
  <2>1. M # {} /\ M \in SUBSET Nat
    BY <1>2, <1>8
  <2>2. \E k \in M : \A l \in M : k <= l
    <3> HIDE DEF M
    <3> QED
      BY <2>1, LeastNumber
  <2> QED
    BY <2>2
<1>10. \A k \in S : log[k].updated <= b /\ log[k].updated \in Nat
  BY <1>1, <1>2, <1>7
<1>11. j \in Deduped(c)
  BY <1>9, <1>10 DEF Deduped
<1> QED
  BY <1>9, <1>10, <1>11

\* Rows stand after a step that leaves log and positions alone.
LEMMA StandsAfter ==
  ASSUME UNCHANGED <<log, committed, owner, pos, last>>, NEW c, NEW h
  PROVE  /\ Stands(inventory'[h], h, committed) => UpTo(committed, h)'
         /\ Stands(inventory'[h], h, pos[c]) => UpTo(pos[c], h)'
         /\ Stands(inventory'[h], h, last[c]) => UpTo(last[c], h)'
BY DEF UpTo, Stands, LatestOf, Live, Deletes

\* The steps of a batch apply its events (handle_inventory_event).
LEMMA BatchReplayable ==
  ASSUME TypeOK, TypeOK', Replayable, NEW c \in Consumers,
         Poll(c) \/ BulkDelete(c) \/ FilterStale(c) \/ BulkUpsert(c)
  PROVE  Replayable'
<1> DEFINE N == Len(log)
<1>1. /\ N \in Nat /\ committed \in 0..N /\ owner \in Consumers
      /\ \A i \in 1..N : log[i].host \in Hosts /\ log[i].updated \in Nat \ {0}
  BY LogType, EventType DEF TypeOK, KafkaType
<1>2. /\ pos[c] \in 0..N /\ last[c] \in 0..N /\ Upserts(c) \subseteq Batch(c)
      /\ Batch(c) \subseteq 1..N /\ fresh[c] \subseteq Upserts(c)
  BY BatchBounds
<1>3. UNCHANGED <<log, committed, owner, pos>> /\ overtaken \subseteq overtaken'
  BY DEF Poll, BulkDelete, FilterStale, BulkUpsert, kafkaVars, historyVars
<1>4. pos[c] <= last[c] /\ committed <= pos[owner] /\ \A d \in Consumers : pos[d] <= last[d]
  BY DEF Replayable, Positions
<1>5. CASE Poll(c)
  <2>1. PICK n \in 1..BatchSize : /\ pos[c] + n <= N
                                  /\ last' = [last EXCEPT ![c] = pos[c] + n]
    BY <1>5 DEF Poll
  <2>2. n \in Nat
    BY ReplicationAssumption DEF ReplicationAssumption
  <2>3. \A d \in Consumers : pos'[d] <= last'[d]
    BY <1>2, <1>3, <1>4, <2>1, <2>2 DEF TypeOK, ConsumerType
  <2>4. owner = c /\ pc'[c] = "delete" /\ UNCHANGED <<inventory, overtaken>>
    BY <1>5 DEF Poll, Goto, rowVars, historyVars, TypeOK, ConsumerType
  <2>5. (\A h \in Hosts \ overtaken : UpTo(committed, h) /\ UpTo(pos[owner], h))'
    BY <1>3, <2>4 DEF Replayable, UpTo, Stands, LatestOf, Live, Deletes
  <2>6. Positions' /\ Mid(owner)'
    BY <1>3, <1>4, <2>3, <2>4 DEF Positions, Mid
  <2> QED
    BY <2>5, <2>6 DEF Replayable
<1>6. CASE BulkDelete(c)
  <2>1. /\ inventory' = [h \in Hosts |-> IF h \in Deleted(c) THEN 0 ELSE inventory[h]]
        /\ overtaken' = overtaken \union OutOfOrder(c)
        /\ UNCHANGED <<last, fresh>> /\ pc' = [pc EXCEPT ![c] = "filter"]
    BY <1>6 DEF BulkDelete, Goto
  <2>2. CASE owner # c
    <3>1. Deleted(c) \subseteq OutOfOrder(c)
      BY <1>1, <1>2, <2>2 DEF Deleted, OutOfOrder
    <3> QED
      BY <1>1, <1>3, <1>4, <2>1, <2>2, <3>1, RowsKept DEF TypeOK, ConsumerType
  <2>3. CASE owner = c
    <3>1. ASSUME NEW h \in Hosts \ overtaken', NEW k \in Nat, k <= pos[c],
                 Stands(inventory[h], h, k)
          PROVE  Stands(inventory'[h], h, k)
      <4>1. CASE h \in Deleted(c)
        <5>1. PICK d \in Batch(c) : log[d].type = "delete" /\ log[d].host = h
          BY <4>1 DEF Deleted
        <5>2. d \in Deletes(h, k, N)
          BY <1>1, <1>2, <3>1, <5>1 DEF Deletes, Batch
        <5> QED
          BY <5>2 DEF Stands
      <4>2. CASE h \notin Deleted(c)
        BY <2>1, <3>1, <4>2
      <4> QED
        BY <4>1, <4>2
    <3>2. (\A h \in Hosts \ overtaken : UpTo(committed, h) /\ UpTo(pos[owner], h))'
      <4> SUFFICES ASSUME NEW h \in Hosts \ overtaken'
                   PROVE  UpTo(committed, h)' /\ UpTo(pos[owner], h)'
        OBVIOUS
      <4>1. Stands(inventory[h], h, committed) /\ Stands(inventory[h], h, pos[c])
        BY <1>3, <2>3 DEF Replayable, UpTo
      <4>2. committed \in Nat /\ pos[c] \in Nat /\ committed <= pos[c] /\ pos[c] <= pos[c]
        BY <1>1, <1>2, <1>4, <2>3
      <4>3. Stands(inventory'[h], h, committed) /\ Stands(inventory'[h], h, pos[c])
        BY <3>1, <4>1, <4>2
      <4> QED
        BY <1>3, <2>1, <2>3, <4>3, StandsAfter
    <3>3. Mixed(c)' \subseteq overtaken'
      BY <1>3, <2>1 DEF Mixed, OutOfOrder, Batch
    <3>4. \A h \in Deleted(c)' \ overtaken' : inventory'[h] = 0
      BY <1>1, <1>2, <1>3, <2>1 DEF Deleted, Batch
    <3>5. pc'[owner] = "filter"
      BY <1>1, <2>1, <2>3 DEF TypeOK, ConsumerType
    <3>6. Mid(owner)'
      BY <1>3, <2>3, <3>3, <3>4, <3>5 DEF Mid
    <3>7. Positions'
      BY <1>3, <1>4, <2>1 DEF Positions
    <3> QED
      BY <3>2, <3>6, <3>7 DEF Replayable
  <2> QED
    BY <2>2, <2>3
<1>7. CASE FilterStale(c)
  <2>1. /\ UNCHANGED <<last, inventory, overtaken>> /\ pc[c] = "filter"
        /\ fresh' = [fresh EXCEPT ![c] = Fresh(c)]
        /\ pc' = [pc EXCEPT ![c] = IF Fresh(c) = {} THEN "commit" ELSE "upsert"]
    BY <1>7 DEF FilterStale, Goto, rowVars, historyVars
  <2>2. CASE owner # c
    BY <1>1, <1>3, <1>4, <2>1, <2>2, RowsKept DEF TypeOK, ConsumerType
  <2>3. CASE owner = c
    <3>1. /\ Mixed(c) \subseteq overtaken
          /\ \A h \in Deleted(c) \ overtaken : inventory[h] = 0
      BY <2>1, <2>3 DEF Replayable, Mid
    <3>2. ASSUME NEW i \in Upserts(c), \A j \in Fresh(c) : log[j].host # log[i].host
          PROVE  log[i].updated <= inventory[log[i].host]
      <4>1. PICK j \in Deduped(c) : /\ log[j].host = log[i].host
                                    /\ log[j].updated >= log[i].updated
        BY LatestKept
      <4>2. j \notin Fresh(c) /\ j \in Upserts(c) /\ i \in 1..N /\ j \in 1..N
        BY <1>2, <3>2, <4>1 DEF Deduped
      <4>3. ~(log[j].updated > inventory[log[i].host])
        BY <4>1, <4>2 DEF Fresh
      <4>4. inventory[log[i].host] \in Nat
        BY <1>1, <4>2 DEF TypeOK, RowType
      <4> QED
        BY <1>1, <4>1, <4>2, <4>3, <4>4
    <3>3. ASSUME NEW i \in Upserts(c), NEW j \in Fresh(c), log[j].host = log[i].host
          PROVE  /\ log[j].updated > inventory[log[i].host]
                 /\ log[j].updated >= log[i].updated
      <4>1. j \in Upserts(c) /\ i \in 1..N /\ j \in 1..N
        BY <1>2 DEF Fresh, Deduped
      <4> QED
        BY <1>1, <3>3, <4>1 DEF Fresh, Deduped
    <3>4. ASSUME Fresh(c) = {}, NEW h \in Hosts \ overtaken
          PROVE  UpTo(last[c], h)
      <4>1. inventory[h] \in Nat
        BY DEF TypeOK, RowType
      <4>2. Applied(c, h, inventory[h], inventory[h])
        BY <3>1, <3>2, <3>4, <4>1 DEF Applied
      <4>3. Stands(inventory[h], h, pos[c])
        BY <2>3 DEF Replayable, UpTo
      <4> QED
        BY <1>4, <4>2, <4>3, BatchDone DEF UpTo
    <3>5. \A h, k : UpTo(k, h)' = UpTo(k, h)
      BY <1>3, <2>1 DEF UpTo, Stands, LatestOf, Live, Deletes
    <3>6. /\ Batch(c)' = Batch(c) /\ Upserts(c)' = Upserts(c) /\ Deleted(c)' = Deleted(c)
          /\ Mixed(c)' = Mixed(c) /\ fresh'[c] = Fresh(c)
      BY <1>3, <2>1 DEF Batch, Upserts, Deleted, Mixed, TypeOK, ConsumerType
    <3>7. pc'[c] = IF Fresh(c) = {} THEN "commit" ELSE "upsert"
      BY <2>1 DEF TypeOK, ConsumerType
    <3>8. Mid(c)'
      <4>1. CASE Fresh(c) = {}
        BY <1>3, <2>1, <3>1, <3>4, <3>5, <3>6, <3>7, <4>1 DEF Mid
      <4>2. CASE Fresh(c) # {}
        BY <1>3, <2>1, <3>1, <3>2, <3>3, <3>6, <3>7, <4>2 DEF Mid, FreshHosts
      <4> QED
        BY <4>1, <4>2
    <3> QED
      BY <1>3, <1>4, <2>1, <2>3, <3>5, <3>8 DEF Replayable, Positions
  <2> QED
    BY <2>2, <2>3
<1>8. CASE BulkUpsert(c)
  <2>1. /\ inventory' = [h \in Hosts |-> IF h \in FreshHosts(c)
                           THEN log[CHOOSE i \in fresh[c] : log[i].host = h].updated
                           ELSE inventory[h]]
        /\ overtaken' = overtaken \union OutOfOrder(c)
        /\ UNCHANGED <<last, fresh>> /\ pc[c] = "upsert" /\ pc' = [pc EXCEPT ![c] = "commit"]
    BY <1>8 DEF BulkUpsert, Goto
  <2>2. CASE owner # c
    <3>1. FreshHosts(c) \subseteq OutOfOrder(c)
      BY <1>1, <1>2, <2>2 DEF FreshHosts, OutOfOrder
    <3> QED
      BY <1>1, <1>3, <1>4, <2>1, <2>2, <3>1, RowsKept DEF TypeOK, ConsumerType
  <2>3. CASE owner = c
    <3>1. /\ Mixed(c) \subseteq overtaken
          /\ \A h \in Deleted(c) \ overtaken : inventory[h] = 0
          /\ \A i \in Upserts(c) : log[i].host \notin overtaken =>
               /\ log[i].host \notin FreshHosts(c) => log[i].updated <= inventory[log[i].host]
               /\ \A j \in fresh[c] : log[j].host = log[i].host =>
                    /\ log[j].updated > inventory[log[i].host]
                    /\ log[j].updated >= log[i].updated
      BY <2>1, <2>3 DEF Replayable, Mid
    <3>2. Mixed(c)' = Mixed(c)
      BY <1>3, <2>1 DEF Mixed, Batch
    <3>3. ASSUME NEW h \in Hosts \ overtaken'
          PROVE  Applied(c, h, inventory[h], inventory'[h])
      <4>1. inventory[h] \in Nat /\ inventory'[h] \in Nat /\ h \in Hosts \ Mixed(c)
            /\ h \notin overtaken /\ (h \in Deleted(c) => inventory[h] = 0)
        BY <1>3, <3>1 DEF TypeOK, RowType
      <4>2. CASE h \in FreshHosts(c)
        <5>1. PICK j \in fresh[c] : log[j].host = h /\ inventory'[h] = log[j].updated
          <6>1. \E i \in fresh[c] : log[i].host = h
            BY <4>2 DEF FreshHosts
          <6> QED
            BY <2>1, <4>2, <6>1
        <5>2. \A i \in Upserts(c) : log[i].host = h => log[i].updated <= inventory'[h]
          BY <3>1, <4>1, <5>1
        <5>3. j \in Upserts(c) /\ log[j].updated > inventory[h]
          BY <1>2, <3>1, <4>1, <5>1
        <5>4. inventory[h] <= inventory'[h]
          BY <4>1, <5>1, <5>3
        <5> QED
          BY <4>1, <5>1, <5>2, <5>3, <5>4 DEF Applied
      <4>3. CASE h \notin FreshHosts(c)
        <5>1. inventory'[h] = inventory[h]
          BY <2>1, <4>3
        <5>2. \A i \in Upserts(c) : log[i].host = h => log[i].updated <= inventory[h]
          BY <3>1, <4>1, <4>3
        <5> QED
          BY <4>1, <5>1, <5>2 DEF Applied
      <4> QED
        BY <4>2, <4>3
    <3>4. ASSUME NEW h \in Hosts \ overtaken'
          PROVE  UpTo(committed, h)' /\ UpTo(pos[c], h)' /\ UpTo(last[c], h)'
      <4>1. Stands(inventory[h], h, committed) /\ Stands(inventory[h], h, pos[c])
        BY <1>3, <2>3 DEF Replayable, UpTo
      <4>2. committed \in Nat /\ pos[c] \in Nat /\ committed <= pos[c] /\ pos[c] <= pos[c]
        BY <1>1, <1>2, <1>4, <2>3
      <4>3. Stands(inventory'[h], h, last[c])
        BY <1>4, <3>3, <4>1, BatchDone
      <4>4. Stands(inventory'[h], h, committed) /\ Stands(inventory'[h], h, pos[c])
        BY <3>3, <4>1, <4>2, BatchRedone
      <4> QED
        BY <1>3, <2>1, <4>3, <4>4, StandsAfter
    <3>5. pc'[c] = "commit"
      BY <2>1 DEF TypeOK, ConsumerType
    <3>6. Mid(c)'
      BY <1>3, <2>1, <3>1, <3>2, <3>4, <3>5 DEF Mid
    <3> QED
      BY <1>3, <1>4, <2>1, <2>3, <3>4, <3>6 DEF Replayable, Positions
  <2> QED
    BY <2>2, <2>3
<1> QED
  BY <1>5, <1>6, <1>7, <1>8

\* Commits move on after a whole batch; whoever starts again starts at the
\* committed offset (_receive_batch).
LEMMA LoopReplayable ==
  ASSUME TypeOK, Replayable, NEW c \in Consumers,
         \/ Commit(c) \/ CommitFails(c) \/ HandlerFails(c) \/ Crash(c)
         \/ Restart(c) \/ Rebalance(c)
  PROVE  Replayable'
<1>1. UNCHANGED <<log, inventory, overtaken>>
  BY DEF Commit, CommitFails, NextBatch, HandlerFails, Crash, Restart, Rebalance, kafkaVars,
         rowVars, historyVars
<1>2. \A h, k : UpTo(k, h) => UpTo(k, h)'
  BY <1>1 DEF UpTo, Stands, LatestOf, Live, Deletes
<1>3. /\ owner \in Consumers /\ committed \in Nat
      /\ \A d \in Consumers : pos[d] \in Nat /\ last[d] \in Nat
  BY LogType DEF TypeOK, KafkaType, ConsumerType
<1>4. committed <= pos[owner] /\ \A d \in Consumers : pos[d] <= last[d]
  BY DEF Replayable, Positions
<1>5. \A h \in Hosts \ overtaken : UpTo(committed, h) /\ UpTo(pos[owner], h)
  BY DEF Replayable
<1>6. CASE Commit(c) \/ CommitFails(c)
  <2>1. /\ pos' = [pos EXCEPT ![c] = last[c]] /\ pc' = [pc EXCEPT ![c] = "poll"]
        /\ UNCHANGED <<owner, last>> /\ pc[c] = "commit"
        /\ fresh' = [fresh EXCEPT ![c] = {}]
    BY <1>6 DEF Commit, CommitFails, NextBatch, Goto
  <2>2. committed' = committed \/ (owner = c /\ committed' = last[c])
    BY <1>6 DEF Commit, CommitFails
  <2>3. CASE owner # c
    <3>1. \A d \in Consumers : pos'[d] <= last'[d]
      BY <1>3, <1>4, <2>1 DEF TypeOK, ConsumerType
    <3> QED
      BY <1>1, <1>3, <2>1, <2>2, <2>3, <3>1, RowsKept DEF TypeOK, ConsumerType
  <2>4. CASE owner = c
    <3>1. \A h \in Hosts \ overtaken : UpTo(last[c], h)
      BY <2>1, <2>4 DEF Replayable, Mid
    <3>2. pos'[c] = last[c] /\ pc'[c] = "poll"
      BY <2>1 DEF TypeOK, ConsumerType
    <3>3. (\A h \in Hosts \ overtaken : UpTo(committed, h) /\ UpTo(pos[owner], h))'
      <4> SUFFICES ASSUME NEW h \in Hosts \ overtaken
                   PROVE  UpTo(committed, h)' /\ UpTo(pos[owner], h)'
        BY <1>1
      <4>1. Stands(inventory[h], h, last[c]) /\ Stands(inventory[h], h, committed')
        BY <1>5, <2>2, <3>1 DEF UpTo
      <4> QED
        BY <1>1, <2>1, <2>4, <3>2, <4>1 DEF UpTo, Stands, LatestOf, Live, Deletes
    <3>4. Positions'
      BY <1>3, <1>4, <2>1, <2>2, <2>4, <3>2 DEF Positions, TypeOK, ConsumerType
    <3> QED
      BY <2>1, <2>4, <3>2, <3>3, <3>4 DEF Replayable, Mid
  <2> QED
    BY <2>3, <2>4
<1>7. CASE HandlerFails(c) \/ Crash(c)
  <2>1. /\ UNCHANGED <<committed, owner, pos, last, fresh>>
        /\ pc' = [pc EXCEPT ![c] = "down"]
    BY <1>7 DEF HandlerFails, Crash, kafkaVars, Goto
  <2>2. pc'[owner] = pc[owner] \/ pc'[owner] \in {"down", "poll"}
    BY <1>3, <2>1 DEF TypeOK, ConsumerType
  <2>3. \A d \in Consumers : pos'[d] <= last'[d]
    BY <1>4, <2>1
  <2> QED
    BY <1>1, <2>1, <2>2, <2>3, RowsKept
<1>8. CASE Restart(c) \/ Rebalance(c)
  <2>1. /\ pos' = [pos EXCEPT ![c] = committed] /\ last' = [last EXCEPT ![c] = committed]
        /\ UNCHANGED committed /\ (owner' = owner \/ owner' = c) /\ pc'[c] = "poll"
        /\ \A d \in Consumers \ {c} : pc'[d] = pc[d] /\ fresh'[d] = fresh[d]
    BY <1>8 DEF Restart, Rebalance, Resume, kafkaVars, Goto, TypeOK, ConsumerType
  <2>2. \A d \in Consumers : pos'[d] <= last'[d]
    BY <1>3, <1>4, <2>1 DEF TypeOK, ConsumerType
  <2>3. CASE owner' = c
    <3>1. pos'[c] = committed
      BY <2>1 DEF TypeOK, ConsumerType
    <3>2. (\A h \in Hosts \ overtaken : UpTo(committed, h) /\ UpTo(pos[owner], h))'
      BY <1>1, <1>5, <2>1, <2>3, <3>1 DEF UpTo, Stands, LatestOf, Live, Deletes
    <3>3. Positions'
      BY <1>3, <2>1, <2>2, <2>3, <3>1 DEF Positions
    <3> QED
      BY <2>1, <2>3, <3>2, <3>3 DEF Replayable, Mid
  <2>4. CASE owner' # c
    <3>1. /\ owner' = owner /\ owner # c /\ pc'[owner] = pc[owner]
          /\ fresh'[owner] = fresh[owner] /\ pos'[owner] = pos[owner]
          /\ last'[owner] = last[owner]
      BY <1>3, <2>1, <2>4 DEF TypeOK, ConsumerType
    <3> QED
      BY <1>1, <2>1, <2>2, <3>1, RowsKept
  <2> QED
    BY <2>3, <2>4
<1> QED
  BY <1>6, <1>7, <1>8

\* Convergence (_filter_stale_events over redelivered batches): for every
\* partition, and whatever crashes, failed commits and rebalances come in
\* between, the replica of a read partition holds what the events say.
THEOREM ReplicaConverges == Spec => []Converged
<1>1. Init => Replayable
  <2> SUFFICES ASSUME Init PROVE Replayable
    OBVIOUS
  <2>1. Len(log) \in Nat /\ owner \in Consumers
    BY LogType DEF Init
  <2>2. \A h \in Hosts : UpTo(0, h)
    BY <2>1 DEF Init, UpTo, Stands, LatestOf, Live
  <2>3. committed = 0 /\ pos[owner] = 0 /\ pc[owner] = "poll"
        /\ \A c \in Consumers : pos[c] <= last[c]
    BY <2>1 DEF Init
  <2> QED
    BY <2>2, <2>3 DEF Replayable, Positions, Mid
<1>2. TypeOK /\ TypeOK' /\ Replayable /\ [Next]_vars => Replayable'
  <2> SUFFICES ASSUME TypeOK, TypeOK', Replayable, [Next]_vars
               PROVE  Replayable'
    OBVIOUS
  <2>1. CASE (\E h \in Hosts : Ingest(h)) \/ CullSelect \/ CullDelete \/ Drained
             \/ UNCHANGED vars
    <3>1. UNCHANGED <<kafkaVars, consumerVars, inventory, historyVars>>
      BY <2>1 DEF Ingest, CullSelect, CullDelete, Drained, vars, rowVars
    <3>2. \A d \in Consumers : pos'[d] <= last'[d]
      BY <3>1 DEF consumerVars, Replayable, Positions
    <3> QED
      BY <3>1, <3>2, RowsKept DEF kafkaVars, consumerVars, historyVars
  <2>2. CASE \E c \in Consumers : Consumer(c) \/ HandlerFails(c) \/ CommitFails(c)
                                  \/ Crash(c) \/ Rebalance(c)
    BY <2>2, BatchReplayable, LoopReplayable DEF Consumer
  <2> QED
    BY <2>1, <2>2 DEF Next, Environment
<1> QED
  BY <1>1, <1>2, TypeCorrect, ReplayedAll, PTL DEF Spec
=============================================================================
