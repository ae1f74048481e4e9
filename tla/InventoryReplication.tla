----------------------- MODULE InventoryReplication -----------------------
(***************************************************************************)
(* The inventory replication service (advisor_inventory_service.py on the  *)
(* KafkaDispatcher of kafka_utils.py): consumers of one group read the     *)
(* inventory events of a partition in batches, apply each batch in two     *)
(* transactions and commit its offsets afterwards.  A batch that fails     *)
(* ends the process, which is restarted at the last committed offset; a    *)
(* rebalance may move the partition while its old owner is busy.           *)
(*                                                                         *)
(* Around it: the Advisor Service writes uploads and reports, and creates  *)
(* Host rows of its own; the cron job delete_stale_api_hosts removes Host  *)
(* rows that have no inventory row.                                        *)
(***************************************************************************)
EXTENDS Integers, Sequences, FiniteSets

CONSTANTS
  Hosts,         \* inventory UUIDs of the partition
  Consumers,     \* the processes of the consumer group
  Logs,          \* the event sequences the partition may hold
  BatchSize,     \* settings.INVENTORY_BATCH_SIZE
  MaxFaults,     \* bound: crashes, database errors and failed commits
  MaxMoves,      \* bound: rebalances away from a live consumer
  MaxIngests,    \* bound: uploads the Advisor Service stores
  MaxCulls       \* bound: runs of delete_stale_api_hosts

\* "created" and "updated" are handled alike: upserts.  "skipped" are the
\* events that are dropped one by one: malformed, incomplete, nil insights id.
Event == [type : {"upsert", "delete", "skipped"}, host : Hosts, updated : Nat \ {0}]

ASSUME ReplicationAssumption ==
  /\ BatchSize \in Nat \ {0}
  /\ Logs \subseteq Seq(Event)

VARIABLES
  \* Kafka: the partition, the committed offset, and who is assigned
  log, committed, owner,
  \* the consumers: program point, position, end of the batch, rows to write
  pc, pos, last, fresh,
  \* the tables: 'updated' of the inventory row (0: no row), Host rows, and
  \* the hosts that have uploads, reports or host acks
  inventory, hostRows, dependents,
  \* delete_stale_api_hosts: the rows it selected
  cull,
  \* budgets of the environment
  faults, moves, ingests, culls,
  \* history: offsets of batches handled without error; hosts for which a
  \* batch held an upsert before a delete, or an old owner wrote
  handled, overtaken

kafkaVars    == <<log, committed, owner>>
consumerVars == <<pc, pos, last, fresh>>
rowVars      == <<inventory, hostRows, dependents>>
budgetVars   == <<faults, moves, ingests, culls>>
historyVars  == <<handled, overtaken>>
vars == <<kafkaVars, consumerVars, rowVars, cull, budgetVars, historyVars>>

Points == {"down", "poll", "delete", "filter", "upsert", "commit"}
Busy(c) == pc[c] \notin {"down", "poll"}

Batch(c)   == (pos[c] + 1)..last[c]
Deleted(c) == {log[i].host : i \in {j \in Batch(c) : log[j].type = "delete"}}
Upserts(c) == {i \in Batch(c) : log[i].type = "upsert"}

Goto(c, point) == pc' = [pc EXCEPT ![c] = point]

Init ==
  /\ log \in Logs /\ committed = 0 /\ owner \in Consumers
  /\ pc = [c \in Consumers |-> "poll"] /\ pos = [c \in Consumers |-> 0]
  /\ last = [c \in Consumers |-> 0] /\ fresh = [c \in Consumers |-> {}]
  /\ inventory = [h \in Hosts |-> 0] /\ hostRows = {} /\ dependents = {}
  /\ cull = {}
  /\ faults = 0 /\ moves = 0 /\ ingests = 0 /\ culls = 0
  /\ handled = {} /\ overtaken = {}

(***************************************************************************)
(* _receive_batch and handle_inventory_event.                              *)
(***************************************************************************)

\* consume() returns up to BatchSize messages, as many as there are by then.
Poll(c) ==
  /\ owner = c /\ pc[c] = "poll"
  /\ \E n \in 1..BatchSize :
       /\ pos[c] + n <= Len(log)
       /\ last' = [last EXCEPT ![c] = pos[c] + n]
  /\ Goto(c, "delete")
  /\ UNCHANGED <<kafkaVars, pos, fresh, rowVars, cull, budgetVars, historyVars>>

\* A batch writes out of the log's order when it holds an upsert of a host
\* before its delete, or when the partition has another owner by now.
OutOfOrder(c) ==
  {h \in Hosts : \/ \E i \in Batch(c) : owner # c /\ log[i].host = h
                 \/ \E i, j \in Batch(c) :
                      /\ i < j /\ log[i].host = h /\ log[j].host = h
                      /\ log[i].type = "upsert" /\ log[j].type = "delete"}

\* bulk_delete_hosts, one transaction: the inventory rows, then the Host rows
\* under FOR UPDATE with everything that refers to them.
BulkDelete(c) ==
  /\ pc[c] = "delete"
  /\ inventory' = [h \in Hosts |-> IF h \in Deleted(c) THEN 0 ELSE inventory[h]]
  /\ hostRows' = hostRows \ Deleted(c)
  /\ dependents' = dependents \ (hostRows \cap Deleted(c))
  /\ overtaken' = overtaken \union OutOfOrder(c)
  /\ Goto(c, "filter")
  /\ UNCHANGED <<kafkaVars, pos, last, fresh, cull, budgetVars, handled>>

\* Variant: the first event of a host is kept.
DedupedFirst(c) ==
  {i \in Upserts(c) : \A j \in Upserts(c) : log[j].host = log[i].host => i <= j}

\* Of the events of a host, the one with the latest 'updated', and of several
\* such the first.
Deduped(c) ==
  {i \in Upserts(c) : \A j \in Upserts(c) : log[j].host = log[i].host =>
                        \/ log[j].updated < log[i].updated
                        \/ log[j].updated = log[i].updated /\ i <= j}

\* _filter_stale_events: those newer than the row the host has.
Fresh(c) ==
  {i \in Deduped(c) : \/ inventory[log[i].host] = 0
                      \/ log[i].updated > inventory[log[i].host]}

FilterStale(c) ==
  /\ pc[c] = "filter"
  /\ fresh' = [fresh EXCEPT ![c] = Fresh(c)]
  /\ Goto(c, IF Fresh(c) = {} THEN "commit" ELSE "upsert")
  /\ UNCHANGED <<kafkaVars, pos, last, rowVars, cull, budgetVars, historyVars>>

FreshHosts(c) == {log[i].host : i \in fresh[c]}

\* Variant: only the inventory rows are written.
UpsertedHostsNone(c) == {}

UpsertedHosts(c) == FreshHosts(c)

\* bulk_upsert_hosts: both rows of each host, in one transaction.
BulkUpsert(c) ==
  /\ pc[c] = "upsert"
  /\ inventory' = [h \in Hosts |-> IF h \in FreshHosts(c)
                     THEN log[CHOOSE i \in fresh[c] : log[i].host = h].updated
                     ELSE inventory[h]]
  /\ hostRows' = hostRows \union UpsertedHosts(c)
  /\ overtaken' = overtaken \union OutOfOrder(c)
  /\ Goto(c, "commit")
  /\ UNCHANGED <<kafkaVars, pos, last, fresh, dependents, cull, budgetVars, handled>>

\* Variant: the rows to write are kept from one batch to the next.
NextBatchKeeping(c) ==
  /\ pos' = [pos EXCEPT ![c] = last[c]]
  /\ UNCHANGED fresh
  /\ Goto(c, "poll")
  /\ handled' = handled \union Batch(c)
  /\ UNCHANGED <<log, owner, last, rowVars, cull, moves, ingests, culls, overtaken>>

\* The batch is done: on to the next one.
NextBatch(c) ==
  /\ pos' = [pos EXCEPT ![c] = last[c]]
  /\ fresh' = [fresh EXCEPT ![c] = {}]
  /\ Goto(c, "poll")
  /\ handled' = handled \union Batch(c)
  /\ UNCHANGED <<log, owner, last, rowVars, cull, moves, ingests, culls, overtaken>>

\* The broker accepts the offsets of the current owner only; the exception is
\* logged and the loop goes on.
Commit(c) ==
  /\ pc[c] = "commit"
  /\ committed' = IF owner = c THEN last[c] ELSE committed
  /\ NextBatch(c)
  /\ UNCHANGED faults

CommitFails(c) ==
  /\ pc[c] = "commit"
  /\ faults < MaxFaults /\ faults' = faults + 1
  /\ NextBatch(c)
  /\ UNCHANGED committed

\* Variant: the offsets of a failed batch are committed.
HandlerFailsCommitting(c) ==
  /\ pc[c] \in {"delete", "filter", "upsert"}
  /\ faults < MaxFaults /\ faults' = faults + 1
  /\ committed' = IF owner = c THEN last[c] ELSE committed
  /\ Goto(c, "down")
  /\ UNCHANGED <<log, owner, pos, last, fresh, rowVars, cull, moves, ingests, culls,
                 historyVars>>

\* A database error rolls its transaction back; the dispatcher quits without
\* storing the offsets.
HandlerFails(c) ==
  /\ pc[c] \in {"delete", "filter", "upsert"}
  /\ faults < MaxFaults /\ faults' = faults + 1
  /\ Goto(c, "down")
  /\ UNCHANGED <<kafkaVars, pos, last, fresh, rowVars, cull, moves, ingests, culls,
                 historyVars>>

\* The process is killed, between two batches or before the offsets of one
\* that was handled are committed.
Crash(c) ==
  /\ pc[c] \in {"poll", "commit"}
  /\ faults < MaxFaults /\ faults' = faults + 1
  /\ Goto(c, "down")
  /\ UNCHANGED <<kafkaVars, pos, last, fresh, rowVars, cull, moves, ingests, culls,
                 historyVars>>

\* Variant: a new process starts at the end of the partition.
ResumeAtEnd == Len(log)

\* Where a consumer that is given the partition starts.
Resume == committed

Restart(c) ==
  /\ pc[c] = "down"
  /\ pos' = [pos EXCEPT ![c] = Resume]
  /\ last' = [last EXCEPT ![c] = Resume]
  /\ fresh' = [fresh EXCEPT ![c] = {}]
  /\ Goto(c, "poll")
  /\ UNCHANGED <<kafkaVars, rowVars, cull, budgetVars, historyVars>>

\* The group moves the partition to another consumer: because its owner is
\* gone, or because it was slow and is taken for gone.
Rebalance(c) ==
  /\ owner # c /\ pc[c] = "poll"
  /\ IF pc[owner] = "down" THEN UNCHANGED moves
                           ELSE moves < MaxMoves /\ moves' = moves + 1
  /\ owner' = c
  /\ pos' = [pos EXCEPT ![c] = Resume]
  /\ last' = [last EXCEPT ![c] = Resume]
  /\ UNCHANGED <<log, committed, pc, fresh, rowVars, cull, faults, ingests, culls,
                 historyVars>>

(***************************************************************************)
(* The other writers of the tables.                                        *)
(***************************************************************************)

\* create_db_reports: the Host is created if there is none, and gets an upload.
Ingest(h) ==
  /\ ingests < MaxIngests /\ ingests' = ingests + 1
  /\ hostRows' = hostRows \union {h}
  /\ dependents' = dependents \union {h}
  /\ UNCHANGED <<kafkaVars, consumerVars, inventory, cull, faults, moves, culls,
                 historyVars>>

\* delete_stale_api_hosts selects Host rows without inventory row that are
\* old enough; age is abstracted, any of them may be.
CullSelect ==
  /\ culls < MaxCulls /\ culls' = culls + 1
  /\ cull = {}
  /\ cull' \in SUBSET {h \in hostRows : inventory[h] = 0} \ {{}}
  /\ UNCHANGED <<kafkaVars, consumerVars, rowVars, faults, moves, ingests, historyVars>>

\* Django deletes the rows selected, following the foreign keys.
CullDelete ==
  /\ cull # {}
  /\ hostRows' = hostRows \ cull
  /\ dependents' = dependents \ cull
  /\ cull' = {}
  /\ UNCHANGED <<kafkaVars, consumerVars, inventory, budgetVars, historyVars>>

Consumer(c) ==
  \/ Poll(c) \/ BulkDelete(c) \/ FilterStale(c) \/ BulkUpsert(c) \/ Commit(c)
  \/ Restart(c)

Environment ==
  \/ \E c \in Consumers : HandlerFails(c) \/ CommitFails(c) \/ Crash(c) \/ Rebalance(c)
  \/ \E h \in Hosts : Ingest(h)
  \/ CullSelect \/ CullDelete

\* The owner has read everything and nobody is in a batch.  The last offsets
\* may be uncommitted: nothing retries a failed commit but the next one.
AllRead ==
  /\ pc[owner] = "poll" /\ pos[owner] = Len(log)
  /\ \A c \in Consumers : ~Busy(c)

\* The consumers wait for more messages.
Drained == AllRead /\ UNCHANGED vars

Next == (\E c \in Consumers : Consumer(c)) \/ Environment \/ Drained

Spec == Init /\ [][Next]_vars

\* Processes run, a process that ended is restarted, and a partition whose
\* owner is gone is given to a live consumer.
Fairness ==
  \A c \in Consumers :
    /\ WF_vars(Consumer(c))
    /\ WF_vars(Rebalance(c) /\ UNCHANGED moves)

FairSpec == Spec /\ Fairness

-----------------------------------------------------------------------------
(***************************************************************************)
(* Properties.                                                             *)
(***************************************************************************)

KafkaType == log \in Logs /\ committed \in 0..Len(log) /\ owner \in Consumers

ConsumerType ==
  /\ pc \in [Consumers -> Points] /\ pos \in [Consumers -> 0..Len(log)]
  /\ last \in [Consumers -> 0..Len(log)]
  /\ fresh \in [Consumers -> SUBSET (1..Len(log))]

FreshInBatch ==
  \A c \in Consumers : /\ fresh[c] \subseteq Upserts(c)
                       /\ pc[c] = "poll" => fresh[c] = {}

RowType ==
  /\ inventory \in [Hosts -> Nat] /\ hostRows \subseteq Hosts
  /\ dependents \subseteq Hosts /\ cull \subseteq Hosts

CountType == faults \in Nat /\ moves \in Nat /\ ingests \in Nat /\ culls \in Nat

HistoryType == handled \subseteq 1..Len(log) /\ overtaken \subseteq Hosts

\* Every variable has its type; what a consumer is to write is inside its batch
\* (kafka_utils._receive_batch).
TypeOK == /\ KafkaType /\ ConsumerType /\ FreshInBatch /\ RowType
          /\ CountType /\ HistoryType

\* At least once: an offset is committed only when every event up to it was in
\* a batch whose handler returned without error, whatever crashes, failed
\* commits and rebalances came in between.
CommittedHandled == 1..committed \subseteq handled

\* The row the events of a host leave when they are applied one by one.
Final(h) ==
  LET After[i \in 0..Len(log)] ==
        IF i = 0 THEN 0
        ELSE IF log[i].host # h \/ log[i].type = "skipped" THEN After[i - 1]
        ELSE IF log[i].type = "delete" THEN 0
        ELSE IF log[i].updated > After[i - 1] THEN log[i].updated ELSE After[i - 1]
  IN  After[Len(log)]

\* When the partition is read and nobody is in a batch, the replica holds what
\* the events say, unless a batch mixed an upsert with a later delete or an old
\* owner interfered (_filter_stale_events over redelivered batches).
Converged ==
  AllRead => \A h \in Hosts \ overtaken : inventory[h] = Final(h)

\* The two tables agree: a replicated host has its Host row, which reports,
\* acks and uploads refer to, and only Host rows have them.  (A cull that
\* selected the row before its inventory event arrived still deletes it.)
TablesAgree ==
  /\ dependents \subseteq hostRows
  /\ culls = 0 => \A h \in Hosts : inventory[h] # 0 => h \in hostRows

\* Whatever fails, in the end every event is handled and the replica holds, and
\* keeps, what the events say.
EventuallyReplicated ==
  <>[](/\ handled = 1..Len(log)
       /\ \A h \in Hosts \ overtaken : inventory[h] = Final(h))

-----------------------------------------------------------------------------
(***************************************************************************)
(* What texts of the repository say and the code does not do.              *)
(***************************************************************************)

\* "when multiple events target the same host, only the last one is applied":
\* a host whose last event in a batch is a delete is gone after the batch.
LastEventApplied ==
  [][\A c \in Consumers : pc[c] = "commit" /\ pc'[c] = "poll" /\ owner = c =>
       \A i \in Batch(c) :
         /\ log[i].type = "delete"
         /\ \A j \in Batch(c) : j > i => log[j].host # log[i].host
         => inventory'[log[i].host] = 0]_vars
=============================================================================
