# A TLA+ verification of advisor-backend

Advisor turns the findings of the Insights engine into recommendations for
hosts. This directory holds TLA+ models of its processes and views, the TLC
configurations that check them, and proofs checked by TLAPS. `PROJECT.json` maps
each definition to the source lines it translates, and lists the hazards the
properties are about, the runs, and the theorems.

## The system

| component | state it keeps | operations | interacts with |
|---|---|---|---|
| Advisor Service (`service/`) | a thread pool; rows of Host, Upload, CurrentReport, Ack, HostAck | engine results, rule hits, inventory deletes | Kafka (in), webhooks, inventory views and payload tracker (out), shared tables |
| Inventory replication (`advisor_inventory_service.py`) | consumer position; rows of AdvisorInventoryHost and Host | batches of inventory events | Kafka consumer group; shared tables |
| Kafka dispatcher (`kafka_utils.py`) | offsets | one message at a time, or batches | under replication and tasks |
| Stale host culling (`delete_stale_api_hosts`, ...) | none | select and delete | shared tables |
| Tasks (`tasks/`) | ExecutedTask, Job, JobLog rows | create, cancel, delete, dispatcher updates, timeout job | playbook dispatcher (HTTP out, Kafka in), ingress uploads (Kafka in) |
| Content import (`import_content` command) | Rule and its dependents; autoack Acks | synchronise one content release, in every replica's init container | Ack rows shared with the Advisor Service and users |
| Content server import (`scripts/import_content.py`) | the same tables; each web worker's list of whom to notify | a request that posts content | Ack rows; notifications |
| Weekly reports (`weekly_report_emails`, `wrs_utils`) | subscriptions and the time of the last mail | subscribe, exclude; select, check, send, mark, delete expired | middleware, RBAC and Kessel, mail |
| Permissions (`permissions.py`, `kessel.py`) | what a request found out; each worker's workspace cache | authenticate, decide by classes, RBAC or Kessel | in front of every view |
| Acks, host acks, disabled rules | Ack and HostAck rows | create, update, delete, of one or of many hosts | read by every view of reports |
| Read views, filters, exports | none | filtered queries, counts, statistics | shared tables |
| Satellite compatibility (`sat_compat/`) | maintenance plans and actions | plans, acks, unregistering; lists, topics, statistics | shared tables |
| Ratings, categories, KCS, status, deployment | single rows, settings | create, read, update, delete | none |

The hard part of this code is the shared database: several processes, threads
and web workers read rows, decide, and write in separate statements and often
separate transactions, with different locks or none (`ATOMIC_REQUESTS` is set at
the top level of `settings.py:318`, where Django does not look for it, so that
requests are not transactions). Kafka redelivers; brokers, databases, other
services and processes fail between two steps. And a dozen views decide
separately which reports a user sees.

What makes each component correct:

* **Advisor Service**: a host's reports are those of one accepted message; no
  two reports of a rule; a delete that succeeds leaves nothing; the permits of
  the pool are conserved on every exit; no handler waits for ever; webhooks and
  counters agree with the stored rows.
* **Replication**: no event is lost; the replica converges to what the log says;
  its two tables agree.
* **Tasks**: an executed task shows what its jobs say once they are over; it
  does not stay running while its task is active.
* **Content**: an import that ends has brought its content in, whatever others
  left half done; autoacks follow the tag; acks made by users are untouched.
* **Weekly reports**: who is entitled to a report gets one, not twice; who
  unsubscribes gets no more; nobody entitled loses a subscription.
* **Permissions**: a request is granted if and only if the service asked said
  so; a request sees the groups of hosts that all its roles allow.
* **Views**: every view hides the same reports; counts agree with the lists they
  count; what is hidden is listed as disabled.
* **Satellite**: a plan loses only actions that it shows, to its own requests; no
  request adds an action beside one it has seen; an unregistered host is in no list.

## Modules

| module | models | composed with |
|---|---|---|
| `HostReports` | what the Advisor Service promises, without threads and locks | implemented by `AdvisorService` |
| `AdvisorService` | the Advisor Service at the grain of SQL statements | `HostReports` |
| `InventoryReplication` | the replication, its consumer group, the culling job | |
| `TasksLifecycle` | an executed task, its jobs, and the processes that change them | |
| `ContentImport` | the importing command, many at once, beside acks | |
| `ContentServer` | posted content, row by row, beside acks | |
| `AccessControl` | a web worker from a request's arrival to its view | |
| `Visibility` | the tables, filters and queries that views share | extended by `UserViews`, `SatViews` |
| `UserViews` | the API's views, and the requests that acknowledge | extends `Visibility` |
| `SatViews` | Satellite's lists, topics and statistics | extends `Visibility` |
| `MaintenancePlans` | maintenance plans, unregistering, Satellite's acks | extends `SatViews` |
| `WeeklyReports` | subscriptions and the command that mails | |

`MC*` modules hold the instances for TLC, `*_proofs` modules the theorems. An
operator marked "Variant" is a plausible bug in place of the operator below it,
which the properties are known to catch; no specification uses it.

### AdvisorService and HostReports

One action per statement group between which another transaction can run; `w`
is a thread of the pool.

| code | model |
|---|---|
| `start` | `PollMalformed`, `PollSubmit`; SIGTERM is that polling need not happen |
| `BoundedExecutor` | `permits`, `queue`, `Take`, `Finish` |
| heads of the three handlers | `Reject`, `Ignore`, `Accept`, `SystemTypeError` |
| `create_db_reports`, before its transaction | `LookupHost`, `CheckNewOrg`, `CreateAutoacks`, `AutoackConflict`, `SaveHost`, `InsertHost`, `InsertConflict` |
| `create_db_reports`, the transaction | `LockHost`, `HostVanished`, `GetUpload`, `WriteReports`; with faults `HooksFail`, `CommitFails`, `IngestError` |
| `handle_inventory_event` | `SelectUploads`, `DeleteCascade`, `DeleteUploads`, `UploadsReferenced`, `DeleteReports`, `DeleteHostAcks`; with faults `DeleteError` |
| `reports.trigger_report_hooks`, `inventory_view` | `SendHooks`, `SendView` |
| PostgreSQL | `Unlock`, `DeadlockVictim`, foreign keys (`Orphans`), rows under deletion (`pend`) |
| replication, seen from here | `ReplUpsert`, `ReplLockHost`, `ReplDelete` |

PostgreSQL runs READ COMMITTED (Django's default, not changed in the settings),
so a statement sees what was committed before it. Locks end with the
transaction: `hostLock` is the `FOR UPDATE` lock of the Host row, `uploadLock`
the row lock that `update_or_create` takes, `pend` the rows that an open delete
has marked. Constraints are checked where PostgreSQL checks them: unique ones at
the statement, Django's deferred foreign keys at the commit. A transaction's own
writes become visible in its last action.

Reduced data: a message's hits are a set, its details and the branch of
`create_db_reports` that updates an existing Host's Satellite fields are left
out (it touches no other row; if the Host vanished, its failure is
`HostVanished`). `msg` and `since` stand for the details and the impacted date
of a report: the number of the message they come from. The last payload status
of a message counts (the 'error' of a failed hook is followed by 'success').

`HostReports` has three steps: a message's reports take the place of the host's
(`Store`), a message is settled without effect (`Drop`), a host's reports go
(`Erase`). `KeepsPromise` is the refinement: a report's content and its upload
row come from one message, each rule keeps the impacted date it had, and what a
failed message did is nowhere. A promise without exception would be false, in
three ways. A delete takes no Host lock, so it may remove reports that an upload
under way has already read as stored, and this upload does not insert them
again. `doubt` holds these rules; the mapping takes it from the snapshots of busy
threads, and the next successful message settles it. A system-type filter
puts a setting's whole list of rules in place of those reported
(`service.py:381`), so that reports of its other rules are neither renewed nor
resolved: the message spares them (`Spared`). And a message updates reports by
their account (`service.py:465`): one that was stored with another account than
the message's is taken for stored and left as it was. Whichever way a message
leaves a report (`Leaves`), it stays beside those of the message, on the upload
row that it had or, if that is the row of the same source, the message's; and a
delete under way may take it without the rest or leave it. Of the reports that
no message of the host would leave (`Firm`) the promise is exact.

A host ack has the account it was made with, by which the webhooks look it up
(`HookAcked`, `reports.py:142-155`).

### InventoryReplication

| code | model |
|---|---|
| `KafkaDispatcher._receive_batch` | `Poll`, `Commit`, `CommitFails`, `HandlerFails`, `Crash`, `Restart` |
| consumer group | `owner`, `Rebalance` |
| `handle_inventory_event` | `BulkDelete`, `FilterStale`, `BulkUpsert` with `Deduped`, `Fresh` |
| `delete_stale_api_hosts` | `CullSelect`, `CullDelete` |
| the Advisor Service, seen from here | `Ingest` |

'created' and 'updated' events do the same and are one type. The delete
transaction is one step because it holds the Host row locks, and everything that
refers to a Host is written under or removed with them; AdvisorService has its
steps. The age of a Host row is left out of `CullSelect`: any row without
inventory row may be old enough.

### TasksLifecycle

One executed task and its jobs; an action with index `p` is a step of process
`p`: the consumer of a job's messages, `cancel`, `timeout` or `repair`.

| code | model |
|---|---|
| `ExecutedTaskViewSet.create` | `Create`, `CreateFails`; the jobs' messages may come before either |
| `KafkaDispatcher._receive_single` | `HasMessage`, `NextMessage`, `Polled`, `Crash`, `Drop`; an exception is `Quit` |
| `handle_ansible_job_updates` | `Drop`, `Receive`, `SaveJob`, `LoadTask`, the update, `FetchStdout`, `SaveStdout`, `SaveResult` |
| `handle_script_job_updates` | `Receive`, `SaveStdout`, `SaveResult`, `LoadTask`, the update |
| `update_executed_task_status` | `ReadStatuses`, `SaveTask`, `Announce`, then `Return` to the caller |
| cancel and destroy | `CancelStart`, `CancelJobs`, the update; `Destroy` |
| `stale_job_timeout` | `TimeoutSelect`, `TimeoutVisit`, `TimeoutExpire`, the update |
| the command `update_executed_task_status` | `RepairStart`, the update without announcement |
| a task that is withdrawn (`Task.active`) | `Deactivate` |

Only `create` opens a transaction; nothing is locked. `copy`, `jobCopy` and
`target` are the objects a process holds; `save()` writes the whole row, by an
UPDATE or, when that finds no row, an INSERT. The foreign key of Job refuses a
job whose executed task is gone (`SaveFails`).

Reduced: each job has a consumer of its own, as if every message came to another
replica of the service, which has all interleavings of fewer. A log line that
fails because its job is gone is part of the step at whose point the next
statement would use the job. Any set of running jobs may be too old, in place of
times. A status without name here ('unknown') fails, since
`JobStatusChoices[job.status]` looks a number up by name. After a crash a
consumer may resume anywhere up to its position, although the committed offset
never goes back.

`missed` records why a reader may not count on the executed task: two processes
overlapped between reading and saving ("overlap") or between saving and
announcing ("order"), a playbook's output changed a job after the update
("stdout"), a consumer died inside a handler ("crash"), the repair saved without
announcing ("silent"). Each property names the exceptions it needs; without any one
of them TLC finds it violated, which is what the code does: a task may stay
running, for instance, when a process that saw a job run saves that after another
has saved that all are over.

### ContentImport

An importer `i` is an init container's run of the command; `at` is the table it
is at, `step` the statement.

| code | model |
|---|---|
| `handle`, in the order of its calls | `Order`, `Start`, `Leave` |
| `load_database_maps`, `load_rule_id_map` | `LoadMaps` |
| `load_all_autoacks` | `ReadAcked`, then the table "ack" |
| `update_model_from_config` | `Read`, `Insert`, `Update`, `Delete`: the rows, the bulk insert, the bulk update of changed fields, the delete of missing ones |
| the content's rows | `Config` and the operators it names |
| an exception, a killed container | `Abandon`, `Crash`: the container starts over |
| ack views of both APIs | `CreateAck`, `ReadAck`, `SaveAck`, `DestroyAck` |
| `create_db_reports` for a new organisation | `NewOrgRead`, `NewOrgWrite` |

A file of the content is a row with the fields that another table, a view or an
ack depends on; texts are left out. Where several files give rows of one key, as
the resolutions of a rule may, the last one counts, as in the dictionaries of
`update_model_from_config`. `disturbed` records what ran beside the
present import: one of another version of the content, or a new organisation.

### ContentServer

`pc` goes through `import_all` of one request at a time; a loop over a table or
over a row's tags, playbooks and organisations is an action that takes one of
what is left. `Post`, `SyncRisk`, `SyncImpact`, `SyncTag`, then for each row
`Find`, `SaveRule`, `SaveResolution`, `SyncPlaybook`, `SetPathway`,
`SyncRuleTag`, `ReadAcks` and `WriteAcks` (or `RemoveAcks`), then `DeleteExtra`
and `Notify`. A failing lookup is `Fail`, a killed worker `Kill`. `memory` is the
variable `deactivated_rule_accounts` of each worker's module.

### AccessControl

`phase` leads a request through `Authenticate`, `Ask` (one permission class
after another, combined by `|` or in a list), and for `InsightsRBACPermission`
either `Attempt`, `GiveUp` and `Answer` (RBAC, by `retry_request`), or
`GetWorkspace` and `Check`, or `ReadPage` (Kessel). `response` is the object that
`retry_request` keeps from one attempt to the next. A request's path is the
record `view`: its authentication, its classes, its resource and scope, by
method where the code lets methods differ. `FlagChanges` may come between any
two steps, since each call asks the feature flag anew.

### Visibility and UserViews

`Visibility` has the tables and, as operators on a request `q`, the filters of
`filters.py` and the queries that views share: `HostsForAccount`, `Reports` and
`ReportsByJoins` (`get_reports_subquery`, without and with `use_joins`),
`GetSystems` (`get_systems_queryset`), rules and pathways with what is annotated
to them. A query parameter is the set of values given for it. `UserViews` has
an operator for what each view lists or counts (`RuleList`, `SystemList`,
`Stats`, `Overview`, `TopicReports`, `PathwayRuleSystems`, the exports,
`DisabledRules`, `Hostacks`) and an action for each request that writes
(`AckRule`, `UnackRule`, `CreateHostack`, `DestroyHostack`, `ReadHostack` and
`SaveHostack`, `StartAckHosts` and `AckHost`, `UnackHosts`). A host ack is of an
organisation and of any host, another organisation's too. A rule's risk is from 0
(a likelihood of null counts as 0) to 4, and the filter on hits offers 1 to 4.
`has_tag` and `topic` look at one join of the rule's tags, so that one tag has to
be of both (`TagAndTopicOk`). The writes of the
other processes are `Upload`, `TimePasses`, `LeavesInventory`, `HostDeleted`,
`Autoacks` and `RuleFlips`, each as the module of that process has it, in one
step.

### SatViews and MaintenancePlans

`SatViews` has Satellite's lists over the same tables. `MaintenancePlans` has each
worker's request as a `job` of single statements: `Create`, `Gather` and `Insert`
(`add_actions`), `StartUpdate`, `SavePlan`, `DeleteActions`, `KeepActions`,
`Destroy`, `StartSetPlaybook` and `SetPlaybook`, `Unregister`, `SatAck`.

A plan that comes from `get_queryset` carries a filtered prefetch of its actions
(`maintenance.py:300-309`), and every later `plan.actions.filter(...)` or
`.exclude(...)` is a query over that filter, made when it is asked for. So an
update deletes, keeps and compares with the actions that the plan shows at each
statement (`PlanShows`: active rule, not acknowledged, host in the inventory), and
`plays` and `plays_set_playbook` see no others, while the plan that `create` has
just made is an object without prefetch: `ActionsRead` has both. Plans are given
hosts by account, which a request and a host may both be without
(`permissions.py:685-690`); `Reaches` says which organisations' plans may hold a
host.

### WeeklyReports

| code | model |
|---|---|
| `update_wrs` and the three views that call it | `Ask` (reads whether there is a subscription), `Write` |
| `AutosubExclusionViewSet` | `Exclude` |
| `Command.handle`, `get_account_orgs` | `StartAll`, `StartByHand` |
| `get_users_to_email` | `ReadSubscriptions`, `CheckUsers`; `MiddlewareFails` |
| `get_reports` | `GetReports` |
| `send_emails` | `Send`, `SendFails`, `Save` |
| `delete_expired_users` | `DeleteExpired` |
| time, other services, hosts | `TimePasses`, `StandingChanges`, `SystemsChange`, `Crash` |

A subscription has its age in place of a time, an action of time makes all ages
one hour older. New subscriptions take the number of the request as their identifier. `history`
has what the properties are about: for each user the
hours since the last report, how many came after unsubscribing, whether its
arrival is in doubt (the process died, or the send failed, after the mail may
have left), and whether the user was ever refused.

The model has one run of the command at work at a time. Nothing in `handle`
(`weekly_report_emails.py:444-469`) ensures it: a run that outlasts the time to
the next, or one started by hand, would read the subscriptions that another is
about to mark, and send their reports twice. What is said of reports holds as
long as runs do not overlap, which is for the schedule to see to.

## Runs

| run | question | instance |
|---|---|---|
| `pool` | does the Advisor Service keep its promise, and finish? | 2 threads, 2 hosts (the second replicated before the run, the first perhaps), 10 logs of two to four messages, 2 database errors, 1 replication operation, `Retries = 2` |
| `account` | are existing reports updated? no | one host, two messages |
| `replication` | is the replica complete, convergent and consistent? | 2 consumers, 4 logs of 3 events, batches of 1 or 2, 2 faults, 1 move from a live owner, 1 upload, 1 cull |
| `replication_batch` | is only the last event of a host applied? no | one log: created, deleted |
| `tasks` | does an executed task follow its jobs, and end? | 11 situations with up to 2 jobs, at most 1 crash |
| `content` | does an import that ends bring its content in, and end? | 2 importers, 3 contents and a broken one, 2 rules, 2 organisations, 6 loads of up to 3 imports with 1 crash, 2 requests or 1 new organisation |
| `content_autoack` | are autoacks there after an import? no | one importer, the same content twice |
| `server` | does an answered request bring its content in? | 2 workers, 5 sequences of 3 or 4 contents, up to 1 killed worker, up to 3 requests and uploads |
| `access` | is a request granted exactly when it should be? | 15 identities, 10 views, 2 requests in a row, 3 attempts |
| `views` | do the views agree? | 3 hosts of 2 organisations, 3 rules (one of risk 0), 2 pathways, one rule acknowledged for one host, 6 requests with every filter, 2 changes |
| `sat` | do Satellite's views agree, and plans keep their actions? | 2 workers, 2 plans, 3 hosts (two share an Insights identifier, two have no account), an organisation with and one without account, 2 lists to add, 2 requests, 1 other change |
| `weekly` | do reports come, once, to those entitled? | 2 users, 2 organisations, 2 requests, 1 change of standing, 1 failure, 2 attempts |

Bounds. Two threads give every pairwise race, and three handlers never meet on
one lock in a new way: a lock has one holder, and a waiter only waits. Each log
is one of the situations where handlers meet: two sources for one host, uploads
around a delete, two deletes, two hosts of a new organisation, systems that a
filter reduces to one rule or to another rule of the same filter, an account
that disappears, rejected messages. `MaxFaults = 2` with `Retries = 2` reaches both a retried and a failed
delete. `MaxRepl = 1` lets the replication service remove or create a host in
any gap. For the replication, two faults allow a crash during the redelivery of
a batch that crashed, and one move gives an old owner that still writes. Two
importers race on every table, and a third import follows on what they left;
the loads combine the same and different contents. Two requests after one
another suffice for what a worker remembers (the cache, the flag), three
attempts for a failure before and after an answer. The views' properties are
about one state of the tables at a time: two changes reach every combination of
two reasons to hide a report, and the requests use every filter at least once,
with the fixtures differing in each column that a filter reads. Two requests of
two workers interleave all statements of two updates of one plan; the third
party is the change. For the weekly reports, one failure may hit either
organisation while the other waits.

Deadlock is checked in `pool`, `replication` and `tasks`, whose only stopping
states are `Stopped`, `Drained` and `Settled`, which say that all work is done.
In the others the users and the environment may stop asking.


### What the runs show

Each property states its exceptions; without any one of them TLC finds it
violated by what the code does.

**`pool`.** The unique constraint of CurrentReport is never met
(`UniqueReports`): everyone who inserts holds the Host row lock. The permits of
the executor are conserved on every exit (`PermitsConserved`). A consumer that
folds the webhooks knows the active, unacknowledged reports, while there is no
fault, no deletion and no replication, and so does the reader of the inventory
views for all reports (`EventsTrackReports`); excepted are rules that a message
spares and, of webhooks, rules acknowledged after they were announced, of which
no 'resolved' comes. A delete that
succeeds leaves no upload, report or host ack, except those of an upload that
commits while it runs (`DeleteErases`). No handler and no queue is stuck
(`HandlersFinish`). The whole implements `HostReports` (`KeepsPromise`).

**`replication`.** No offset is committed before its events are applied
(`CommittedHandled`). The replica says what the log says, in the end and for
good (`Converged`, `EventuallyReplicated`), except for hosts that `overtaken`
records: those whose batch mixed an upsert with a later delete, or which a
consumer wrote after it had lost the partition. Host rows accompany inventory
rows, except when the culling job deletes a row it had selected before the event
that replicates it (`TablesAgree`).

**`tasks`.** When nobody is at work, an executed task says what its jobs say,
stated from the meaning of each status and not by the code's case distinction
(`ReflectsJobs`); the last announcement is that status (`LastAnnounced`). While
the task is not withdrawn all its jobs end, whatever is dropped or crashes, since
the timeout job runs; and once they have ended, the executed task is over but for
a crash or an overlap (`EventuallyOver`). Jobs of a withdrawn task stay running
for ever, as the timeout job only looks at active ones. The eleven situations
are playbooks and scripts that end, fail or never answer, alone or two at a time,
one that could not be dispatched, none that could, and a cancellation, deletion,
repair, withdrawal or crash in between. Two jobs make every combined status but
those that need three different ones, and let every two processes race.

**`content`.** An import that ends has brought its content in: rules with their
tags, resolutions and playbooks, also after it failed half way and started over,
and beside another importer of the same content (`ImportMirrors`). No import
takes over or deletes the ack of a user, also one made, edited or taken back
between its read and its write (`UserAcksKept`). Red Hat's acks go with the tag,
unless a new organisation is welcomed while the import reads them
(`NoStrayAutoacks`). A row that another importer inserted first makes an import
fail and start over, never for ever (`ImportsFinish`).

**`server`.** A request that is answered has brought its content in, whatever
earlier requests that failed or were killed left behind (`PostMirrors`), and no
user's ack is lost but with its rule (`UserAcksKept`).

**`access`.** A view behind RBAC runs if and only if RBAC answered and entitles
the user to it, in the sense of the classes' docstrings (`GrantedIfEntitled`);
the host groups of a request whose roles RBAC gave are those of all roles, in any
order (`GroupsExact`).
What Kessel grants was granted in the workspace of the request's own
organisation, whatever the worker's cache held (`KesselGrants`), and no page of
groups is left out (`PagesComplete`), though the feature flag may change between
any two steps.

**`views`.** The two forms of the query for reports agree for every filter
(`JoinsAgree`). The statistics agree with the lists of systems, reports and
rules, and a filter and its opposite divide each list (`StatsAgree`). The six
ways to ask which systems a rule affects agree (`DetailsAgree`); the pathway
views agree with each other and with the systems (`PathwaysAgree`). A report that
no view shows is listed as disabled (`HiddenAccounted`).

**`sat`.** The actions that plans show for a system are those the export counts,
unless a request of another organisation has the system's account or lacks one
as it does (`ActionsCounted`); systems, reports, rules, topics and statistics
agree (`SatAgree`); an unregistered host is nowhere (`UnregisteredHidden`). A
request adds no second action beside one that it has read (`NoNewDuplicates`);
beside one stored since, or hidden from an update, it does. A plan loses an action only
with the plan or the host, or to an update of that plan that is shown the action
when it goes and names it, or does not list it among those to keep; what an
acknowledgement, an inactive rule or the inventory hides is there when that ends
(`PlansKeepTheirActions`).

**`weekly`.** While runs do not overlap, nobody has two reports within the minimum of hours, except after a
crash or a late failure of a send, when the mail may have left without being
recorded (`NotTwice`). Who unsubscribes gets what one run was sending, no more
(`StopsAfterUnsubscribing`). The command deletes no subscription of a user who
was never refused, and a lookup that fails is a refusal (`KeepsTheEntitled`). Who
is due and entitled gets a report in the end (`ReportsKeepComing`), whether or not
the organisations before have systems and receivers. A failure of the middleware
does end a run, and this property holds as failures are bounded: what failed in
every run would keep the organisations after it from being served.

Three runs are about a statement of the repository that the code does not keep;
"findings" in `PROJECT.json` quotes them. `account`: reports stored with an
account number are not updated by a message without one. `replication_batch`: a
host created and then deleted in one batch stays. `content_autoack`: the second
import of the same content deletes the autoacks that the first has made.

### Observations

What the code does and the models follow, where a reader may expect otherwise.

* Advisor Service. The system-type filters put a setting's whole list in place of
  the reported rules (`service.py:381`): reports of other rules of the list are
  neither reported nor deleted, and what an earlier upload reported of such a rule
  stays until an upload to which the filter does not apply. A third-party source resolves reports of the insights
  client, against the note at `reports.py:145`. `ack__isnull`
  (`service.py:295-300`) gives autoacks to the first organisation only.
* Tasks. A completed executed task may have a failed job
  (`tasks_service.py:218`). `save()` inserts an executed task again that was
  deleted meanwhile (`tasks_service.py:506`). The timeout job visits a task once
  per stale job (`stale_job_timeout.py:39`).
* Content. Playbooks are not kept unique by resolution and type, as their comment
  says. `deactivated_rule_accounts` is never cleared
  (`scripts/import_content.py:644`), so that later requests of the worker notify
  again.
* Views. An incomplete row of pathway aggregates leaves the defaults of the other
  fields (`models.py:942`). Acknowledging a host that is stale or gone is refused
  (`hostacks.py:133`). The list of pathways fails when one is deleted between its
  two queries. The list of a topic's systems drops systems of one display name,
  since it is distinct by its sort fields. A host ack may be made for a host of
  another organisation (`hostacks.py:132-156`); it hides no report, but the list
  of disabled rules names the rule, and to its own organisation the host is one with
  a disabled recommendation (`filters.py`). Exports fail for a host without
  upload. An update of a host ack that another request deleted creates it again;
  acknowledging many hosts is a loop without transaction.
* Satellite. "We do not add actions if there is already an action for this host on
  that rule [...] in the plan, if we're updating it", says `add_actions`
  (`maintenance.py:221-223`). An update compares with the actions the plan shows
  (`maintenance.py:226`, `458`), so that adding again what an acknowledgement, an
  inactive rule or an absent host hides stores it twice, and both show when that
  ends; two updates of one plan at once do so as well. The model reaches both, and
  `NoNewDuplicates` excepts them. By the same filter, deleting actions and
  keeping some leaves the hidden ones. A request without account adds hosts of any
  organisation that have none (`maintenance.py:249`), although `models.py:55` says
  that it is always present. A plan or action that was deleted while it was being
  saved is back. The docstring of unregistering says that uploads are
  marked, they are deleted.
* Weekly reports. A `ValidationError` of the middleware's answer is not caught
  (`weekly_report_emails.py:254`), nor is the error of saving a row that was
  deleted meanwhile: either ends the run. An RBAC failure counts as a refusal and,
  with `--delete-expired-users`, deletes the subscription of a user who is
  permitted. Expired users of an organisation without recipients or systems are
  never deleted. Taking back an automatic subscription removes a manual one.

## Fairness

* `HandlersFinish`: each thread keeps running (weak fairness of `Handler(w)`:
  the operating system schedules threads, PostgreSQL grants free locks and picks
  deadlock victims), and the replication service finishes a transaction it began
  (`ReplDelete(h)`). Polling is not fair.
* `EventuallyReplicated`: consumers run, an ended process is restarted (by its
  deployment), and the group gives the partition of a dead owner to a live
  consumer. A move away from a live one may happen or not.
* `EventuallyOver`: consumers run, the timeout job is started again and again
  (its comment says every minute), a request or command that has begun goes on.
  Nobody has to cancel, delete, withdraw or repair.
* `ImportsFinish`: an importer goes on, an init container that failed is started
  again, as Kubernetes does.
* `ReportsKeepComing`: the command is started again and again (a cron job), goes
  on once it runs, and time passes. Nobody has to subscribe.

No fault is fair and all are bounded, so liveness says: after the last failure
all work is settled. The other modules state safety alone: a request there is a
sequence of statements without waiting.

## Proofs

Each theorem holds for all constants that satisfy the named assumptions of its
modules, which TLC evaluates in the runs: finite sets of rows, threads and jobs;
typed data and distinct lock holders; rules of risk 0 to 4
(`VisibilityAssumption`); content that maps the names of its risks to values
(`ContentAssumption`). No theorem states a further hypothesis. Where an
argument is an induction (over offsets of a log, over finite sets), it takes a least
counterexample of a well-founded order (`WFMin`) from the set of those there are.

`AdvisorService_proofs`:

* `TypeCorrect`: one lemma for each phase of the handlers.
* `PermitsAreConserved`: the permits equal `NumWorkers` minus queued and busy
  handlers. Inductive with the types; `BusyCount` says how the number of busy
  threads changes, `PoolStep` covers poll, take and finish.
* `ReportsAreUnique`: `UniqueReports` is not inductive. The strengthening,
  `HostLocked`, says that a thread between `LockHost` and the end of its
  transaction holds the Host lock, and that its snapshot contains every report
  the host has (rows may go, by deletes, but none may come, since inserting needs
  the lock). Then what it inserts is new, and what it updates is one row per rule.
* `DeletesErase`: `Erasing` follows a delete through its statements. While no
  upload of the host has committed since it began (`commits` against `mark`), the
  uploads that it selected are all there are, and after each statement the rows
  that it deleted are still gone, also after a retry or a deadlock.
* `EventsTrack`: needs what rows and threads hold of each other (`Held`): a thread
  holds rows only where it is about to use them (`Tidy`), an upload's number is of
  one host in all places (`Fit`), a delete takes the reports of the uploads it
  selected (`Chosen`), a report's rule has content (`Sourced`), and what was read
  under the lock is one report per rule, and all there are (`Seen`). For a host
  that nothing disturbs, a transaction then finds what it read still there, and
  the webhooks that it sends are the difference between two sets of reports.
* `PromiseKept`, the refinement: every step of a thread is classified by what it
  does to rows and outcomes (`Calm`, `Stops`, `Moves`), and each class is a step
  of `HostReports` or a stutter. `Unsettled` says that a message is in one place
  only, so that it is settled once. `Together` says that the reports of a host that
  no message would leave (`LeftBy`) are on one upload row, so that a delete takes
  all of them or none. The messages of one host may carry different accounts;
  what becomes of reports then, the `account` run shows: an upload leaves
  them as they were, and so does the abstract one.

`InventoryReplication_proofs`:

* `TypeCorrect`, with the fact that what a consumer will write lies in its batch.
* `NothingLost`: every event before a consumer's position was handled, since
  positions move over handled batches only, and resume from a committed offset.
* `TablesStayInStep`: inductive once the culling job is known to hold nothing
  before it has run (`NothingCulled`).
* `ReplicaConverges`: a batch may be applied again from any offset between the
  committed one and the position, so that the invariant, `Replayable`, is about all
  of these: the row of a host that nobody overtook is one from which the rest of
  the log leads to the right value (`UpTo`). A row stands for a position if,
  unless a delete is still to come, it is the latest of the upserts that no delete
  follows; `Mid` says what each statement of an open batch has established. That
  at the end of the log this is the value of `Final`, a recursive function over
  the log, is an induction over its offsets.

`TasksLifecycle_proofs`:

* `TypeCorrect`, and with it the foreign key: no job without its executed task.
  What a process is about to save has been decided.
* `StatusAnnounced`: unless something was missed, each process about to announce
  will announce the status that the executed task has, or that task runs again or
  is gone; and before the creation commits no process has begun.
* `StatusReflects`: `Following` says that, unless something was missed, the
  executed task has the status that its jobs ask for, or some process will read
  the jobs again before it saves (`BoundTo`), with a copy of the executed task
  that is not outdated (`HeldBy`). The timeout job is where this may fail with no
  second process reading and writing at once: it reads all executed tasks first,
  saves one, and comes back with the copy of before. If a job runs again by then,
  its update compares with the wrong status, which `missed` records as "again";
  the proof shows that there is no other such case.

`WeeklyReports_proofs`:

* `TypeCorrect`, with two facts: who is not granted the report was refused at
  some time (`Refused`), and whom a run takes for expired was (`Expiring`).
* `EntitledKept`: follows, since `DeleteExpired` deletes from that set only.
* `ReportsAreSpaced`: `NotTwice` needs `Marked` (a subscription's age is at most
  the hours since the last report, unless that is in doubt) and `Fresh` (whom a
  run is to mail, was due). Between the read of a subscription and the send, time
  only adds hours, so that who was due remains due; a new subscription in between
  is in doubt.
* `Stops`: `StopsAfterUnsubscribing` needs that who is subscribed has no late
  report (`SubscribedNone`), so that whom a run has read has none, and that the
  late reports of the user at hand are at most the attempts made
  (`AttemptsCount`). A row that has gone ends the run at `Save`.

`UserViews_proofs`:

* `TypeCorrect`, with the foreign keys: uploads, reports and host acks belong to
  known hosts.
* `ViewsAgree`: by these keys a join with the inventory loses no row that the
  sub-queries find, filter by filter.
* `HiddenIsAccounted`: a report of an eligible host and active rule that is not
  shown has an ack or a host ack, and by the keys this ack is of a host that the
  list of disabled rules counts.
* `SystemsAgree`, `PathwaysCountTheirSystems`: each view is reduced to the set of
  reports that the request sees, by the same keys.
* `StatsAgreeWithLists`: the number of reports of a risk is the sum over hosts of
  what their rows count, and the reports of all risks are those of risks 0 to 4
  (`Rated`). The lemmas are about cardinalities of finite sets of
  pairs, by induction over finite sets of hosts.

`MaintenancePlans_proofs`:

* `StaysUnregistered`: an unregistered host has neither upload nor report
  (`Nothing`), and nothing but an upload brings one.
* `ActionsIdentified`: among the stored actions and those that `SetPlaybook` may
  store again, an identifier tells plan, rule and host, and is below the next one.
  A serial number is given once, and a request keeps what it read.
* `PlansKeep`: an update deletes what its plan shows to its organisation at that
  statement, which is the organisation that the plan still has (`Owned`), and what
  `SetPlaybook` stores again has its plan, rule and host.
* `NoneAddedTwice`: of the rows that `Gather` leaves, none has the rule and the
  Insights identifier of an action that the request has read (`Fitting`), also
  when others set that action's playbook before `Insert`.
* `ExportCounts`: there is an assignment of plans to organisations (`Owned`) that
  all stored plans, actions and requests under way agree with, also those that
  will store a deleted plan or action again, since an identifier is never given to
  a second plan; an action's host is one that the requests of its plan's
  organisation reach (`Reaches`).
* `SatelliteAgrees`: a host with a report has an upload (`Backed`), so that the
  lists of systems and of reports start from the same hosts; the hits of a topic
  are the sum over its rules, by induction over finite sets.

`ContentImport_proofs`:

* `TypeCorrect`: what an importer holds of the table at hand, the rows it wants and
  the lookups it loaded, is of its own content (`Prepared`).
* `ContentMirrored`: beside an undisturbed importer all others run the same content
  (`Kin`), so that any importer's insert, update or delete moves a table towards
  this content and never away from it (`Toward`), however old the rows are that it
  compares with. What an importer has established of the table at hand
  (`Mirroring`) and of those it has left (`TagsKept`, `BooksKept`) thus lasts until
  it ends. Playbooks hang on a resolution and may have several rows, hence a
  statement of their own.
* `UsersKeepTheirAcks`: rows of the ack table are a user's or Red Hat's, the import
  selects only the latter, and deletes by the rows it read.
* `AutoacksFollowTheTag`: by `Tagged`, once an import has deleted the acks of Red Hat
  that it read, or read none, those there are of rules with the tag: the others that
  run ask for the same ones (`Kin`), and no new organisation is being welcomed
  (`Alone`) with the tags of before.

Its last section, `Server == INSTANCE ContentServer`, is about the content server:

* `PostsMirrored`: a row that the loop has left stands in the tables until a later
  row up to the one at hand tells of the same rule or resolution (`Passed`); each
  step leaves what it has written of the row at hand (`Current`), and the rules that
  `DeleteExtra` leaves are the content's (`Emptied`). Nothing is assumed of what
  earlier requests left behind, and users and uploads write only acks and reports.
* `UsersAcks`: `WriteAcks` stores only acks that are not there, since the index
  refuses the others, and `RemoveAcks` takes only those of Red Hat.

Both assume `WellFormed` (`PostsAssumption`): what is posted are sequences of rows,
and what may happen beside it is counted by natural numbers.

`AccessControl_proofs`, by one invariant over the phases of a request: until
`InsightsRBACPermission` is asked the request is as it arrived, and it is asked
once at most, so that `response`, `tries`, `workspace` and `scanned` are this
request's.

* `TypeCorrect`.
* `GrantedWhenEntitled`: the answer is RBAC's, and the match of roles by `Covers`
  is the one the docstrings state.
* `KesselGrantsOwn`: the cache maps an organisation to its own workspace, whatever
  was asked before.
* `GroupsAreExact`: the early return of `find_host_groups` on an unlimited role
  leaves the request without groups, as the union of all roles would not be.
* `AllPagesRead`: the groups are those of the pages up to `scanned`. It is assumed
  of Kessel that only the last page of a listing has no token or no group.

Model-checked only:

* Liveness (`HandlersFinish`, `EventuallyReplicated`, `EventuallyOver`,
  `ImportsFinish`, `ReportsKeepComing`), which TLAPS does not reach.

All other properties of the passing runs are theorems.

## Not modelled

* Ratings, KCS, categories, status and the other views of single rows: one
  statement each, on rows nobody else reads.
* `handle_sources_event`, the read views and job logs of the tasks service: its
  two updates would restate themselves; the views are filtered lists.
* `purge_nil_insights_id_hosts`: the select and the later delete of
  `delete_stale_api_hosts`, which is modelled, over other rows.
* Sorting, searching and paging of lists; Satellite's groups, branch info and account,
  which answer from fixed data.
* Runs of `weekly_report_emails` that overlap.
* The age of Host rows, by which the culling job selects.
* The accounts of host acks in the views, which go by organisation.
* Reads from a lagging replica (`ADVISOR_DB_READONLY_HOST`): the modules have the
  default routing.
* Paths into messages, wording, metrics, logging, the transport of the payload
  tracker, deployment and dashboards.
