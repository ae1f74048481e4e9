----------------------------- MODULE UserViews ------------------------------
(***************************************************************************)
(* The views of the Advisor API over the tables of Visibility: what each   *)
(* lists or counts for a request, and the requests that change them, the   *)
(* acknowledgements of a rule for an organisation, for a host, or for many *)
(* hosts one after another without a transaction.                          *)
(*                                                                         *)
(* The other processes of the system, modelled by AdvisorService,          *)
(* InventoryReplication and ContentImport, are here what they do to the    *)
(* tables: an upload, the passing of time, the deletion of a host, a rule  *)
(* that content activates or takes away.                                   *)
(***************************************************************************)
EXTENDS Visibility

CONSTANTS
  Uploaded,      \* fixture: sets of rules an upload may report
  TopicTags,     \* fixture: the tag of each topic
  AckedFirst,    \* fixture: what is acknowledged at first
  Batches,       \* fixture: the hosts that one request may name
  MaxChanges     \* bound: changes to the tables

\* The query parameters that a request may have, besides what was found of it.
Parameters ==
  {"tags", "type", "profile", "category", "branch", "methods", "workloads", "groups", "pathway", "name",
   "versions", "hits", "incident", "disabled", "ruleTags", "impacting", "ruleIncident", "playbook", "status",
   "reboot", "shown", "risk", "topic"}

ASSUME UserViewsAssumption ==
  /\ \A q \in Requests : DOMAIN q = {"org", "allowed", "owner"} \cup Parameters
  /\ Uploaded \subseteq SUBSET Rules /\ AckedFirst \subseteq SUBSET (Orgs \X Hosts \X Rules)
  /\ Batches \subseteq SUBSET Hosts /\ MaxChanges \in Nat

VARIABLES
  job,           \* the request of several steps that is being answered
  changes        \* bound: changes made

vars == <<db, job, changes>>

NoJob == [view |-> None]
-----------------------------------------------------------------------------
(* Views of rules (views/rules.py). *)

\* filter_on_has_playbook: the count of a rule without playbooks is no
\* number; here 0 stands for it.
PlaybookCount(r) == RuleOf[r].playbooks
PlaybookOk(q, r) == q.playbook # {} => IF TRUE \in q.playbook THEN PlaybookCount(r) > 0 ELSE PlaybookCount(r) = 0

ImpactingOk(q, r) == q.impacting # {} => (ImpactedBy(q, r) # {}) \in q.impacting
RuleIncidentOk(q, r) == q.ruleIncident # {} => ("incident" \in RuleOf[r].tags) \in q.ruleIncident
StatusOk(q, r) == q.status = {} \/ "all" \in q.status \/ RuleStatus(q, r) \in q.status

\* has_tag and topic look at one join of the rule's tags: one tag is of both.
TagAndTopicOk(q, r) ==
  q.ruleTags \cup q.topic # {} =>
    \E t \in RuleOf[r].tags : Selects(q.ruleTags, t) /\ Selects({TopicTags[u] : u \in q.topic}, t)

\* RuleViewSet.list.
RuleList(q) ==
  {r \in RulesForAccount :
     /\ Selects(q.pathway, RuleOf[r].pathway)
     /\ Selects(q.category, RuleOf[r].category)
     /\ TagAndTopicOk(q, r)
     /\ ImpactingOk(q, r) /\ RuleIncidentOk(q, r) /\ PlaybookOk(q, r) /\ StatusOk(q, r)
     /\ Selects(q.reboot, RuleOf[r].reboot)
     /\ Selects(q.shown, ReportsShown(q, r))
     /\ Selects(q.risk, RuleOf[r].risk)}

SystemFilters(q, h) == Selects(q.name, HostOf[h].name) /\ Selects(q.versions, HostOf[h].os)

\* RuleViewSet.systems, of any rule, and .systems_detail, of an active one.
RuleSystems(q, r) == {h \in ReportingSystems(q, r) : SystemFilters(q, h)}
RuleSystemsDetail(q, r) == {h \in GetSystems(q) : r \in HitsOf(q, h)}

\* RuleViewSet.stats: over all organisations, whoever acknowledged what.
RuleUsage(r) ==
  LET hit == {h \in Hosts : <<h, r>> \in reports /\ NotStale(h)}
  IN  [ systems |-> Cardinality(hit), accounts |-> Cardinality({HostOf[h].org : h \in hit}),
        acked |-> Cardinality({o \in Orgs : acks[<<o, r>>] # None}) ]

\* InternalRuleViewSet.reports: every report, stale or not.
InternalReports(r) == {x \in reports : x[2] = r}
-----------------------------------------------------------------------------
(* Views of systems, statistics, topics and pathways, and the exports. *)

SystemList(q) == GetSystems(q)
SystemReports(q, h) == {r \in Rules : <<h, r>> \in ReportsByJoins(q)}

\* Variant: rows are counted.
CountedRows(rs, field) == rs

\* stats_counts of distinct rules, reports or systems.
Counted(rs, field) == IF field = "rule" THEN RulesIn(rs) ELSE IF field = "system" THEN HostsIn(rs) ELSE rs
StatsCounts(rs, field) ==
  [ total     |-> Cardinality(Counted(rs, field)),
    risk      |-> [n \in 1..4 |-> Cardinality(Counted({x \in rs : RuleOf[x[2]].risk = n}, field))],
    category  |-> [c \in 1..4 |-> Cardinality(Counted({x \in rs : RuleOf[x[2]].category = c}, field))],
    incidents |-> Cardinality(Counted({x \in rs : "incident" \in RuleOf[x[2]].tags}, field)) ]
Stats(q, field) == StatsCounts(ReportsByJoins(q), field)

\* overview_stats_counts.
Overview(q) ==
  LET hit == RulesIn(ReportsByJoins(q))
  IN  [ pathways  |-> Cardinality({RuleOf[r].pathway : r \in hit} \ {None}),
        incidents |-> Cardinality({r \in hit : "incident" \in RuleOf[r].tags}),
        critical  |-> Cardinality({r \in hit : RuleOf[r].risk = 4}),
        important |-> Cardinality({r \in hit : RuleOf[r].risk = 3}) ]

\* RuleTopicViewSet.get_queryset, and .systems, where a list that is sorted
\* keeps one host for each value it is sorted by.
TopicReports(q, t) == {x \in Reports(q) : TopicTags[t] \in RuleOf[x[2]].tags}
TopicCount(q, t)   == Cardinality(HostsIn(TopicReports(q, t)))
TopicSystems(q, t) == HostsIn(TopicReports(q, t))
TopicRules(t)      == {r \in active : TopicTags[t] \in RuleOf[r].tags}

\* PathwayViewSet.reports: the active rules of the pathway.
PathwayRuleSystems(q, p) ==
  [r \in {r \in RulesOfPathway(p) \cap active : \E h \in Hosts : <<h, r>> \in Reports(q)} |->
     {h \in Hosts : <<h, r>> \in Reports(q)}]
PathwayRules(p) == RulesOfPathway(p) \cap active

\* The exports (views/export.py); the hits are filtered further.
ExportHits(q) ==
  {x \in ReportsByJoins(q) :
     /\ Selects(q.risk, RuleOf[x[2]].risk) /\ Selects(q.name, HostOf[x[1]].name)
     /\ q.ruleIncident # {} => ("incident" \in RuleOf[x[2]].tags) \in q.ruleIncident
     /\ Selects(q.reboot, RuleOf[x[2]].reboot) /\ PlaybookOk(q, x[2])
     /\ q.topic # {} => \E t \in q.topic : TopicTags[t] \in RuleOf[x[2]].tags}
ExportReports(q) ==
  {x \in ReportsByJoins(q) : q.topic # {} => \E t \in q.topic : TopicTags[t] \in RuleOf[x[2]].tags}
ExportRules(q) == {r \in RulesForAccount : q.topic # {} => \E t \in q.topic : TopicTags[t] \in RuleOf[r].tags}
ExportSystems(q, r) == {h \in GetSystems(q) : r # None => r \in HitsOf(q, h)}
-----------------------------------------------------------------------------
(* Views of what is disabled (views/disabled_rules.py, acks.py, hostacks.py). *)

\* Variant: only acknowledgements for the organisation are listed.
DisabledRulesAcks(o) == [scope : {"account"}, rule : AckedBy(o) \cap active]

DisabledRules(o) ==
  [scope : {"account"}, rule : AckedBy(o) \cap active] \cup
  [scope : {"system"}, rule : {r \in active : \E h \in Hosts : <<o, h, r>> \in hostacks}]

\* DisabledRulesViewSet.retrieve: the organisation's first.
DisabledScope(o, r) ==
  IF r \in active /\ acks[<<o, r>>] # None THEN "account"
  ELSE IF r \in active /\ \E h \in Hosts : <<o, h, r>> \in hostacks THEN "system" ELSE None

\* AckViewSet.get_queryset, .all without the automatic ones; AckCountViewSet.
AcksOf(o)   == AckedBy(o) \cap active
AllAcks     == {x \in Orgs \X active : acks[x] \notin {None, Autoack}}
AckCount(r) == Cardinality({o \in Orgs : acks[<<o, r>>] # None})

\* HostAckViewSet.get_queryset.
Hostacks(o) == {x \in hostacks : x[1] = o /\ HostOf[x[2]].org = o /\ NotStale(x[2]) /\ x[3] \in active}
-----------------------------------------------------------------------------
Init ==
  /\ active = Rules /\ known = Hosts
  /\ fresh = [h \in Hosts |-> "fresh"]
  /\ \E rs \in Uploaded : reports = Hosts \X rs
  /\ uploads = Hosts \X {Puptoo}
  /\ acks = [x \in Orgs \X Rules |-> None]
  /\ hostacks \in AckedFirst
  /\ job = NoJob /\ changes = 0

Changes == changes < MaxChanges /\ changes' = changes + 1
Content == <<active, fresh, known, uploads, reports>>

\* AckViewSet.create, of any rule, active or not, and .update: the user's
\* acknowledgement takes the place of what there was.
AckRule(o, r) ==
  /\ Changes /\ acks[<<o, r>>] # "user"
  /\ acks' = [acks EXCEPT ![<<o, r>>] = "user"]
  /\ UNCHANGED <<Content, hostacks, job>>
\* AckViewSet.destroy finds those of active rules.
UnackRule(o, r) ==
  /\ Changes /\ r \in active /\ acks[<<o, r>>] # None
  /\ acks' = [acks EXCEPT ![<<o, r>>] = None]
  /\ UNCHANGED <<Content, hostacks, job>>

\* HostAckViewSet.create, for any host with a row, updates the row when the view
\* lists it, and inserts it otherwise, which is refused when there is one.
CreateRefused(o, h, r) == <<o, h, r>> \in hostacks \ Hostacks(o)
CreateHostack(o, h, r) ==
  /\ Changes /\ h \in known /\ r \in active /\ ~ CreateRefused(o, h, r)
  /\ hostacks' = hostacks \cup {<<o, h, r>>}
  /\ UNCHANGED <<Content, acks, job>>

\* HostAckViewSet.destroy.
DestroyHostack(o, h, r) ==
  /\ Changes /\ <<o, h, r>> \in Hostacks(o)
  /\ hostacks' = hostacks \ {<<o, h, r>>}
  /\ UNCHANGED <<Content, acks, job>>

\* HostAckViewSet.update reads the row, and later saves it, which inserts it
\* again when it has been deleted; that fails when its host has gone.
ReadHostack(o, h, r) ==
  /\ Changes /\ job = NoJob /\ <<o, h, r>> \in Hostacks(o)
  /\ job' = [view |-> "update", org |-> o, host |-> h, rule |-> r]
  /\ UNCHANGED <<Content, acks, hostacks>>
Saved(o, h, r) == IF h \in known THEN hostacks \cup {<<o, h, r>>} ELSE hostacks
SaveHostack ==
  /\ job.view = "update" /\ job' = NoJob /\ hostacks' = Saved(job.org, job.host, job.rule)
  /\ UNCHANGED <<Content, acks, changes>>

\* validate_hosts_in_org: in the inventory of the organisation.
ValidHosts(o, hs) == \A h \in hs : HostOf[h].org = o /\ fresh[h] # "absent"

\* RuleViewSet.ack_hosts: validates, then writes a row for one host after
\* another, and answers with the systems that are left.
StartAckHosts(o, r, hs) ==
  /\ Changes /\ job = NoJob /\ r \in active /\ ValidHosts(o, hs)
  /\ job' = [view |-> "ack_hosts", org |-> o, rule |-> r, todo |-> hs]
  /\ UNCHANGED <<Content, acks, hostacks>>
AckHost ==
  /\ job.view = "ack_hosts"
  /\ \E h \in job.todo \cap known :
       /\ hostacks' = hostacks \cup {<<job.org, h, job.rule>>}
       /\ job' = IF job.todo = {h} THEN NoJob ELSE [job EXCEPT !.todo = @ \ {h}]
  /\ UNCHANGED <<Content, acks, changes>>
\* A host without a row of its own refuses; the rows before it stay.
AckHostFails ==
  /\ job.view = "ack_hosts" /\ job.todo \ known # {} /\ job' = NoJob
  /\ UNCHANGED <<Content, acks, hostacks, changes>>

\* RuleViewSet.unack_hosts deletes all the rows by one statement.
Unacked(o, r, hs) == {x \in hostacks : x[1] = o /\ x[3] = r /\ x[2] \in hs}
UnackHosts(o, r, hs) ==
  /\ Changes /\ r \in active /\ ValidHosts(o, hs) /\ Unacked(o, r, hs) # {}
  /\ hostacks' = hostacks \ Unacked(o, r, hs)
  /\ UNCHANGED <<Content, acks, job>>
-----------------------------------------------------------------------------
(* The other processes; content or a first upload acknowledges by itself. *)

Upload ==
  \E h \in Hosts, rs \in Uploaded, s \in Sources :
    /\ Changes
    /\ known' = known \cup {h} /\ uploads' = uploads \cup {<<h, s>>}
    /\ fresh' = IF s = Puptoo THEN [fresh EXCEPT ![h] = "fresh"] ELSE fresh
    /\ reports' = {x \in reports : x[1] # h} \cup ({h} \X rs)
    /\ UNCHANGED <<active, acks, hostacks, job>>

TimePasses ==
  \E h \in Hosts :
    /\ Changes /\ fresh[h] \in {"fresh", "stale"}
    /\ fresh' = [fresh EXCEPT ![h] = IF @ = "fresh" THEN "stale" ELSE "warned"]
    /\ UNCHANGED <<active, known, uploads, reports, acks, hostacks, job>>

\* Inventory's event reaches the replicated table, and the row of the host.
LeavesInventory ==
  \E h \in Hosts :
    /\ Changes /\ fresh[h] # "absent"
    /\ fresh' = [fresh EXCEPT ![h] = "absent"]
    /\ UNCHANGED <<active, known, uploads, reports, acks, hostacks, job>>
HostDeleted ==
  \E h \in known :
    /\ Changes
    /\ known' = known \ {h}
    /\ uploads' = {x \in uploads : x[1] # h} /\ reports' = {x \in reports : x[1] # h}
    /\ hostacks' = {x \in hostacks : x[2] # h}
    /\ UNCHANGED <<active, fresh, acks, job>>

Autoacks ==
  \E o \in Orgs, r \in Rules :
    /\ Changes /\ acks[<<o, r>>] = None
    /\ acks' = [acks EXCEPT ![<<o, r>>] = Autoack]
    /\ UNCHANGED <<Content, hostacks, job>>

RuleFlips ==
  \E r \in Rules :
    /\ Changes
    /\ active' = IF r \in active THEN active \ {r} ELSE active \cup {r}
    /\ UNCHANGED <<fresh, known, uploads, reports, acks, hostacks, job>>

Requested ==
  \/ \E o \in Orgs, r \in Rules : AckRule(o, r) \/ UnackRule(o, r)
  \/ \E o \in Orgs, h \in Hosts, r \in Rules :
       CreateHostack(o, h, r) \/ DestroyHostack(o, h, r) \/ ReadHostack(o, h, r)
  \/ \E o \in Orgs, r \in Rules, hs \in Batches : StartAckHosts(o, r, hs) \/ UnackHosts(o, r, hs)
  \/ SaveHostack \/ AckHost \/ AckHostFails
Elsewhere == Upload \/ TimePasses \/ LeavesInventory \/ HostDeleted \/ Autoacks \/ RuleFlips
Next == Requested \/ Elsewhere
Spec == Init /\ [][Next]_vars
-----------------------------------------------------------------------------
(* Properties. *)

\* Every variable has its type, and every row refers to rows that exist.
TypeOK ==
  /\ VisibilityTypeOK
  /\ changes \in 0..MaxChanges
  /\ \/ job = NoJob
     \/ job \in [view : {"update"}, org : Orgs, host : Hosts, rule : Rules]
     \/ job \in [view : {"ack_hosts"}, org : Orgs, rule : Rules, todo : SUBSET Hosts]

\* The query over joins, of reports, statistics and exports, and the query
\* over sub-queries, of rules and systems, see the same reports: the docstring
\* of get_reports_subquery says that it is 'strictly performance related'.
JoinsAgree == \A q \in Requests : ReportsByJoins(q) = Reports(q)

OnSystems(q) == <<q.name, q.versions, q.hits, q.incident, q.disabled, q.pathway>>
Plain(q) == OnSystems(q) = <<{}, {}, {}, {}, {}, {}>> /\ q.category = {}

\* A filter of two values splits its list: with each value, the list is
\* disjoint from the other's, and both are the list without the filter. The
\* four risks together find the systems with hits of any risk but 0, which the
\* filter does not offer.
Splits(whole, part, other) == part \cup other = whole /\ part \cap other = {}
FiltersSplit(q) ==
  /\ Splits(GetSystems(q), GetSystems([q EXCEPT !.hits = {"yes"}]), GetSystems([q EXCEPT !.hits = {"no"}]))
  /\ GetSystems([q EXCEPT !.hits = {"1", "2", "3", "4"}])
       = {h \in GetSystems(q) : \E r \in HitsOf(q, h) : RuleOf[r].risk # 0}
  /\ Splits(GetSystems(q), GetSystems([q EXCEPT !.incident = {TRUE}]), GetSystems([q EXCEPT !.incident = {FALSE}]))
  /\ Splits(RuleList([q EXCEPT !.impacting = {}]), RuleList([q EXCEPT !.impacting = {TRUE}]),
            RuleList([q EXCEPT !.impacting = {FALSE}]))
  /\ RuleList([q EXCEPT !.shown = {TRUE}, !.status = {}]) = RuleList([q EXCEPT !.shown = {}, !.status = {"enabled"}])

\* The statistics agree with the lists they summarise, and the lists with
\* their own filters: as many systems as the list shows when it is asked for
\* those with hits, as many reports as these have hits, as many rules as the
\* list of rules shows enabled and impacting; the overview counts of the
\* incidents what the list of rules filters.
StatsAgree ==
  \A q \in Requests : Plain(q) =>
    /\ FiltersSplit(q)
    /\ Stats(q, "system").total = Cardinality(GetSystems([q EXCEPT !.hits = {"yes"}]))
    /\ \A n \in 1..4 : Stats(q, "report").risk[n] = MapThenSumSet(LAMBDA h : SystemRow(q, h).risk[n], SystemList(q))
    /\ RulesIn(Reports(q)) = {r \in RulesForAccount : RuleRow(q, r).impacted > 0 /\ RuleRow(q, r).status = "enabled"}
    /\ Overview(q).incidents = Stats(q, "rule").incidents
    /\ Overview(q).critical = Stats(q, "rule").risk[4]

\* A rule's systems are the same in each view that tells of them: the list,
\* the list with details, the reports of each system, the exports, and, while
\* the rule is not acknowledged, its count.
DetailsAgree ==
  \A q \in Requests, r \in active : Plain(q) =>
    /\ RuleSystems(q, r) = RuleSystemsDetail(q, r)
    /\ RuleSystems(q, r) = {h \in Hosts : r \in SystemReports(q, h)}
    /\ RuleSystems(q, r) = {h \in Hosts : <<h, r>> \in ExportReports([q EXCEPT !.topic = {}])}
    /\ RuleSystems(q, r) = ExportSystems(q, r)
    /\ ReportsShown(q, r) => RuleSystems(q, r) = ImpactedBy(q, r)

\* What is hidden is accounted for: an active rule reported for a host that is
\* not stale, and that no view shows, is listed as disabled, for the account
\* or for systems; and the host is found by 'has disabled recommendation'.
HiddenAccounted ==
  \A q \in Requests : Plain(q) =>
    \A x \in reports :
      /\ HostOf[x[1]].org = q.org /\ HostEligible(q, x) /\ x[2] \in active /\ x \notin Reports(q)
      => /\ \E d \in DisabledRules(q.org) : d.rule = x[2] /\ DisabledScope(q.org, x[2]) # None
         /\ HasDisabled(q, x[1])

\* A pathway that impacts systems counts those that its own view lists, and
\* the reports it shows are those of its rules.
PathwaysAgree ==
  \A q \in Requests : Plain(q) =>
    \A p \in PathwaysForAccount(q, TRUE) :
      /\ Annotated(q, p, 1, TRUE) = Cardinality(ImpactedSystems(q, p, TRUE))
      /\ ImpactedSystems(q, p, TRUE) = UNION {PathwayRuleSystems(q, p)[r] : r \in DOMAIN PathwayRuleSystems(q, p)}
      /\ \A h \in ImpactedSystems(q, p, TRUE) : h \in GetSystems([q EXCEPT !.pathway = {p}])
=============================================================================
