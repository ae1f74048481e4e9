----------------------------- MODULE Visibility -----------------------------
(***************************************************************************)
(* The tables that the views of the API read, and the queries they share   *)
(* (models.py, filters.py): which reports, systems, rules and pathways a   *)
(* request sees.  A request is a record of its organisation, of what       *)
(* authentication found out, and of its query parameters, each the set of  *)
(* the values given for it: {} when it is absent.                          *)
(*                                                                         *)
(* A host is of one organisation, which is that of its rows and reports.   *)
(* Sorting and paging are left out: lists are sets.                        *)
(***************************************************************************)
EXTENDS Integers, FiniteSets, FiniteSetsExt, TLC

CONSTANTS
  Orgs, Hosts, Rules, Pathways, Sources,
  HostOf,      \* fixture: the inventory's columns of each host
  RuleOf,      \* fixture: the content of each rule
  Published,   \* fixture: the pathways that are published
  Puptoo,      \* the source of the uploads that are 'last seen'
  Requests     \* the requests that are compared

\* Tables are finite; content rates impact and likelihood from 0 to 4.
ASSUME VisibilityAssumption ==
  /\ Puptoo \in Sources /\ "none" \notin Rules \cup Orgs
  /\ IsFiniteSet(Hosts) /\ IsFiniteSet(Rules) /\ IsFiniteSet(Orgs) /\ IsFiniteSet(Pathways)
  /\ IsFiniteSet(Sources)
  /\ \A r \in Rules : RuleOf[r].risk \in 0..4
  /\ \A h \in Hosts : HostOf[h].org \in Orgs
  /\ \A q \in Requests : q.org \in Orgs

VARIABLES
  active,      \* rules whose flag 'active' is set
  fresh,       \* puptoo's timestamps of a host in the inventory's table
  known,       \* hosts with a row of api_host
  uploads,     \* current uploads, <<host, source>>
  reports,     \* current reports, <<host, rule>>
  acks,        \* who acknowledged a rule for an organisation
  hostacks     \* an organisation's acknowledgements for one host, <<org, host, rule>>

db == <<active, fresh, known, uploads, reports, acks, hostacks>>

None  == "none"
Autoack == "autoack"
\* "fresh" before the stale timestamp, "stale" before the stale warning.
Staleness == {"fresh", "stale", "warned", "absent"}
Ackers == {None, Autoack, "user"}
-----------------------------------------------------------------------------
(* Filters on hosts. *)

\* filter_on_param: no values, no filter; several are joined by 'or'.
Selects(values, v) == values = {} \/ v \in values

\* filter_on_host_tags: every tag given.
TagsOk(q, h) == q.tags \subseteq HostOf[h].tags

\* filter_on_system_type.
TypeOk(q, h) ==
  \/ q.type = {} \/ "all" \in q.type
  \/ "edge" \in q.type /\ HostOf[h].type = "edge"
  \/ "bootc" \in q.type /\ HostOf[h].bootc
  \/ "conventional" \in q.type /\ HostOf[h].type = None

\* filter_on_workload: SAP by its flag, the others by being there.
WorkloadOk(q, h) ==
  q.workloads # {} =>
    \E w \in q.workloads : IF w = "sap" THEN "sap_system" \in HostOf[h].workloads
                                        ELSE w \in HostOf[h].workloads

\* filter_on_update_method: all methods are as good as none.
MethodsOf(q) == UNION {IF m = "ostree" THEN {"rpm-ostree"} ELSE {"dnf", "yum"} : m \in q.methods}
MethodOk(q, h) == {"ostree", "dnfyum"} \subseteq q.methods \/ Selects(MethodsOf(q), HostOf[h].method)

\* filter_multi_param: each filter is a field of the profile, 'eq' or 'ne',
\* and a value; 'ne' is the complement, hosts without the field included.
ProfileOk(q, h) ==
  \A f \in q.profile : (f.value \in HostOf[h].profile[f.field]) = (f.op = "eq")

\* get_host_group_filter: a group that RBAC allows, and one of the names; the
\* empty name stands for the hosts that are ungrouped.
GroupOk(q, h) ==
  /\ Selects(q.allowed, HostOf[h].group)
  /\ q.groups # {} => \E n \in q.groups : IF n = "" THEN HostOf[h].ungrouped ELSE HostOf[h].groupName = n

\* cert_auth_q, filter_on_branch_id.
CertOk(q, h)   == Selects(q.owner, HostOf[h].owner)
BranchOk(q, h) == Selects(q.branch, HostOf[h].branch)

\* stale_systems_q: in the inventory, and not past its stale warning.
NotStale(h) == fresh[h] \in {"fresh", "stale"}

HostMatches(q, h) ==
  /\ TagsOk(q, h) /\ TypeOk(q, h) /\ ProfileOk(q, h) /\ CertOk(q, h)
  /\ MethodOk(q, h) /\ WorkloadOk(q, h) /\ GroupOk(q, h)

\* AdvisorInventoryHostManager.for_account; the branch is its row's.
HostsForAccount(q, filterStale, requireHost) ==
  {h \in Hosts : /\ HostOf[h].org = q.org /\ fresh[h] # "absent"
                 /\ filterStale => NotStale(h)
                 /\ requireHost => h \in known /\ BranchOk(q, h)
                 /\ HostMatches(q, h)}
-----------------------------------------------------------------------------
(* get_reports_subquery: the reports a request sees. *)

AckedBy(o) == {r \in Rules : acks[<<o, r>>] # None}

\* Variant: rules that content took away stay.
HiddenRulesAcked(o) == AckedBy(o)

\* The rules left out, by sub-queries of identifiers ...
HiddenRules(o) == (Rules \ active) \cup AckedBy(o)
\* ... and, with use_joins, by conditions on the joined tables.
JoinShows(o, r) == r \in active /\ acks[<<o, r>>] = None

\* The organisation's, without those acknowledged for the host.
Own(q, x) == x \in reports /\ HostOf[x[1]].org = q.org /\ <<q.org, x[1], x[2]>> \notin hostacks

\* exclude_ineligible_hosts.
HostEligible(q, x) ==
  /\ HostMatches(q, x[1]) /\ BranchOk(q, x[1]) /\ NotStale(x[1])
  /\ Selects(q.category, RuleOf[x[2]].category)

Reports(q)         == {x \in reports : Own(q, x) /\ x[2] \notin HiddenRules(q.org) /\ HostEligible(q, x)}
ReportsByJoins(q)  == {x \in reports : Own(q, x) /\ JoinShows(q.org, x[2]) /\ HostEligible(q, x)}
\* Without the conditions on rules, and without those on hosts.
ReportsOfRules(q)  == {x \in reports : Own(q, x) /\ HostEligible(q, x)}
\* Variant: what is acknowledged for the host counts as well.
HitsOfReported(q, h) == {r \in Rules \ HiddenRules(q.org) : <<h, r>> \in reports}
HitsOf(q, h)       == {r \in Rules \ HiddenRules(q.org) : Own(q, <<h, r>>)}

HostsIn(rs) == {x[1] : x \in rs}
RulesIn(rs) == {x[2] : x \in rs}

\* get_reporting_system_ids_queryset, with a filter on the rule.
ReportingSystems(q, r) == {h \in Hosts : <<h, r>> \in Reports(q)}
-----------------------------------------------------------------------------
(* get_systems_queryset: the systems a request sees, with their hits. *)

HitsOfRisk(q, h, n) == {r \in HitsOf(q, h) : RuleOf[r].risk = n}
Incidents(q, h)     == {r \in HitsOf(q, h) : "incident" \in RuleOf[r].tags}

\* convert_to_count_query: without GROUP BY there is always a row.
Count(q, h, rs) == Cardinality(rs)

\* filter_on_hits: 'all', 'yes' or 'no' by themselves, else any of the risks.
HitType == <<"1", "2", "3", "4">>
HitsOk(q, h) ==
  CASE q.hits = {} \/ "all" \in q.hits -> TRUE
    [] "all" \notin q.hits /\ "yes" \in q.hits -> Count(q, h, HitsOf(q, h)) > 0
    [] q.hits \cap {"all", "yes"} = {} /\ "no" \in q.hits -> Count(q, h, HitsOf(q, h)) = 0
    [] OTHER -> \E n \in 1..4 : HitType[n] \in q.hits /\ Count(q, h, HitsOfRisk(q, h, n)) > 0

\* filter_on_incident.
IncidentOk(q, h) ==
  q.incident # {} => IF TRUE \in q.incident THEN Count(q, h, Incidents(q, h)) > 0
                                            ELSE Count(q, h, Incidents(q, h)) = 0

\* filter_on_has_disabled_recommendation: acknowledged for the host, by any
\* organisation, or reported and acknowledged for the request's, whatever the
\* rule's flag.
HasDisabled(q, h) ==
  \/ \E o \in Orgs, r \in Rules : <<o, h, r>> \in hostacks
  \/ \E r \in AckedBy(q.org) : <<h, r>> \in reports

GetSystems(q) ==
  {h \in HostsForAccount(q, TRUE, TRUE) :
     /\ q.pathway # {} => \E r \in HitsOf(q, h) : RuleOf[r].pathway \in q.pathway
     /\ Selects(q.name, HostOf[h].name)
     /\ Selects(q.versions, HostOf[h].os)
     /\ HitsOk(q, h) /\ IncidentOk(q, h)
     /\ Selects(q.disabled, HasDisabled(q, h))}

\* The counts that a row of the list has, by risk, of incidents, of pathways.
SystemRow(q, h) ==
  [ hits |-> Count(q, h, HitsOf(q, h)), risk |-> [n \in 1..4 |-> Count(q, h, HitsOfRisk(q, h, n))],
    incidents |-> Count(q, h, Incidents(q, h)),
    pathways  |-> Count(q, h, {r \in HitsOf(q, h) : RuleOf[r].pathway # None}) ]
-----------------------------------------------------------------------------
(* RuleManager.for_account: the active rules, with what a request adds.   *)

RulesForAccount == active

ReportsShown(q, r) == acks[<<q.org, r>>] = None
RuleStatus(q, r) ==
  CASE acks[<<q.org, r>>] = None    -> "enabled"
    [] acks[<<q.org, r>>] = Autoack -> "rhdisabled"
    [] OTHER                        -> "disabled"
ImpactedBy(q, r) == {h \in Hosts : <<h, r>> \in ReportsOfRules(q)}

\* Of the filters on hosts only tags, profile and staleness.
HostsAcked(q, r) ==
  {h \in Hosts : <<q.org, h, r>> \in hostacks /\ HostOf[h].org = q.org /\ NotStale(h)
                 /\ TagsOk(q, h) /\ ProfileOk(q, h)}

RuleRow(q, r) ==
  [ impacted |-> Cardinality(ImpactedBy(q, r)), acked |-> Cardinality(HostsAcked(q, r)),
    shown |-> ReportsShown(q, r), status |-> RuleStatus(q, r), playbooks |-> RuleOf[r].playbooks ]

\* Rule.reports_for_account.
ReportsForAccount(q, r) ==
  IF r \in active /\ ReportsShown(q, r) THEN {x \in Reports(q) : x[2] = r} ELSE {}
-----------------------------------------------------------------------------
(* PathwayManager.for_account. *)

\* Variant: the reports of acknowledged rules too.
PathwayReportsAll(q, p) == {x \in ReportsOfRules(q) : RuleOf[x[2]].pathway = p}

PathwayReports(q, p) == {x \in Reports(q) : RuleOf[x[2]].pathway = p}
Impacted(q) == {p \in Pathways : PathwayReports(q, p) # {}}
RulesOfPathway(p) == {r \in Rules : RuleOf[r].pathway = p}

\* calculate_rec_level, of the share hit / all.
RecLevel(hit, all, incident, risk) ==
  LET base == CASE 4 * hit > all -> 62 [] 4 * hit <= all /\ 10 * hit > all -> 58 [] OTHER -> 54
  IN  base + (IF incident THEN 2 ELSE 0)
      + 12 * ((IF risk < 1 THEN 1 ELSE IF risk > 4 THEN 4 ELSE risk) - 1)

Fields == <<"impacted", "reboot", "incidents", "hasIncident", "level", "critical", "high", "medium", "low">>
Risk == "critical" :> 4 @@ "high" :> 3 @@ "medium" :> 2 @@ "low" :> 1

\* What is determined for a pathway with reports: hosts are counted, once each.
PathwayData(q, p, field, impacting) ==
  LET rs        == PathwayReports(q, p)
      systems   == Cardinality(GetSystems(q))
      incidents == HostsIn({x \in rs : "incident" \in RuleOf[x[2]].tags})
  IN  CASE field = "impacted"    -> Cardinality(HostsIn(rs))
        [] field = "incidents"   -> Cardinality(incidents)
        [] field = "hasIncident" -> incidents # {}
        [] field = "reboot"      -> impacting /\ \E r \in RulesOfPathway(p) : RuleOf[r].reboot
        [] field = "level"       -> IF systems = 0 THEN 0
                                    ELSE RecLevel(Cardinality(HostsIn(rs)), systems, incidents # {},
                                                  Max({RuleOf[r].risk : r \in RulesOfPathway(p)}))
        [] OTHER                 -> Cardinality(HostsIn({x \in rs : RuleOf[x[2]].risk = Risk[field]}))

Default(field) == IF field \in {"reboot", "hasIncident"} THEN FALSE ELSE 0

\* pathway_agg_case, for the n-th field: the data of a single pathway is
\* popped for the first field, and the fields after it find none; a value
\* that all have is every listed pathway's.
Annotated(q, p, n, impacting) ==
  LET field  == Fields[n]
      values == {PathwayData(q, x, field, impacting) : x \in Impacted(q)}
  IN  CASE Cardinality(Impacted(q)) = 1 /\ n > 1 -> Default(field)
        [] Cardinality(values) = 1 /\ (n = 1 \/ Cardinality(Impacted(q)) > 1) -> CHOOSE v \in values : TRUE
        [] OTHER -> IF p \in Impacted(q) THEN PathwayData(q, p, field, impacting) ELSE Default(field)

\* Without any report in a pathway there is none to show.
PathwaysForAccount(q, impacting) ==
  IF Impacted(q) = {} THEN {} ELSE IF impacting THEN Impacted(q) \cap Published ELSE Published

\* Pathway.impacted_systems, of a pathway in the list.
ImpactedSystems(q, p, impacting) ==
  IF Annotated(q, p, 1, impacting) = 0 THEN {}
  ELSE {h \in GetSystems(q) : \E r \in RulesOfPathway(p) : <<h, r>> \in Reports(q)}

\* Pathway.categories: of its rules, acknowledged or not.
PathwayCategories(q, p) ==
  {RuleOf[r].category : r \in {r \in RulesOfPathway(p) \cap active : Selects(q.category, RuleOf[r].category)}}
-----------------------------------------------------------------------------
(* The tables: a report, an upload and an acknowledgement of a host refer   *)
(* to the host's row, which is deleted with them.                           *)

RuleTable      == active \subseteq Rules
InventoryTable == fresh \in [Hosts -> Staleness]
HostTable      == known \subseteq Hosts
AckTable       == acks \in [Orgs \X Rules -> Ackers]
UploadTable    == uploads \subseteq known \X Sources
ReportTable    == reports \subseteq known \X Rules
HostackTable   == hostacks \subseteq Orgs \X known \X Rules

VisibilityTypeOK ==
  RuleTable /\ InventoryTable /\ HostTable /\ AckTable /\ UploadTable /\ ReportTable /\ HostackTable
=============================================================================
