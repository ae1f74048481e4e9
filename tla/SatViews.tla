------------------------------ MODULE SatViews -------------------------------
(***************************************************************************)
(* The views for Satellite (sat_compat/views), over the tables and queries *)
(* of Visibility.  They emulate Insights Classic: systems are those with a *)
(* current upload of puptoo, and are named by their Insights identifier,   *)
(* which several hosts may share.                                          *)
(***************************************************************************)
EXTENDS Visibility

CONSTANT TopicTags   \* fixture: the tag of each topic

Uploading(h) == <<h, Puptoo>> \in uploads
CheckingIn(h) == fresh[h] = "fresh"
\* Variant: reports of hidden rules too.
ReportCountAll(q, h) == Cardinality({x \in reports : x[1] = h})
ReportCount(q, h) == Cardinality({x \in Reports(q) : x[1] = h})

\* report_count_filter, of systems and of rules.
CountOk(q, n) == q.reportCount # {} => IF "gt0" \in q.reportCount THEN n > 0 ELSE n = 0
\* filter_on_rule_id: whatever is acknowledged.
ImpactedOk(q, h) == q.rule # {} => \E r \in q.rule : <<h, r>> \in reports

\* SystemViewSet.get_queryset and .list.
SatSystemSet(q) == {h \in HostsForAccount(q, TRUE, TRUE) : Uploading(h)}
SatSystems(q) ==
  {h \in SatSystemSet(q) :
     /\ Selects(q.name, HostOf[h].name) /\ q.offline # {} => ~ CheckingIn(h) \in q.offline
     /\ CountOk(q, ReportCount(q, h)) /\ ImpactedOk(q, h)}

\* get_system_or_404: the first of those with the identifier, in no order.
Named(hosts, insights) == {h \in hosts : HostOf[h].insights = insights}
\* SystemViewSet.reports.
SatSystemReports(q, h) == {r \in Rules : <<h, r>> \in Reports(q)}

\* V1SystemViewSet: every host of the inventory, with or without its row.
V1Systems(q) == HostsForAccount(q, TRUE, FALSE)

\* ReportsViewSet.
SatReports(q) == {x \in Reports(q) : x[2] \in active /\ Selects(q.rule, x[2])}
-----------------------------------------------------------------------------
(* RuleViewSet. *)

ReportsOfRule(q, r) == {x \in Reports(q) : x[2] = r}
\* 'ansible' compares the count of playbooks with true, one, or false, none,
\* and a rule without playbooks has no count.
AnsibleOk(q, r) == q.ansible # {} => TRUE \in q.ansible /\ RuleOf[r].playbooks = 1
IgnoredOk(q, r) == q.ignored # {} => (acks[<<q.org, r>>] = None) = ("active" \in q.ignored)

SatRules(q) ==
  {r \in active :
     /\ AnsibleOk(q, r) /\ IgnoredOk(q, r)
     /\ Selects(q.category, RuleOf[r].category) /\ Selects(q.risk, RuleOf[r].risk)
     /\ q.ruleIncident # {} => ("incident" \in RuleOf[r].tags) \in q.ruleIncident
     /\ CountOk(q, Cardinality(ReportsOfRule(q, r)))}

\* ansible_resolutions: a playbook of the rule for a type of system.
AnsibleResolutions(r, type) == {b \in RuleOf[r].books : b.system = type}
-----------------------------------------------------------------------------
(* TopicsViewSet: topics by tag, and, one at a time, by risk, category or    *)
(* incident, which are rules like those of a topic.                          *)

Slugs == [kind : {"incidents"}, value : {1}] \cup [kind : {"risk", "category"}, value : 1..4] \cup
         [kind : {"topic"}, value : DOMAIN TopicTags]
RulesOfSlug(s) ==
  CASE s.kind = "incidents" -> {r \in Rules : "incident" \in RuleOf[r].tags}
    [] s.kind = "topic"     -> {r \in Rules : TopicTags[s.value] \in RuleOf[r].tags}
    [] OTHER                -> {r \in Rules : RuleOf[r][s.kind] = s.value}

TopicHits(q, rs)    == {x \in Reports(q) : x[2] \in rs}
\* get_rule_queryset: the rules that hit, each with the number of its hosts.
TopicRulesHit(q, rs) == [r \in {r \in rs \cap active : ReportsOfRule(q, r) # {}} |->
                           Cardinality(HostsIn(ReportsOfRule(q, r)))]
SatTopic(q, rs) == [hits |-> Cardinality(TopicHits(q, rs)), systems |-> Cardinality(HostsIn(TopicHits(q, rs))),
                    rules |-> TopicRulesHit(q, rs)]
-----------------------------------------------------------------------------
(* StatsViewSet: the total counts uploads, so a host with current uploads of *)
(* two sources counts twice.                                                 *)

StatsReports(q) == {x \in Reports(q) : Selects(q.risk, RuleOf[x[2]].risk)}
SatTotal(q) ==
  Cardinality({u \in uploads : HostOf[u[1]].org = q.org /\ BranchOk(q, u[1]) /\ NotStale(u[1])})
SatStats(q) ==
  [ total |-> SatTotal(q), affected |-> Cardinality(HostsIn(StatsReports(q))),
    reports |-> [n \in 1..4 |-> Cardinality({x \in StatsReports(q) : RuleOf[x[2]].risk = n})],
    rules   |-> [n \in 1..4 |-> Cardinality({r \in RulesIn(StatsReports(q)) : RuleOf[r].risk = n})] ]
=============================================================================
