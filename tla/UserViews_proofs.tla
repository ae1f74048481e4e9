-------------------------- MODULE UserViews_proofs ---------------------------
(***************************************************************************)
(* Theorems about what the views show, for any hosts, rules, requests and  *)
(* changes of the tables: types and foreign keys, that the two queries for *)
(* reports agree, that what is hidden is accounted for, and that lists,    *)
(* counts, statistics and pathways agree.                                  *)
(***************************************************************************)
EXTENDS UserViews, FiniteSetTheorems, WellFoundedInduction, TLAPS

USE DEF Content

LEMMA InitHolds == Init => TypeOK
<1> SUFFICES ASSUME Init PROVE TypeOK
  OBVIOUS
<1>1. RuleTable /\ InventoryTable /\ HostTable /\ AckTable
  BY DEF Init, RuleTable, InventoryTable, HostTable, AckTable, Staleness, Ackers
<1>2. UploadTable /\ ReportTable /\ HostackTable
  BY VisibilityAssumption, UserViewsAssumption
     DEF VisibilityAssumption, UserViewsAssumption, Init, UploadTable, ReportTable, HostackTable
<1>3. job = NoJob /\ changes \in 0..MaxChanges
  BY UserViewsAssumption DEF UserViewsAssumption, Init
<1> QED
  BY <1>1, <1>2, <1>3 DEF TypeOK, VisibilityTypeOK

LEMMA ChangesKept ==
  ASSUME changes \in 0..MaxChanges, Changes
  PROVE  changes' \in 0..MaxChanges
BY UserViewsAssumption DEF UserViewsAssumption, Changes

\* Requests write acknowledgements.
LEMMA RequestedKeeps ==
  ASSUME TypeOK, Requested
  PROVE  TypeOK'
<1> USE DEF TypeOK, VisibilityTypeOK
<1> DEFINE Tables == RuleTable /\ InventoryTable /\ HostTable /\ UploadTable /\ ReportTable
<1>1. ASSUME UNCHANGED Content PROVE Tables'
  BY <1>1 DEF RuleTable, InventoryTable, HostTable, UploadTable, ReportTable
<1>2. ASSUME NEW o \in Orgs, NEW r \in Rules, AckRule(o, r) \/ UnackRule(o, r) PROVE TypeOK'
  <2>1. changes' \in 0..MaxChanges /\ UNCHANGED <<Content, hostacks, job>>
    BY <1>2, ChangesKept DEF AckRule, UnackRule
  <2>2. AckTable'
    BY <1>2 DEF AckRule, UnackRule, AckTable, Ackers
  <2>3. HostackTable'
    BY <2>1 DEF HostackTable
  <2> QED
    BY <1>1, <2>1, <2>2, <2>3
<1>3. ASSUME NEW o \in Orgs, NEW h \in Hosts, NEW r \in Rules, CreateHostack(o, h, r) \/ DestroyHostack(o, h, r)
      PROVE  TypeOK'
  <2>1. changes' \in 0..MaxChanges /\ UNCHANGED <<Content, acks, job>>
    BY <1>3, ChangesKept DEF CreateHostack, DestroyHostack
  <2>2. HostackTable'
    BY <1>3 DEF CreateHostack, DestroyHostack, HostackTable
  <2> QED
    BY <1>1, <2>1, <2>2 DEF AckTable
<1>4. ASSUME NEW o \in Orgs, NEW h \in Hosts, NEW r \in Rules, ReadHostack(o, h, r) PROVE TypeOK'
  <2>1. changes' \in 0..MaxChanges
    BY <1>4, ChangesKept DEF ReadHostack
  <2>2. job' \in [view : {"update"}, org : Orgs, host : Hosts, rule : Rules]
    BY <1>4 DEF ReadHostack
  <2> QED
    BY <1>1, <1>4, <2>1, <2>2 DEF ReadHostack, AckTable, HostackTable
<1>5. CASE SaveHostack
  <2>1. job \in [view : {"update"}, org : Orgs, host : Hosts, rule : Rules]
    BY <1>5 DEF SaveHostack, NoJob, None
  <2>2. HostackTable'
    BY <1>5, <2>1 DEF SaveHostack, Saved, HostackTable
  <2> QED
    BY <1>1, <1>5, <2>2 DEF SaveHostack, AckTable
<1>6. ASSUME NEW o \in Orgs, NEW r \in Rules, NEW hs \in Batches, StartAckHosts(o, r, hs) PROVE TypeOK'
  <2>1. changes' \in 0..MaxChanges
    BY <1>6, ChangesKept DEF StartAckHosts
  <2>2. job' \in [view : {"ack_hosts"}, org : Orgs, rule : Rules, todo : SUBSET Hosts]
    BY <1>6, UserViewsAssumption DEF UserViewsAssumption, StartAckHosts
  <2> QED
    BY <1>1, <1>6, <2>1, <2>2 DEF StartAckHosts, AckTable, HostackTable
<1>7. ASSUME NEW o \in Orgs, NEW r \in Rules, NEW hs \in Batches, UnackHosts(o, r, hs) PROVE TypeOK'
  <2>1. changes' \in 0..MaxChanges
    BY <1>7, ChangesKept DEF UnackHosts
  <2> QED
    BY <1>1, <1>7, <2>1 DEF UnackHosts, AckTable, HostackTable
<1>8. CASE AckHost
  <2>1. job \in [view : {"ack_hosts"}, org : Orgs, rule : Rules, todo : SUBSET Hosts]
    BY <1>8 DEF AckHost, NoJob, None
  <2>2. PICK h \in job.todo \cap known :
          /\ hostacks' = hostacks \cup {<<job.org, h, job.rule>>}
          /\ job' = IF job.todo = {h} THEN NoJob ELSE [job EXCEPT !.todo = @ \ {h}]
    BY <1>8 DEF AckHost
  <2>3. HostackTable'
    BY <1>8, <2>1, <2>2 DEF AckHost, HostackTable
  <2>4. job' = NoJob \/ job' \in [view : {"ack_hosts"}, org : Orgs, rule : Rules, todo : SUBSET Hosts]
    BY <2>1, <2>2
  <2> QED
    BY <1>1, <1>8, <2>3, <2>4 DEF AckHost, AckTable
<1>9. CASE AckHostFails
  BY <1>1, <1>9 DEF AckHostFails, AckTable, HostackTable
<1> QED
  BY <1>2, <1>3, <1>4, <1>5, <1>6, <1>7, <1>8, <1>9 DEF Requested

\* The other processes write the rest.
LEMMA ElsewhereKeeps ==
  ASSUME TypeOK, Elsewhere
  PROVE  TypeOK'
<1> USE DEF TypeOK, VisibilityTypeOK
<1>1. changes' \in 0..MaxChanges /\ UNCHANGED job
  BY ChangesKept DEF Elsewhere, Upload, TimePasses, LeavesInventory, HostDeleted, Autoacks, RuleFlips
<1>2. CASE Upload
  BY <1>1, <1>2, UserViewsAssumption
     DEF UserViewsAssumption, Upload, RuleTable, InventoryTable, HostTable, AckTable, UploadTable, ReportTable,
         HostackTable, Staleness
<1>3. CASE TimePasses \/ LeavesInventory
  BY <1>1, <1>3 DEF TimePasses, LeavesInventory, RuleTable, InventoryTable, HostTable, AckTable, UploadTable,
                    ReportTable, HostackTable, Staleness
<1>4. CASE HostDeleted
  BY <1>1, <1>4 DEF HostDeleted, RuleTable, InventoryTable, HostTable, AckTable, UploadTable, ReportTable, HostackTable
<1>5. CASE Autoacks
  BY <1>1, <1>5 DEF Autoacks, RuleTable, InventoryTable, HostTable, AckTable, UploadTable, ReportTable,
                    HostackTable, Ackers
<1>6. CASE RuleFlips
  BY <1>1, <1>6 DEF RuleFlips, RuleTable, InventoryTable, HostTable, AckTable, UploadTable, ReportTable, HostackTable
<1> QED
  BY <1>2, <1>3, <1>4, <1>5, <1>6 DEF Elsewhere

\* Every variable of the views has its type, and no upload, report or
\* acknowledgement of a host outlives the host's row (CurrentReport, Upload
\* and HostAck refer to Host and are deleted with it).
THEOREM TypeCorrect == Spec => []TypeOK
<1>1. TypeOK /\ [Next]_vars => TypeOK'
  <2> SUFFICES ASSUME TypeOK, [Next]_vars PROVE TypeOK'
    OBVIOUS
  <2>1. CASE UNCHANGED vars
    BY <2>1 DEF vars, db, TypeOK, VisibilityTypeOK, RuleTable, InventoryTable, HostTable, AckTable, UploadTable,
                ReportTable, HostackTable
  <2> QED
    BY <2>1, RequestedKeeps, ElsewhereKeeps DEF Next
<1> QED
  BY <1>1, InitHolds, PTL DEF Spec

\* The conditions on joined rows leave out the rules that the sub-queries
\* leave out, of every report there may be.
LEMMA QueriesAgree == TypeOK => JoinsAgree
<1> SUFFICES ASSUME TypeOK, NEW q \in Requests PROVE ReportsByJoins(q) = Reports(q)
  BY DEF JoinsAgree
<1>1. ASSUME NEW x \in reports PROVE JoinShows(q.org, x[2]) <=> x[2] \notin HiddenRules(q.org)
  <2>1. x[2] \in Rules
    BY <1>1 DEF TypeOK, VisibilityTypeOK, ReportTable
  <2> QED
    BY <2>1 DEF JoinShows, HiddenRules, AckedBy
<1> QED
  BY <1>1 DEF ReportsByJoins, Reports

\* The query of get_reports_subquery with use_joins, of statistics and
\* exports, and the one without, of rules and systems, show the same reports
\* to every request, whatever is stale, acknowledged or taken away.
THEOREM ViewsAgree == Spec => []JoinsAgree
<1> QED
  BY TypeCorrect, QueriesAgree, PTL

\* A report that is hidden is so by one of two kinds of acknowledgement.
LEMMA HiddenIsAcknowledged == TypeOK => HiddenAccounted
<1> SUFFICES ASSUME TypeOK, NEW q \in Requests, NEW x \in reports, HostOf[x[1]].org = q.org,
                    HostEligible(q, x), x[2] \in active, x \notin Reports(q)
             PROVE  /\ \E d \in DisabledRules(q.org) : d.rule = x[2] /\ DisabledScope(q.org, x[2]) # None
                    /\ HasDisabled(q, x[1])
  BY DEF HiddenAccounted
<1>1. x[1] \in Hosts /\ x[2] \in Rules /\ x = <<x[1], x[2]>>
  BY DEF TypeOK, VisibilityTypeOK, ReportTable, HostTable
<1>2. CASE <<q.org, x[1], x[2]>> \in hostacks
  <2>1. [scope |-> "system", rule |-> x[2]] \in DisabledRules(q.org)
    BY <1>1, <1>2 DEF DisabledRules
  <2>2. DisabledScope(q.org, x[2]) # None
    BY <1>1, <1>2 DEF DisabledScope, None
  <2>3. HasDisabled(q, x[1])
    BY <1>1, <1>2, VisibilityAssumption DEF VisibilityAssumption, HasDisabled
  <2> QED
    BY <2>1, <2>2, <2>3
<1>3. CASE <<q.org, x[1], x[2]>> \notin hostacks
  <2>1. x[2] \in AckedBy(q.org)
    BY <1>1, <1>3 DEF Reports, Own, HiddenRules
  <2>2. [scope |-> "account", rule |-> x[2]] \in DisabledRules(q.org)
    BY <2>1 DEF DisabledRules
  <2>3. DisabledScope(q.org, x[2]) # None
    BY <2>1 DEF DisabledScope, AckedBy, None
  <2>4. HasDisabled(q, x[1])
    BY <1>1, <2>1 DEF HasDisabled
  <2> QED
    BY <2>2, <2>3, <2>4
<1> QED
  BY <1>2, <1>3

\* A user whom a report is hidden from finds its rule among the disabled
\* ones, and its host by the filter on disabled recommendations.
THEOREM HiddenIsAccounted == Spec => []HiddenAccounted
<1> QED
  BY TypeCorrect, HiddenIsAcknowledged, PTL
-----------------------------------------------------------------------------
(* The lists, the statistics and the pathways. *)

\* Two requests that ask for the same hosts, reports and hits.
SameAsk(q, p) ==
  /\ q.org = p.org /\ q.allowed = p.allowed /\ q.owner = p.owner /\ q.tags = p.tags /\ q.type = p.type
  /\ q.profile = p.profile /\ q.category = p.category /\ q.branch = p.branch /\ q.methods = p.methods
  /\ q.workloads = p.workloads /\ q.groups = p.groups

LEMMA SameSeen ==
  ASSUME NEW q, NEW p, SameAsk(q, p)
  PROVE  /\ \A a, b \in BOOLEAN : HostsForAccount(q, a, b) = HostsForAccount(p, a, b)
         /\ Reports(q) = Reports(p) /\ ReportsByJoins(q) = ReportsByJoins(p)
         /\ ReportsOfRules(q) = ReportsOfRules(p)
         /\ \A h : HitsOf(q, h) = HitsOf(p, h) /\ Incidents(q, h) = Incidents(p, h)
         /\ \A h, n : HitsOfRisk(q, h, n) = HitsOfRisk(p, h, n)
<1>1. \A h : HostMatches(q, h) <=> HostMatches(p, h)
  BY DEF SameAsk, HostMatches, TagsOk, TypeOk, ProfileOk, CertOk, MethodOk, MethodsOf, WorkloadOk, GroupOk
<1>2. \A h : BranchOk(q, h) <=> BranchOk(p, h)
  BY DEF SameAsk, BranchOk
<1>3. \A x : HostEligible(q, x) <=> HostEligible(p, x)
  BY <1>1, <1>2 DEF HostEligible, SameAsk
<1>4. \A x : Own(q, x) <=> Own(p, x)
  BY DEF Own, SameAsk
<1>5. q.org = p.org
  BY DEF SameAsk
<1>6. \A a, b \in BOOLEAN : HostsForAccount(q, a, b) = HostsForAccount(p, a, b)
  BY <1>1, <1>2, <1>5 DEF HostsForAccount
<1>7. Reports(q) = Reports(p) /\ ReportsByJoins(q) = ReportsByJoins(p) /\ ReportsOfRules(q) = ReportsOfRules(p)
  BY <1>3, <1>4, <1>5 DEF Reports, ReportsByJoins, ReportsOfRules
<1>8. \A h : HitsOf(q, h) = HitsOf(p, h)
  BY <1>4, <1>5 DEF HitsOf
<1>9. \A h, n : HitsOfRisk(q, h, n) = HitsOfRisk(p, h, n)
  BY <1>8 DEF HitsOfRisk
<1>10. \A h : Incidents(q, h) = Incidents(p, h)
  BY <1>8 DEF Incidents
<1> QED
  BY <1>6, <1>7, <1>8, <1>9, <1>10

\* A request without filters on systems sees a report exactly when it sees the
\* host and the rule is among the host's hits.
LEMMA SeenByHits ==
  ASSUME TypeOK, NEW q \in Requests, Plain(q), NEW h, NEW r
  PROVE  <<h, r>> \in Reports(q) <=> h \in HostsForAccount(q, TRUE, TRUE) /\ r \in HitsOf(q, h)
<1>1. q.category = {}
  BY DEF Plain
<1>2. <<h, r>> \in reports => h \in known /\ h \in Hosts /\ r \in Rules
  BY DEF TypeOK, VisibilityTypeOK, ReportTable, HostTable
<1>3. ASSUME <<h, r>> \in reports PROVE HostEligible(q, <<h, r>>) <=> HostMatches(q, h) /\ BranchOk(q, h) /\ NotStale(h)
  BY <1>1 DEF HostEligible, Selects
<1>4. NotStale(h) => fresh[h] # "absent"
  BY DEF NotStale
<1> QED
  BY <1>2, <1>3, <1>4 DEF Reports, HostsForAccount, HitsOf, Own

LEMMA PlainSystems ==
  ASSUME NEW q \in Requests, Plain(q)
  PROVE  GetSystems(q) = HostsForAccount(q, TRUE, TRUE)
<1>1. q.name = {} /\ q.versions = {} /\ q.hits = {} /\ q.incident = {} /\ q.disabled = {} /\ q.pathway = {}
  BY DEF Plain, OnSystems
<1>2. \A h : HitsOk(q, h)
  BY <1>1 DEF HitsOk
<1>3. \A h : IncidentOk(q, h) /\ Selects(q.name, HostOf[h].name) /\ Selects(q.versions, HostOf[h].os)
             /\ Selects(q.disabled, HasDisabled(q, h))
  BY <1>1 DEF IncidentOk, Selects
<1> QED
  BY <1>1, <1>2, <1>3 DEF GetSystems

LEMMA DetailsFollow == TypeOK => DetailsAgree
<1> SUFFICES ASSUME TypeOK, NEW q \in Requests, NEW r \in active, Plain(q)
             PROVE  /\ RuleSystems(q, r) = RuleSystemsDetail(q, r)
                    /\ RuleSystems(q, r) = {h \in Hosts : r \in SystemReports(q, h)}
                    /\ RuleSystems(q, r) = {h \in Hosts : <<h, r>> \in ExportReports([q EXCEPT !.topic = {}])}
                    /\ RuleSystems(q, r) = ExportSystems(q, r)
                    /\ ReportsShown(q, r) => RuleSystems(q, r) = ImpactedBy(q, r)
  BY DEF DetailsAgree
<1> DEFINE Seen == {h \in Hosts : <<h, r>> \in Reports(q)}
<1>0. r \in Rules
  BY DEF TypeOK, VisibilityTypeOK, RuleTable
<1>1. RuleSystems(q, r) = Seen
  BY DEF RuleSystems, SystemFilters, ReportingSystems, Plain, OnSystems, Selects
<1>2. Seen = {h \in GetSystems(q) : r \in HitsOf(q, h)}
  <2>1. GetSystems(q) = HostsForAccount(q, TRUE, TRUE) /\ HostsForAccount(q, TRUE, TRUE) \subseteq Hosts
    BY PlainSystems DEF HostsForAccount
  <2>2. \A h : <<h, r>> \in Reports(q) <=> h \in HostsForAccount(q, TRUE, TRUE) /\ r \in HitsOf(q, h)
    BY SeenByHits
  <2> QED
    BY <2>1, <2>2
<1>3. ReportsByJoins(q) = Reports(q)
  BY QueriesAgree DEF JoinsAgree
<1>4. Seen = {h \in Hosts : r \in SystemReports(q, h)}
  BY <1>0, <1>3 DEF SystemReports
<1>5. Seen = {h \in Hosts : <<h, r>> \in ExportReports([q EXCEPT !.topic = {}])}
  <2> DEFINE p == [q EXCEPT !.topic = {}]
  <2>1. SameAsk(q, p) /\ p.topic = {}
    BY UserViewsAssumption DEF UserViewsAssumption, Parameters, SameAsk
  <2>2. ReportsByJoins(p) = Reports(q)
    BY <1>3, <2>1, SameSeen
  <2> HIDE DEF p
  <2>3. ExportReports(p) = Reports(q)
    BY <2>1, <2>2 DEF ExportReports
  <2> QED
    BY <2>3 DEF p
<1>6. ExportSystems(q, r) = {h \in GetSystems(q) : r \in HitsOf(q, h)}
  BY <1>0, VisibilityAssumption DEF VisibilityAssumption, ExportSystems, None
<1>7. ASSUME ReportsShown(q, r) PROVE Seen = ImpactedBy(q, r)
  <2>1. r \notin HiddenRules(q.org)
    BY <1>7 DEF ReportsShown, HiddenRules, AckedBy
  <2> QED
    BY <2>1 DEF ImpactedBy, Reports, ReportsOfRules
<1> QED
  BY <1>1, <1>2, <1>4, <1>5, <1>6, <1>7 DEF RuleSystemsDetail

\* A rule that is active has the same systems in each view that tells of them,
\* whatever is acknowledged, stale or deleted: the list and the list with
\* details (RuleViewSet), the reports of a system (SystemViewSet), the exports
\* and the count in the list of rules.
THEOREM SystemsAgree == Spec => []DetailsAgree
<1> QED
  BY TypeCorrect, DetailsFollow, PTL

LEMMA Finite ==
  ASSUME TypeOK
  PROVE  /\ \A S : S \subseteq Hosts \/ S \subseteq Rules \/ S \subseteq Pathways \/ S \subseteq Orgs => IsFiniteSet(S)
         /\ IsFiniteSet(reports)
<1>1. \A S : S \subseteq Hosts \/ S \subseteq Rules \/ S \subseteq Pathways \/ S \subseteq Orgs => IsFiniteSet(S)
  BY VisibilityAssumption, FS_Subset DEF VisibilityAssumption
<1>2. IsFiniteSet(Hosts \X Rules)
  BY VisibilityAssumption, FS_Product DEF VisibilityAssumption
<1>3. reports \subseteq Hosts \X Rules
  BY DEF TypeOK, VisibilityTypeOK, ReportTable, HostTable
<1> QED
  BY <1>1, <1>2, <1>3, FS_Subset

LEMMA NonEmpty ==
  ASSUME NEW S, IsFiniteSet(S)
  PROVE  Cardinality(S) \in Nat /\ (Cardinality(S) > 0 <=> S # {}) /\ (Cardinality(S) = 0 <=> S = {})
BY FS_CardinalityType, FS_EmptySet

\* The number of hosts that a listed pathway impacts: the number of the hosts
\* of its reports, whichever way pathway_agg_case writes it.
LEMMA CountOfPathway ==
  ASSUME TypeOK, NEW q \in Requests, NEW p \in PathwaysForAccount(q, TRUE)
  PROVE  /\ Annotated(q, p, 1, TRUE) = Cardinality(HostsIn(PathwayReports(q, p)))
         /\ PathwayReports(q, p) # {}
<1> DEFINE Data(x) == PathwayData(q, x, "impacted", TRUE)
           values == {Data(x) : x \in Impacted(q)}
<1>1. p \in Impacted(q) /\ PathwayReports(q, p) # {}
  BY DEF PathwaysForAccount, Impacted
<1>2. \A x : Data(x) = Cardinality(HostsIn(PathwayReports(q, x)))
  BY DEF PathwayData
<1>3. Fields[1] = "impacted"
  BY DEF Fields
<1> HIDE DEF Data
<1>4. ASSUME Cardinality(values) = 1 PROVE (CHOOSE v \in values : TRUE) = Data(p)
  <2>1. IsFiniteSet(Impacted(q))
    BY Finite DEF Impacted
  <2>2. IsFiniteSet(values)
    <3> DEFINE f == [x \in Impacted(q) |-> Data(x)]
    <3>1. f \in Surjection(Impacted(q), values)
      BY DEF Surjection
    <3> QED
      BY <2>1, <3>1, FS_Surjection
  <2>3. PICK v : values = {v}
    BY <1>4, <2>2, FS_Singleton
  <2>4. Data(p) = v
    BY <1>1, <2>3
  <2> QED
    BY <2>3, <2>4
<1>5. Annotated(q, p, 1, TRUE) = IF Cardinality(values) = 1 THEN CHOOSE v \in values : TRUE ELSE Data(p)
  <2> DEFINE short(x) == PathwayData(q, x, "impacted", TRUE)
  <2>1. Annotated(q, p, 1, TRUE) = IF Cardinality(values) = 1 THEN CHOOSE v \in values : TRUE ELSE short(p)
    BY <1>1, <1>3 DEF Annotated, Data
  <2> QED
    BY <2>1 DEF Data
<1> QED
  BY <1>1, <1>2, <1>4, <1>5

LEMMA PathwaysFollow == TypeOK => PathwaysAgree
<1> SUFFICES ASSUME TypeOK, NEW q \in Requests, Plain(q), NEW p \in PathwaysForAccount(q, TRUE)
             PROVE  /\ Annotated(q, p, 1, TRUE) = Cardinality(ImpactedSystems(q, p, TRUE))
                    /\ ImpactedSystems(q, p, TRUE)
                         = UNION {PathwayRuleSystems(q, p)[r] : r \in DOMAIN PathwayRuleSystems(q, p)}
                    /\ \A h \in ImpactedSystems(q, p, TRUE) : h \in GetSystems([q EXCEPT !.pathway = {p}])
  BY DEF PathwaysAgree
<1> DEFINE hit == HostsIn(PathwayReports(q, p))
<1>1. Annotated(q, p, 1, TRUE) = Cardinality(hit) /\ PathwayReports(q, p) # {}
  BY CountOfPathway
<1>2. \A x \in Reports(q) : x[1] \in Hosts /\ x[2] \in Rules /\ x[2] \in active /\ x = <<x[1], x[2]>>
  BY DEF TypeOK, VisibilityTypeOK, ReportTable, HostTable, Reports, HiddenRules
<1>3. hit \subseteq Hosts /\ hit # {}
  BY <1>1, <1>2 DEF HostsIn, PathwayReports
<1>4. Cardinality(hit) # 0
  BY <1>3, Finite, NonEmpty
<1>5. \A h : h \in hit <=> \E r \in RulesOfPathway(p) : <<h, r>> \in Reports(q)
  BY <1>2 DEF HostsIn, PathwayReports, RulesOfPathway
<1>6. \A h \in hit : h \in GetSystems(q)
  BY <1>5, SeenByHits, PlainSystems
<1>7. ImpactedSystems(q, p, TRUE) = hit
  BY <1>1, <1>4, <1>5, <1>6 DEF ImpactedSystems
<1>8. hit = UNION {PathwayRuleSystems(q, p)[r] : r \in DOMAIN PathwayRuleSystems(q, p)}
  <2> DEFINE D == {r \in RulesOfPathway(p) \cap active : \E h \in Hosts : <<h, r>> \in Reports(q)}
             S(r) == {h \in Hosts : <<h, r>> \in Reports(q)}
  <2>1. PathwayRuleSystems(q, p) = [r \in D |-> S(r)]
    BY DEF PathwayRuleSystems
  <2>2. UNION {PathwayRuleSystems(q, p)[r] : r \in DOMAIN PathwayRuleSystems(q, p)} = UNION {S(r) : r \in D}
    <3> HIDE DEF D, S
    <3> DEFINE f == [r \in D |-> S(r)]
    <3>1. DOMAIN f = D /\ \A r \in D : f[r] = S(r)
      OBVIOUS
    <3>2. {f[r] : r \in DOMAIN f} = {S(r) : r \in D}
      BY <3>1
    <3> QED
      BY <2>1, <3>2
  <2>3. ASSUME NEW h PROVE h \in hit <=> \E r \in D : h \in S(r)
    BY <1>2, <1>3, <1>5
  <2> QED
    BY <2>2, <2>3, ZenonT(60)
<1>9. ASSUME NEW h \in hit PROVE h \in GetSystems([q EXCEPT !.pathway = {p}])
  <2> DEFINE w == [q EXCEPT !.pathway = {p}]
  <2>1. /\ SameAsk(q, w) /\ w.pathway = {p} /\ w.name = q.name /\ w.versions = q.versions /\ w.hits = q.hits
        /\ w.incident = q.incident /\ w.disabled = q.disabled
    BY UserViewsAssumption DEF UserViewsAssumption, Parameters, SameAsk
  <2> HIDE DEF w
  <2>2. HostsForAccount(w, TRUE, TRUE) = HostsForAccount(q, TRUE, TRUE) /\ HitsOf(w, h) = HitsOf(q, h)
    BY <2>1, SameSeen
  <2>3. \E r \in HitsOf(q, h) : RuleOf[r].pathway = p
    BY <1>5, SeenByHits DEF RulesOfPathway
  <2>4. h \in HostsForAccount(w, TRUE, TRUE)
    BY <1>6, <2>2, PlainSystems
  <2>5. q.name = {} /\ q.versions = {} /\ q.hits = {} /\ q.incident = {} /\ q.disabled = {}
    BY DEF Plain, OnSystems
  <2>6. HitsOk(w, h) /\ IncidentOk(w, h) /\ Selects(w.name, HostOf[h].name) /\ Selects(w.versions, HostOf[h].os)
        /\ Selects(w.disabled, HasDisabled(w, h))
    BY <2>1, <2>5 DEF HitsOk, IncidentOk, Selects
  <2>7. h \in GetSystems(w)
    BY <2>1, <2>2, <2>3, <2>4, <2>6 DEF GetSystems
  <2> QED
    BY <2>7 DEF w
<1> QED
  BY <1>1, <1>7, <1>8, <1>9

\* A pathway in the list of those that impact systems (PathwayViewSet) counts
\* the systems that its own view lists, also when the value is written once
\* for all pathways, and the filter on the pathway finds each of them.
THEOREM PathwaysCountTheirSystems == Spec => []PathwaysAgree
<1> QED
  BY TypeCorrect, PathwaysFollow, PTL
-----------------------------------------------------------------------------
(* The statistics. *)

\* A host has a hit of a risk other than 0.
Rated(q, h) == \E r \in HitsOf(q, h) : RuleOf[r].risk # 0

\* The systems a request without filters on systems sees are split by hits,
\* and by incidents.
LEMMA SystemsSplit ==
  ASSUME TypeOK, NEW q \in Requests, Plain(q)
  PROVE  /\ GetSystems([q EXCEPT !.hits = {"yes"}]) = {h \in GetSystems(q) : HitsOf(q, h) # {}}
         /\ GetSystems([q EXCEPT !.hits = {"no"}]) = {h \in GetSystems(q) : HitsOf(q, h) = {}}
         /\ GetSystems([q EXCEPT !.hits = {"1", "2", "3", "4"}]) = {h \in GetSystems(q) : Rated(q, h)}
         /\ GetSystems([q EXCEPT !.incident = {TRUE}]) = {h \in GetSystems(q) : Incidents(q, h) # {}}
         /\ GetSystems([q EXCEPT !.incident = {FALSE}]) = {h \in GetSystems(q) : Incidents(q, h) = {}}
<1> DEFINE Base == HostsForAccount(q, TRUE, TRUE)
<1>1. q.name = {} /\ q.versions = {} /\ q.hits = {} /\ q.incident = {} /\ q.disabled = {} /\ q.pathway = {}
  BY DEF Plain, OnSystems
<1>2. GetSystems(q) = Base
  BY PlainSystems
<1>3. ASSUME NEW w, SameAsk(q, w), w.name = {}, w.versions = {}, w.disabled = {}, w.pathway = {}
      PROVE  GetSystems(w) = {h \in Base : HitsOk(w, h) /\ IncidentOk(w, h)}
  <2>1. HostsForAccount(w, TRUE, TRUE) = Base
    BY <1>3, SameSeen
  <2>2. \A h : Selects(w.name, HostOf[h].name) /\ Selects(w.versions, HostOf[h].os)
               /\ Selects(w.disabled, HasDisabled(w, h))
    BY <1>3 DEF Selects
  <2> QED
    BY <1>3, <2>1, <2>2 DEF GetSystems
<1>4. ASSUME NEW w, SameAsk(q, w), NEW h
      PROVE  /\ IsFiniteSet(HitsOf(w, h)) /\ HitsOf(w, h) = HitsOf(q, h)
             /\ IsFiniteSet(Incidents(w, h)) /\ Incidents(w, h) = Incidents(q, h)
             /\ \A n : IsFiniteSet(HitsOfRisk(w, h, n)) /\ HitsOfRisk(w, h, n) = HitsOfRisk(q, h, n)
  <2>1. HitsOf(w, h) \subseteq Rules /\ Incidents(w, h) \subseteq Rules /\ \A n : HitsOfRisk(w, h, n) \subseteq Rules
    BY DEF HitsOf, Incidents, HitsOfRisk
  <2> QED
    BY <1>4, <2>1, SameSeen, Finite
<1>5. ASSUME NEW w, SameAsk(q, w), NEW h
      PROVE  /\ w.hits = {"yes"} => (HitsOk(w, h) <=> HitsOf(q, h) # {})
             /\ w.hits = {"no"} => (HitsOk(w, h) <=> HitsOf(q, h) = {})
             /\ w.hits = {"1", "2", "3", "4"} => (HitsOk(w, h) <=> Rated(q, h))
             /\ w.hits = {} => HitsOk(w, h)
             /\ w.incident = {TRUE} => (IncidentOk(w, h) <=> Incidents(q, h) # {})
             /\ w.incident = {FALSE} => (IncidentOk(w, h) <=> Incidents(q, h) = {})
             /\ w.incident = {} => IncidentOk(w, h)
  <2> USE <1>5, <1>4
  <2>1. Count(w, h, HitsOf(w, h)) > 0 <=> HitsOf(q, h) # {}
    BY NonEmpty DEF Count
  <2>2. Count(w, h, HitsOf(w, h)) = 0 <=> HitsOf(q, h) = {}
    BY NonEmpty DEF Count
  <2>3. Count(w, h, Incidents(w, h)) > 0 <=> Incidents(q, h) # {}
    BY NonEmpty DEF Count
  <2>4. Count(w, h, Incidents(w, h)) = 0 <=> Incidents(q, h) = {}
    BY NonEmpty DEF Count
  <2>5. \A n : Count(w, h, HitsOfRisk(w, h, n)) > 0 <=> HitsOfRisk(q, h, n) # {}
    BY NonEmpty DEF Count
  <2>6. (\E n \in 1..4 : HitsOfRisk(q, h, n) # {}) <=> Rated(q, h)
    <3>1. \A r \in HitsOf(q, h) : RuleOf[r].risk \in 1..4 <=> RuleOf[r].risk # 0
      BY VisibilityAssumption DEF VisibilityAssumption, HitsOf
    <3> QED
      BY <3>1 DEF HitsOfRisk, Rated
  <2>7. w.hits = {"yes"} => (HitsOk(w, h) <=> HitsOf(q, h) # {})
    BY <2>1 DEF HitsOk
  <2>8. w.hits = {"no"} => (HitsOk(w, h) <=> HitsOf(q, h) = {})
    BY <2>2 DEF HitsOk
  <2>9. w.hits = {"1", "2", "3", "4"} => (HitsOk(w, h) <=> Rated(q, h))
    <3>1. SUFFICES ASSUME w.hits = {"1", "2", "3", "4"} PROVE HitsOk(w, h) <=> Rated(q, h)
      OBVIOUS
    <3>2. HitsOk(w, h) <=> \E n \in 1..4 : HitType[n] \in w.hits /\ Count(w, h, HitsOfRisk(w, h, n)) > 0
      BY <3>1 DEF HitsOk
    <3>3. \A n \in 1..4 : HitType[n] \in w.hits
      BY <3>1 DEF HitType
    <3> QED
      BY <3>2, <3>3, <2>5, <2>6
  <2>10. w.hits = {} => HitsOk(w, h)
    BY DEF HitsOk
  <2>11. w.incident = {TRUE} => (IncidentOk(w, h) <=> Incidents(q, h) # {})
    BY <2>3 DEF IncidentOk
  <2>12. w.incident = {FALSE} => (IncidentOk(w, h) <=> Incidents(q, h) = {})
    BY <2>4 DEF IncidentOk
  <2>13. w.incident = {} => IncidentOk(w, h)
    BY DEF IncidentOk
  <2> QED
    BY <2>7, <2>8, <2>9, <2>10, <2>11, <2>12, <2>13
<1> DEFINE Asks(w, hits, incident) ==
      /\ SameAsk(q, w) /\ w.name = {} /\ w.versions = {} /\ w.disabled = {} /\ w.pathway = {}
      /\ w.hits = hits /\ w.incident = incident
<1>6. \A hits : Asks([q EXCEPT !.hits = hits], hits, {})
  BY <1>1, UserViewsAssumption DEF UserViewsAssumption, Parameters, SameAsk
<1>7. \A incident : Asks([q EXCEPT !.incident = incident], {}, incident)
  BY <1>1, UserViewsAssumption DEF UserViewsAssumption, Parameters, SameAsk
<1>8. \A w : Asks(w, {"yes"}, {}) => GetSystems(w) = {h \in Base : HitsOf(q, h) # {}}
  BY <1>3, <1>5
<1>9. \A w : Asks(w, {"1", "2", "3", "4"}, {}) => GetSystems(w) = {h \in Base : Rated(q, h)}
  BY <1>3, <1>5
<1>10. \A w : Asks(w, {"no"}, {}) => GetSystems(w) = {h \in Base : HitsOf(q, h) = {}}
  BY <1>3, <1>5
<1>11. \A w : Asks(w, {}, {TRUE}) => GetSystems(w) = {h \in Base : Incidents(q, h) # {}}
  BY <1>3, <1>5
<1>12. \A w : Asks(w, {}, {FALSE}) => GetSystems(w) = {h \in Base : Incidents(q, h) = {}}
  BY <1>3, <1>5
<1> HIDE DEF Asks, Base
<1>13. /\ GetSystems([q EXCEPT !.hits = {"yes"}]) = {h \in Base : HitsOf(q, h) # {}}
       /\ GetSystems([q EXCEPT !.hits = {"no"}]) = {h \in Base : HitsOf(q, h) = {}}
       /\ GetSystems([q EXCEPT !.hits = {"1", "2", "3", "4"}]) = {h \in Base : Rated(q, h)}
  BY <1>6, <1>8, <1>9, <1>10
<1>14. /\ GetSystems([q EXCEPT !.incident = {TRUE}]) = {h \in Base : Incidents(q, h) # {}}
       /\ GetSystems([q EXCEPT !.incident = {FALSE}]) = {h \in Base : Incidents(q, h) = {}}
  BY <1>7, <1>11, <1>12
<1> QED
  BY <1>2, <1>13, <1>14

\* The list of rules is split by its filter on impact, and its two filters on
\* acknowledgements agree.
LEMMA RulesSplit ==
  ASSUME NEW q \in Requests
  PROVE  /\ Splits(RuleList([q EXCEPT !.impacting = {}]), RuleList([q EXCEPT !.impacting = {TRUE}]),
                   RuleList([q EXCEPT !.impacting = {FALSE}]))
         /\ RuleList([q EXCEPT !.shown = {TRUE}, !.status = {}])
              = RuleList([q EXCEPT !.shown = {}, !.status = {"enabled"}])
<1> DEFINE Others(w, r) ==
      /\ Selects(w.pathway, RuleOf[r].pathway) /\ Selects(w.category, RuleOf[r].category)
      /\ TagAndTopicOk(w, r)
      /\ RuleIncidentOk(w, r) /\ PlaybookOk(w, r) /\ Selects(w.reboot, RuleOf[r].reboot)
      /\ Selects(w.risk, RuleOf[r].risk)
    Acked(w, r) == StatusOk(w, r) /\ Selects(w.shown, ReportsShown(w, r))
    Alike(w) ==
      /\ SameAsk(q, w) /\ w.pathway = q.pathway /\ w.ruleTags = q.ruleTags /\ w.ruleIncident = q.ruleIncident
      /\ w.playbook = q.playbook /\ w.reboot = q.reboot /\ w.risk = q.risk /\ w.topic = q.topic
<1>1. \A w : RuleList(w) = {r \in active : Others(w, r) /\ ImpactingOk(w, r) /\ Acked(w, r)}
  BY DEF RuleList, RulesForAccount
<1>2. ASSUME NEW w, Alike(w), NEW r PROVE Others(w, r) <=> Others(q, r)
  BY <1>2 DEF SameAsk, TagAndTopicOk, RuleIncidentOk, PlaybookOk
<1>3. ASSUME NEW w, Alike(w), NEW r
      PROVE  /\ ImpactedBy(w, r) = ImpactedBy(q, r)
             /\ ReportsShown(w, r) <=> ReportsShown(q, r)
             /\ RuleStatus(w, r) = RuleStatus(q, r)
  BY <1>3, SameSeen DEF ImpactedBy, ReportsShown, RuleStatus, SameAsk
<1>4. ASSUME NEW w, Alike(w), w.status = q.status, w.shown = q.shown, NEW r PROVE Acked(w, r) <=> Acked(q, r)
  BY <1>3, <1>4 DEF StatusOk, Selects, ReportsShown, SameAsk
<1>5. \A r : (RuleStatus(q, r) = "enabled") <=> ReportsShown(q, r)
  BY DEF RuleStatus, ReportsShown, Autoack, None
<1> HIDE DEF Others, Acked
<1>6. ASSUME NEW b, NEW w, w = [q EXCEPT !.impacting = b]
      PROVE  Alike(w) /\ w.impacting = b /\ w.status = q.status /\ w.shown = q.shown
  BY <1>6, UserViewsAssumption DEF UserViewsAssumption, Parameters, SameAsk
<1>7. ASSUME NEW w, NEW r, Alike(w)
      PROVE  /\ w.impacting = {} => ImpactingOk(w, r)
             /\ w.impacting = {TRUE} => (ImpactingOk(w, r) <=> ImpactedBy(q, r) # {})
             /\ w.impacting = {FALSE} => (ImpactingOk(w, r) <=> ImpactedBy(q, r) = {})
  BY <1>3, <1>7 DEF ImpactingOk
<1> DEFINE Whole == {r \in active : Others(q, r) /\ Acked(q, r)}
<1>8. /\ RuleList([q EXCEPT !.impacting = {}]) = Whole
      /\ RuleList([q EXCEPT !.impacting = {TRUE}]) = {r \in Whole : ImpactedBy(q, r) # {}}
      /\ RuleList([q EXCEPT !.impacting = {FALSE}]) = {r \in Whole : ImpactedBy(q, r) = {}}
  <2>1. ASSUME NEW w, Alike(w), w.status = q.status, w.shown = q.shown
        PROVE  RuleList(w) = {r \in Whole : ImpactingOk(w, r)}
    BY <1>1, <1>2, <1>4, <2>1
  <2> DEFINE asked(b) == [q EXCEPT !.impacting = b]
  <2>2. \A b : Alike(asked(b)) /\ asked(b).impacting = b /\ asked(b).status = q.status /\ asked(b).shown = q.shown
    BY <1>6
  <2> HIDE DEF Whole, Alike, asked
  <2>3. \A b : RuleList(asked(b)) = {r \in Whole : ImpactingOk(asked(b), r)}
    BY <2>1, <2>2
  <2>4. \A r : /\ ImpactingOk(asked({}), r)
               /\ ImpactingOk(asked({TRUE}), r) <=> ImpactedBy(q, r) # {}
               /\ ImpactingOk(asked({FALSE}), r) <=> ImpactedBy(q, r) = {}
    BY <1>7, <2>2
  <2>5. /\ RuleList(asked({})) = Whole
        /\ RuleList(asked({TRUE})) = {r \in Whole : ImpactedBy(q, r) # {}}
        /\ RuleList(asked({FALSE})) = {r \in Whole : ImpactedBy(q, r) = {}}
    BY <2>3, <2>4
  <2> QED
    BY <2>5 DEF asked
<1>9. Splits(RuleList([q EXCEPT !.impacting = {}]), RuleList([q EXCEPT !.impacting = {TRUE}]),
             RuleList([q EXCEPT !.impacting = {FALSE}]))
  <2> HIDE DEF Whole
  <2> QED
    BY <1>8 DEF Splits
<1> DEFINE a == [q EXCEPT !.shown = {TRUE}, !.status = {}]
           b == [q EXCEPT !.shown = {}, !.status = {"enabled"}]
<1>10. /\ Alike(a) /\ a.impacting = q.impacting /\ a.shown = {TRUE} /\ a.status = {}
       /\ Alike(b) /\ b.impacting = q.impacting /\ b.shown = {} /\ b.status = {"enabled"}
  BY UserViewsAssumption DEF UserViewsAssumption, Parameters, SameAsk
<1> HIDE DEF a, b
<1>11. \A r : Acked(a, r) <=> ReportsShown(q, r)
  <2>1. \A r : StatusOk(a, r)
    BY <1>10 DEF StatusOk
  <2>2. \A r : Selects(a.shown, ReportsShown(a, r)) <=> ReportsShown(a, r)
    BY <1>10 DEF Selects, ReportsShown
  <2> QED
    BY <1>3, <1>10, <2>1, <2>2 DEF Acked
<1>12. \A r : Acked(b, r) <=> ReportsShown(q, r)
  <2>1. \A r : StatusOk(b, r) <=> RuleStatus(b, r) = "enabled"
    BY <1>10 DEF StatusOk
  <2>2. \A r : Selects(b.shown, ReportsShown(b, r))
    BY <1>10 DEF Selects
  <2> QED
    BY <1>3, <1>5, <1>10, <2>1, <2>2 DEF Acked
<1>13. \A r : ImpactingOk(a, r) <=> ImpactingOk(b, r)
  BY <1>3, <1>10 DEF ImpactingOk
<1>14. RuleList(a) = RuleList(b)
  <2> HIDE DEF Alike
  <2> QED
    BY <1>1, <1>2, <1>10, <1>11, <1>12, <1>13
<1> QED
  BY <1>9, <1>14 DEF a, b

LEMMA SubsetsWellFounded ==
  ASSUME NEW S, IsFiniteSet(S)
  PROVE  IsWellFoundedOn(StrictSubsetOrdering(S), SUBSET S)
BY FS_StrictSubsetOrderingWellFounded, FS_FiniteSubsetsOfFinite, Zenon

\* Induction over the subsets of a finite set.
LEMMA SubsetInduction ==
  ASSUME NEW S, IsFiniteSet(S), NEW T, {} \in T,
         \A s \in SUBSET S : s # {} => \E x \in s : s \ {x} \in T => s \in T
  PROVE  SUBSET S \subseteq T
<1> SUFFICES ASSUME (SUBSET S) \ T # {} PROVE FALSE
  OBVIOUS
<1> DEFINE R == StrictSubsetOrdering(S)
<1>1. IsWellFoundedOn(R, SUBSET S)
  BY SubsetsWellFounded
<1>2. \A s \in SUBSET S : \A x \in s : <<s \ {x}, s>> \in R
  BY DEF StrictSubsetOrdering
<1> HIDE DEF R
<1> DEFINE M == (SUBSET S) \ T
<1>3. M \subseteq SUBSET S /\ M # {}
  OBVIOUS
<1> HIDE DEF M
<1>4. PICK s \in M : \A t \in M : ~ (<<t, s>> \in R)
  BY <1>1, <1>3, WFMin
<1>5. s \in SUBSET S /\ s \notin T /\ s # {}
  BY DEF M
<1>6. PICK x \in s : s \ {x} \in T => s \in T
  BY <1>5
<1>7. s \ {x} \in M
  BY <1>5, <1>6 DEF M
<1> QED
  BY <1>2, <1>4, <1>5, <1>7

\* The sum of what each row of the list counts of a risk is the number of the
\* reports of that risk.
LEMMA RowsSum ==
  ASSUME TypeOK, NEW q \in Requests, Plain(q), NEW n \in 1..4
  PROVE  MapThenSumSet(LAMBDA h : SystemRow(q, h).risk[n], SystemList(q))
           = Cardinality({x \in Reports(q) : RuleOf[x[2]].risk = n})
<1> DEFINE S == SystemList(q)
           R == {x \in Reports(q) : RuleOf[x[2]].risk = n}
           Part(s) == {x \in R : x[1] \in s}
           A(h) == SystemRow(q, h).risk[n]
           Step(g) == [s \in SUBSET S |-> IF s = {} THEN 0
                                          ELSE LET x == CHOOSE x \in s : TRUE IN A(x) + g[s \ {x}]]
           Sum == CHOOSE g : g = Step(g)
<1>1. MapThenSumSet(LAMBDA h : SystemRow(q, h).risk[n], SystemList(q)) = Sum[S]
  BY DEF MapThenSumSet, MapThenFoldSet
<1>2. \A x \in Reports(q) : x[1] \in S /\ x[2] \in HitsOf(q, x[1]) /\ x = <<x[1], x[2]>>
  <2>1. \A x \in Reports(q) : x = <<x[1], x[2]>>
    BY DEF TypeOK, VisibilityTypeOK, ReportTable, Reports
  <2>2. \A h, r : <<h, r>> \in Reports(q) => h \in S /\ r \in HitsOf(q, h)
    BY SeenByHits, PlainSystems DEF SystemList
  <2> QED
    BY <2>1, <2>2
<1>3. \A s : IsFiniteSet(Part(s)) /\ Cardinality(Part(s)) \in Nat
  <2>1. \A s : Part(s) \subseteq reports
    BY DEF Reports
  <2> QED
    BY <2>1, Finite, FS_Subset, FS_CardinalityType
<1>4. ASSUME NEW h \in S PROVE A(h) = Cardinality(Part({h}))
  <2> DEFINE H == HitsOfRisk(q, h, n)
             f == [r \in H |-> <<h, r>>]
  <2>1. A(h) = Cardinality(H)
    BY DEF SystemRow, Count
  <2>2. \A r : r \in H <=> <<h, r>> \in Part({h})
    <3>1. \A r : <<h, r>> \in Reports(q) <=> r \in HitsOf(q, h)
      BY <1>4, SeenByHits, PlainSystems DEF SystemList
    <3> QED
      BY <3>1 DEF HitsOfRisk
  <2>3. \A x \in Part({h}) : x = <<h, x[2]>>
    BY <1>2
  <2> HIDE DEF H, Part
  <2>4. f \in Bijection(H, Part({h}))
    <3>1. f \in [H -> Part({h})] /\ \A a, b \in H : f[a] = f[b] => a = b
      BY <2>2
    <3>2. ASSUME NEW x \in Part({h}) PROVE \E r \in H : f[r] = x
      <4>1. x = <<h, x[2]>> /\ x[2] \in H
        BY <2>2, <2>3
      <4> QED
        BY <4>1
    <3> HIDE DEF f
    <3> QED
      BY <3>1, <3>2 DEF Bijection, Injection, Surjection, IsInjective
  <2>5. IsFiniteSet(H)
    BY Finite DEF H, HitsOfRisk, HitsOf
  <2> QED
    BY <2>1, <2>4, <2>5, FS_Bijection DEF ExistsBijection
<1>5. ASSUME NEW s \in SUBSET S, NEW x \in s
      PROVE  Cardinality(Part(s)) = A(x) + Cardinality(Part(s \ {x}))
  <2> DEFINE one == Part({x})
             others == Part(s \ {x})
             both == one \cup others
             none == one \cap others
  <2>1. Part(s) = both /\ none = {}
    OBVIOUS
  <2>2. Cardinality(both) = Cardinality(one) + Cardinality(others) - Cardinality(none)
    <3>1. IsFiniteSet(one) /\ IsFiniteSet(others)
      BY <1>3
    <3> HIDE DEF one, others
    <3> QED
      BY <3>1, FS_Union
  <2>3. A(x) = Cardinality(one) /\ Cardinality(one) \in Nat /\ Cardinality(others) \in Nat
    BY <1>3, <1>4, <1>5
  <2>4. Cardinality(none) = 0
    BY <2>1, FS_EmptySet
  <2>5. Cardinality(Part(s)) = Cardinality(both)
    BY <2>1
  <2> HIDE DEF A, Part, one, others, both, none
  <2>6. Cardinality(Part(s)) = A(x) + Cardinality(others)
    BY <2>2, <2>3, <2>4, <2>5
  <2> QED
    BY <2>6 DEF others
<1>6. Part({}) = {} /\ Part(S) = R
  BY <1>2
<1> DEFINE G == [s \in SUBSET S |-> Cardinality(Part(s))]
<1>7. G = Step(G)
  <2>1. ASSUME NEW s \in SUBSET S PROVE G[s] = Step(G)[s]
    <3>1. CASE s = {}
      BY <1>6, <3>1, FS_EmptySet
    <3>2. CASE s # {}
      <4> DEFINE x == CHOOSE x \in s : TRUE
      <4>1. x \in s
        BY <3>2
      <4>2. s \ {x} \in SUBSET S
        OBVIOUS
      <4> HIDE DEF A, Part, S
      <4>3. G[s] = A(x) + G[s \ {x}]
        BY <1>5, <4>1, <4>2
      <4> QED
        BY <3>2, <4>3
    <3> QED
      BY <3>1, <3>2
  <2> HIDE DEF S, Part, A
  <2> QED
    BY <2>1
<1>8. Sum = Step(Sum)
  <2> HIDE DEF Step, G
  <2> QED
    BY <1>7
<1>9. SUBSET S \subseteq {s \in SUBSET S : Sum[s] = Cardinality(Part(s))}
  <2> DEFINE T == {s \in SUBSET S : Sum[s] = Cardinality(Part(s))}
  <2> HIDE DEF Sum, A, Part, S
  <2>1. {} \in T
    BY <1>6, <1>8, FS_EmptySet
  <2>2. ASSUME NEW s \in SUBSET S, s # {} PROVE \E x \in s : s \ {x} \in T => s \in T
    <3> DEFINE x == CHOOSE x \in s : TRUE
    <3>1. x \in s
      BY <2>2
    <3>2. Sum[s] = A(x) + Sum[s \ {x}]
      BY <1>8, <2>2
    <3> HIDE DEF x
    <3>3. s \ {x} \in T => s \in T
      BY <1>5, <3>1, <3>2
    <3> QED
      BY <3>1, <3>3
  <2>3. IsFiniteSet(S)
    BY Finite, PlainSystems DEF SystemList, HostsForAccount, S
  <2> HIDE DEF T
  <2>4. SUBSET S \subseteq T
    BY <2>1, <2>2, <2>3, SubsetInduction
  <2> QED
    BY <2>4 DEF T
<1> QED
  BY <1>1, <1>6, <1>9

LEMMA StatsFollow == TypeOK => StatsAgree
<1> SUFFICES ASSUME TypeOK, NEW q \in Requests, Plain(q)
             PROVE  /\ FiltersSplit(q)
                    /\ Stats(q, "system").total = Cardinality(GetSystems([q EXCEPT !.hits = {"yes"}]))
                    /\ \A n \in 1..4 : Stats(q, "report").risk[n]
                                         = MapThenSumSet(LAMBDA h : SystemRow(q, h).risk[n], SystemList(q))
                    /\ RulesIn(Reports(q))
                         = {r \in RulesForAccount : RuleRow(q, r).impacted > 0 /\ RuleRow(q, r).status = "enabled"}
                    /\ Overview(q).incidents = Stats(q, "rule").incidents
                    /\ Overview(q).critical = Stats(q, "rule").risk[4]
  BY DEF StatsAgree
<1>1. ReportsByJoins(q) = Reports(q)
  BY QueriesAgree DEF JoinsAgree
<1>2. FiltersSplit(q)
  <2> DEFINE hits(w) == GetSystems([q EXCEPT !.hits = w])
             some(w) == GetSystems([q EXCEPT !.incident = w])
  <2>1. /\ hits({"yes"}) = {h \in GetSystems(q) : HitsOf(q, h) # {}}
        /\ hits({"no"}) = {h \in GetSystems(q) : HitsOf(q, h) = {}}
        /\ hits({"1", "2", "3", "4"}) = {h \in GetSystems(q) : Rated(q, h)}
        /\ some({TRUE}) = {h \in GetSystems(q) : Incidents(q, h) # {}}
        /\ some({FALSE}) = {h \in GetSystems(q) : Incidents(q, h) = {}}
    BY SystemsSplit
  <2> HIDE DEF hits, some
  <2>2. Splits(GetSystems(q), hits({"yes"}), hits({"no"}))
    BY <2>1 DEF Splits
  <2>4. hits({"1", "2", "3", "4"}) = {h \in GetSystems(q) : \E r \in HitsOf(q, h) : RuleOf[r].risk # 0}
    BY <2>1 DEF Rated
  <2>3. Splits(GetSystems(q), some({TRUE}), some({FALSE}))
    BY <2>1 DEF Splits
  <2> QED
    BY <2>2, <2>3, <2>4, RulesSplit DEF hits, some, FiltersSplit
<1>3. Stats(q, "system").total = Cardinality(GetSystems([q EXCEPT !.hits = {"yes"}]))
  <2>1. HostsIn(Reports(q)) = {h \in GetSystems(q) : HitsOf(q, h) # {}}
    <3>1. \A x \in Reports(q) : x = <<x[1], x[2]>>
      BY DEF TypeOK, VisibilityTypeOK, ReportTable, Reports
    <3>2. \A h, r : <<h, r>> \in Reports(q) <=> h \in GetSystems(q) /\ r \in HitsOf(q, h)
      BY SeenByHits, PlainSystems
    <3>3. \A h : h \in HostsIn(Reports(q)) <=> \E r : <<h, r>> \in Reports(q)
      <4>1. ASSUME NEW h \in HostsIn(Reports(q)) PROVE \E r : <<h, r>> \in Reports(q)
        <5>1. PICK x \in Reports(q) : h = x[1]
          BY <4>1 DEF HostsIn
        <5> QED
          BY <3>1, <5>1
      <4>2. ASSUME NEW h, NEW r, <<h, r>> \in Reports(q) PROVE h \in HostsIn(Reports(q))
        BY <4>2 DEF HostsIn
      <4> QED
        BY <4>1, <4>2
    <3>4. \A h : h \in HostsIn(Reports(q)) <=> h \in GetSystems(q) /\ HitsOf(q, h) # {}
      BY <3>2, <3>3
    <3> QED
      BY <3>4
  <2>2. GetSystems([q EXCEPT !.hits = {"yes"}]) = {h \in GetSystems(q) : HitsOf(q, h) # {}}
    BY SystemsSplit
  <2>3. Stats(q, "system").total = Cardinality(HostsIn(Reports(q)))
    BY <1>1 DEF Stats, StatsCounts, Counted
  <2> HIDE DEF HostsIn
  <2> QED
    BY <2>1, <2>2, <2>3
<1>4. \A n \in 1..4 : Stats(q, "report").risk[n] = MapThenSumSet(LAMBDA h : SystemRow(q, h).risk[n], SystemList(q))
  <2>1. \A n \in 1..4 : Stats(q, "report").risk[n] = Cardinality({x \in Reports(q) : RuleOf[x[2]].risk = n})
    BY <1>1 DEF Stats, StatsCounts, Counted
  <2> QED
    BY <2>1, RowsSum
<1>5. RulesIn(Reports(q))
        = {r \in RulesForAccount : RuleRow(q, r).impacted > 0 /\ RuleRow(q, r).status = "enabled"}
  <2>1. \A x \in Reports(q) : x = <<x[1], x[2]>> /\ x[1] \in Hosts /\ x[2] \in Rules
    BY DEF TypeOK, VisibilityTypeOK, ReportTable, HostTable, Reports
  <2>2. \A r : RuleRow(q, r).status = "enabled" <=> acks[<<q.org, r>>] = None
    BY DEF RuleRow, RuleStatus, None, Autoack
  <2>3. \A r : RuleRow(q, r).impacted > 0 <=> ImpactedBy(q, r) # {}
    BY Finite, NonEmpty DEF RuleRow, ImpactedBy
  <2>4. ASSUME NEW r
        PROVE  (\E h \in Hosts : <<h, r>> \in Reports(q))
                 <=> r \in active /\ ImpactedBy(q, r) # {} /\ acks[<<q.org, r>>] = None
    <3>1. r \in active => r \in Rules
      BY DEF TypeOK, VisibilityTypeOK, RuleTable
    <3>2. r \in Rules => (r \notin HiddenRules(q.org) <=> r \in active /\ acks[<<q.org, r>>] = None)
      BY DEF HiddenRules, AckedBy
    <3>3. \A h : <<h, r>> \in Reports(q) <=> <<h, r>> \in ReportsOfRules(q) /\ r \notin HiddenRules(q.org)
      BY DEF Reports, ReportsOfRules
    <3>4. \A h : <<h, r>> \in ReportsOfRules(q) => r \in Rules
      BY DEF TypeOK, VisibilityTypeOK, ReportTable, ReportsOfRules
    <3>5. ImpactedBy(q, r) # {} <=> \E h \in Hosts : <<h, r>> \in ReportsOfRules(q)
      BY DEF ImpactedBy
    <3> QED
      BY <3>1, <3>2, <3>3, <3>4, <3>5
  <2>5. \A r : r \in RulesIn(Reports(q)) <=> \E h \in Hosts : <<h, r>> \in Reports(q)
    BY <2>1 DEF RulesIn
  <2> QED
    BY <2>2, <2>3, <2>4, <2>5 DEF RulesForAccount
<1>6. Overview(q).incidents = Stats(q, "rule").incidents /\ Overview(q).critical = Stats(q, "rule").risk[4]
  <2> DEFINE rs == Reports(q)
             incident == {r \in RulesIn(rs) : "incident" \in RuleOf[r].tags}
             critical == {r \in RulesIn(rs) : RuleOf[r].risk = 4}
  <2>1. Overview(q).incidents = Cardinality(incident) /\ Overview(q).critical = Cardinality(critical)
    BY <1>1 DEF Overview
  <2>2. /\ Stats(q, "rule").incidents = Cardinality(RulesIn({x \in rs : "incident" \in RuleOf[x[2]].tags}))
        /\ Stats(q, "rule").risk[4] = Cardinality(RulesIn({x \in rs : RuleOf[x[2]].risk = 4}))
    BY <1>1 DEF Stats, StatsCounts, Counted
  <2>3. incident = RulesIn({x \in rs : "incident" \in RuleOf[x[2]].tags})
    BY DEF RulesIn
  <2>4. critical = RulesIn({x \in rs : RuleOf[x[2]].risk = 4})
    BY DEF RulesIn
  <2> HIDE DEF incident, critical
  <2> QED
    BY <2>1, <2>2, <2>3, <2>4
<1> QED
  BY <1>2, <1>3, <1>4, <1>5, <1>6

\* The statistics (stats.py) agree with the lists that they summarise, for any
\* tables: each filter of two values splits its list, the systems counted are
\* those listed with hits, the reports counted of a risk are as many as the
\* rows of the systems' list tell in sum, and the overview counts the rules
\* that the list of rules shows.
THEOREM StatsAgreeWithLists == Spec => []StatsAgree
<1> QED
  BY TypeCorrect, StatsFollow, PTL
=============================================================================
