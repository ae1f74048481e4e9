-------------------------- MODULE MaintenancePlans ---------------------------
(***************************************************************************)
(* The maintenance plans of Satellite (sat_compat/views/maintenance.py),   *)
(* each a set of actions, a rule to remedy on a host, and the requests of  *)
(* Satellite that change the tables.  A request is a sequence of database  *)
(* statements without a transaction, so that requests of several workers   *)
(* interleave, and one that fails leaves what it has done.                 *)
(***************************************************************************)
EXTENDS SatViews

CONSTANTS
  Workers,       \* the threads that answer requests
  Plans,         \* identifiers of plans
  Lists,         \* fixture: the lists that a request may give to add
  FirstPlans,    \* fixture: the plans there are at first,
  FirstActions,  \* ... and what they may hold
  MaxActions,    \* bound: actions ever stored
  MaxRequests,   \* bound: requests
  MaxChanges     \* bound: changes by others

\* An identifier that no plan has had yet, and one whose plan was deleted:
\* none is given twice.
NoPlan    == [org |-> None, branch |-> None]
Deleted   == [org |-> None, branch |-> "deleted"]
PlanRow   == [org : Orgs, branch : UNION {q.branch : q \in Requests}]
Playbooks == UNION {RuleOf[r].books : r \in Rules}
Action    == [id : Nat, plan : Plans, rule : Rules, host : Hosts, book : SUBSET Playbooks]

\* Plans are given hosts by account, which requests and hosts of several
\* organisations may all be without.
Reaches(o, h) == \E q \in Requests : q.org = o /\ q.account = HostOf[h].account

ASSUME MaintenancePlansAssumption ==
  /\ MaxActions \in Nat /\ MaxRequests \in Nat /\ MaxChanges \in Nat
  /\ \A q \in Requests : "reportCount" \in DOMAIN q
  /\ \A p \in DOMAIN FirstPlans : FirstPlans[p] \in PlanRow
  /\ \A s \in FirstActions :
       /\ s \subseteq Action /\ IsFiniteSet(s)
       /\ \A a, b \in s : a.id <= Cardinality(s) /\ (a.id = b.id => a = b)
       /\ \A a \in s : a.plan \in DOMAIN FirstPlans /\ Reaches(FirstPlans[a.plan].org, a.host)

VARIABLES
  plans,         \* the organisation and branch of each stored plan
  actions,       \* stored actions
  nextId,        \* identifier of the next action
  job,           \* the request each worker is answering
  requests,      \* bound: requests made
  changes,       \* bound: changes made
  unregistered   \* history: hosts unregistered since their last upload

planVars == <<plans, actions, nextId>>
bounds   == <<requests, changes>>
vars     == <<db, planVars, job, bounds, unregistered>>

NoJob  == [step |-> "idle"]
Asked  == requests < MaxRequests /\ requests' = requests + 1
Stored(p) == plans[p] \notin {NoPlan, Deleted}
ActionsOf(p) == {a \in actions : a.plan = p}
Finish(w) == job' = [job EXCEPT ![w] = NoJob]
Goto(w, j) == job' = [job EXCEPT ![w] = j]
-----------------------------------------------------------------------------
(* What a plan shows, MaintenanceViewSet.get_queryset: the actions for rules *)
(* that are active and not acknowledged, on hosts of the inventory.          *)

InInventory(o, h) == HostOf[h].org = o /\ fresh[h] # "absent"
Shown(o, a) == InInventory(o, a.host) /\ a.rule \in active \ AckedBy(o)
PlansOf(q)  == {p \in Plans : plans[p].org = q.org /\ Selects(q.branch, plans[p].branch)}
PlanShows(o, p) == {a \in ActionsOf(p) : Shown(o, a)}

\* get_playbook: of the actions shown, as often as the rule has playbooks.
Remediated(q, p) == {a \in PlanShows(q.org, p) : RuleOf[a.rule].playbooks > 0}
IssueSystems(q, p, r) ==
  LET issue == {a \in Remediated(q, p) : a.rule = r}
  IN  [h \in {a.host : a \in issue} |-> RuleOf[r].playbooks * Cardinality({a \in issue : a.host = h})]
\* plays: for each rule, the playbooks for the types its hosts upload with.
Plays(q, p) == {<<a.rule, HostOf[a.host].system>> : a \in {b \in PlanShows(q.org, p) : Uploading(b.host)}}

\* SystemsViewSet of the exports: the actions counted for a system.
ExportedActions(o, h) == Cardinality({a \in actions : a.host = h /\ a.rule \in active \ AckedBy(o)})
-----------------------------------------------------------------------------
(* add_actions. *)

\* The hosts of an entry: one by its Insights identifier, or all of the
\* branch with a report of the rule that the request sees; of the account.
\* Variant: hosts of any account.
EntryHostsAny(q, p, e) == {h \in known : fresh[h] # "absent" /\ HostOf[h].insights = e.system}
EntryHosts(q, p, e) ==
  LET named == IF e.system # None THEN {e.system}
               ELSE {HostOf[x[1]].insights : x \in {x \in ReportsForAccount(q, e.rule) : HostOf[x[1]].branch = plans[p].branch}}
  IN  {h \in known : fresh[h] # "absent" /\ HostOf[h].insights \in named /\ HostOf[h].account = q.account}

\* hosts_for_rules_in_plan: the plan of an update comes from get_queryset,
\* and a query over its actions, whenever it is made, is over those shown;
\* the plan that create has made is another object, with all its actions.
ActionsRead(j) == IF j.prefetched THEN PlanShows(j.q.org, j.plan) ELSE ActionsOf(j.plan)

\* Variant: the actions of the plan are not looked at.
AddedAnew(j, seen) == UNION {{e.rule} \X EntryHosts(j.q, j.plan, e) : e \in {e \in j.list : e.rule \in active}}

\* Entries for inactive rules are left out, and hosts whose identifier has an
\* action for the rule among those read.
Added(j, seen) ==
  {x \in UNION {{e.rule} \X EntryHosts(j.q, j.plan, e) : e \in {e \in j.list : e.rule \in active}} :
     \A a \in seen : a.rule = x[1] => HostOf[a.host].insights # HostOf[x[2]].insights}

\* The identifier of each host read is that of the inventory, where one that
\* a create reads may be no more.
Gather(w) ==
  LET j    == job[w]
      seen == ActionsRead(j)
  IN  /\ j.step = "add"
      /\ IF \E a \in seen : fresh[a.host] = "absent" THEN Finish(w)
         ELSE Goto(w, [j EXCEPT !.step = "insert", !.rows = Added(j, seen), !.seen = seen])
      /\ UNCHANGED <<db, planVars, bounds, unregistered>>

\* bulk_create: all rows, unless one's plan or host has gone.
Insert(w) ==
  LET p    == job[w].plan
      rows == job[w].rows
      ok   == Stored(p) /\ \A x \in rows : x[2] \in known
  IN  /\ job[w].step = "insert" /\ nextId + Cardinality(rows) <= MaxActions + 1
      /\ IF ok THEN \E f \in [rows -> nextId..(nextId + Cardinality(rows) - 1)] :
                      /\ \A x, y \in rows : f[x] = f[y] => x = y
                      /\ actions' = actions \cup {[id |-> f[x], plan |-> p, rule |-> x[1], host |-> x[2], book |-> {}] : x \in rows}
                      /\ nextId' = nextId + Cardinality(rows)
         ELSE UNCHANGED <<actions, nextId>>
      /\ Finish(w)
      /\ UNCHANGED <<db, plans, bounds, unregistered>>
-----------------------------------------------------------------------------
(* MaintenanceViewSet.create, .update and .destroy. *)

Create(w) ==
  \E q \in Requests, p \in Plans, list \in Lists :
    /\ Asked /\ job[w] = NoJob /\ plans[p] = NoPlan /\ q.branch # {}
    /\ p = CHOOSE x \in Plans : plans[x] = NoPlan
    /\ plans' = [plans EXCEPT ![p] = [org |-> q.org, branch |-> CHOOSE b \in q.branch : TRUE]]
    /\ Goto(w, [step |-> "add", plan |-> p, q |-> q, list |-> list, prefetched |-> FALSE, rows |-> {}, seen |-> {}])
    /\ UNCHANGED <<db, actions, nextId, changes, unregistered>>

\* The steps that an update has; its identifiers are of any actions, and
\* those it keeps are what the plan showed, or none.  Bound: one of the three.
Edits(o, p) ==
  {e \in [ save : BOOLEAN, delete : {{}} \cup {{a.id} : a \in actions},
           keep : {{}, {{}}, {{a.id : a \in PlanShows(o, p)}}}, add : {{}} \cup {{l} : l \in Lists} ] :
     (e.save => e.delete = {}) /\ (e.save \/ e.delete # {} => e.keep = {})}

StartUpdate(w) ==
  \E q \in Requests : \E p \in PlansOf(q) : \E e \in Edits(q.org, p) :
    /\ Asked /\ job[w] = NoJob /\ q.branch # {}
    /\ Goto(w, [step |-> "save", plan |-> p, q |-> q, edit |-> e, was |-> plans[p]])
    /\ UNCHANGED <<db, planVars, changes, unregistered>>

\* plan.save() inserts the plan again when it has been deleted.
SavePlan(w) ==
  /\ job[w].step = "save"
  /\ plans' = IF job[w].edit.save THEN [plans EXCEPT ![job[w].plan] = job[w].was] ELSE plans
  /\ Goto(w, [job[w] EXCEPT !.step = "delete"])
  /\ UNCHANGED <<db, actions, nextId, bounds, unregistered>>

\* Variant: of all the actions of the plan.
WithoutHidden(o, p, ids) == {a \in actions : a.plan # p \/ a.id \notin ids}
\* Deleted are actions that the plan shows at this statement, like those that
\* are not kept; hidden ones stay.
Without(o, p, ids) == actions \ {a \in PlanShows(o, p) : a.id \in ids}

DeleteActions(w) ==
  /\ job[w].step = "delete"
  /\ actions' = Without(job[w].q.org, job[w].plan, job[w].edit.delete)
  /\ Goto(w, [job[w] EXCEPT !.step = "keep"])
  /\ UNCHANGED <<db, plans, nextId, bounds, unregistered>>

Kept(o, p, keep) == actions \ {a \in PlanShows(o, p) : \E ids \in keep : a.id \notin ids}

KeepActions(w) ==
  LET j == job[w]
  IN  /\ j.step = "keep"
      /\ actions' = Kept(j.q.org, j.plan, j.edit.keep)
      /\ IF j.edit.add = {} THEN Finish(w)
         ELSE Goto(w, [step |-> "add", plan |-> j.plan, q |-> j.q, list |-> CHOOSE l \in j.edit.add : TRUE,
                       prefetched |-> TRUE, rows |-> {}, seen |-> {}])
      /\ UNCHANGED <<db, plans, nextId, bounds, unregistered>>

\* The rows go together, in Django's transaction.
Destroy(w) ==
  \E q \in Requests : \E p \in {p \in Plans : plans[p].org = q.org} :
    /\ Asked /\ job[w] = NoJob
    /\ plans' = [plans EXCEPT ![p] = Deleted]
    /\ actions' = actions \ ActionsOf(p)
    /\ UNCHANGED <<db, nextId, job, changes, unregistered>>

\* plays_set_playbook, of the one playbook of a type, reads the actions shown,
\* and saves one after another, which inserts again one that has been deleted
\* if its plan and host are there.
StartSetPlaybook(w) ==
  \E q \in Requests : \E p \in PlansOf(q), r \in Rules : \E b \in RuleOf[r].books :
    LET todo == {a \in PlanShows(q.org, p) : a.rule = r}
    IN  /\ Asked /\ job[w] = NoJob /\ todo # {} /\ {x \in RuleOf[r].books : x.type = b.type} = {b}
        /\ Goto(w, [step |-> "play", todo |-> todo, book |-> b])
        /\ UNCHANGED <<db, planVars, changes, unregistered>>
SetPlaybook(w) ==
  /\ job[w].step = "play"
  /\ \E a \in job[w].todo :
       LET stored == Stored(a.plan) /\ a.host \in known
       IN  /\ actions' = IF stored THEN {x \in actions : x.id # a.id} \cup {[a EXCEPT !.book = {job[w].book}]} ELSE actions
           /\ IF stored /\ job[w].todo # {a} THEN Goto(w, [job[w] EXCEPT !.todo = @ \ {a}]) ELSE Finish(w)
  /\ UNCHANGED <<db, plans, nextId, bounds, unregistered>>
-----------------------------------------------------------------------------
(* SystemViewSet.destroy, and AckViewSet. *)

\* Variant: the reports go, and the upload stays.
UploadsWithoutAll(h) == uploads
UploadsWithout(h) == {u \in uploads : u[1] # h}

Unregister(w) ==
  \E q \in Requests : \E h \in SatSystemSet(q) :
    /\ Asked /\ job[w] = NoJob
    /\ reports' = {x \in reports : x[1] # h} /\ uploads' = UploadsWithout(h)
    /\ unregistered' = unregistered \cup {h}
    /\ UNCHANGED <<active, fresh, known, acks, hostacks, planVars, job, changes>>

\* Acknowledgements of inactive rules as well, unlike the API's own view.
SatAck(w) ==
  \E q \in Requests, r \in Rules :
    /\ Asked /\ job[w] = NoJob
    /\ \E by \in {"user", None} \ {acks[<<q.org, r>>]} : acks' = [acks EXCEPT ![<<q.org, r>>] = by]
    /\ UNCHANGED <<active, fresh, known, uploads, reports, hostacks, planVars, job, changes, unregistered>>

Request(w) ==
  \/ Create(w) \/ StartUpdate(w) \/ Destroy(w) \/ StartSetPlaybook(w) \/ Unregister(w) \/ SatAck(w)
Step(w) ==
  \/ Gather(w) \/ Insert(w) \/ SavePlan(w) \/ DeleteActions(w) \/ KeepActions(w) \/ SetPlaybook(w)
-----------------------------------------------------------------------------
(* The other processes. *)

Change == changes < MaxChanges /\ changes' = changes + 1
Upload ==
  \E h \in Hosts, s \in Sources, rs \in {{}, Rules} :
    /\ Change
    /\ known' = known \cup {h} /\ uploads' = uploads \cup {<<h, s>>}
    /\ fresh' = [fresh EXCEPT ![h] = "fresh"]
    /\ reports' = {x \in reports : x[1] # h} \cup ({h} \X rs)
    /\ unregistered' = unregistered \ {h}
    /\ UNCHANGED <<active, acks, hostacks, planVars, job, requests>>

TimePasses ==
  \E h \in Hosts :
    /\ Change /\ fresh[h] \in {"fresh", "stale"}
    /\ fresh' = [fresh EXCEPT ![h] = IF @ = "fresh" THEN "stale" ELSE "warned"]
    /\ UNCHANGED <<active, known, uploads, reports, acks, hostacks, planVars, job, requests, unregistered>>

\* V1SystemViewSet.delete asks Inventory, whose events come later, of the
\* replicated row first; the host's row takes its actions with it.
LeavesInventory ==
  \E h \in Hosts :
    /\ Change /\ fresh[h] # "absent" /\ fresh' = [fresh EXCEPT ![h] = "absent"]
    /\ UNCHANGED <<active, known, uploads, reports, acks, hostacks, planVars, job, requests, unregistered>>
HostDeleted ==
  \E h \in known :
    /\ Change /\ known' = known \ {h}
    /\ uploads' = UploadsWithout(h) /\ reports' = {x \in reports : x[1] # h}
    /\ hostacks' = {x \in hostacks : x[2] # h} /\ actions' = {a \in actions : a.host # h}
    /\ UNCHANGED <<active, fresh, acks, plans, nextId, job, requests, unregistered>>

RuleFlips ==
  \E r \in Rules :
    /\ Change
    /\ active' = IF r \in active THEN active \ {r} ELSE active \cup {r}
    /\ UNCHANGED <<fresh, known, uploads, reports, acks, hostacks, planVars, job, requests, unregistered>>

Elsewhere == Upload \/ TimePasses \/ LeavesInventory \/ HostDeleted \/ RuleFlips

-----------------------------------------------------------------------------
Init ==
  /\ active = Rules /\ known = Hosts /\ fresh = [h \in Hosts |-> "fresh"]
  /\ reports = Hosts \X Rules /\ uploads = Hosts \X {Puptoo}
  /\ acks = [x \in Orgs \X Rules |-> None] /\ hostacks = {}
  /\ plans = [p \in Plans |-> IF p \in DOMAIN FirstPlans THEN FirstPlans[p] ELSE NoPlan]
  /\ actions \in FirstActions
  /\ nextId = Cardinality(actions) + 1
  /\ job = [w \in Workers |-> NoJob]
  /\ requests = 0 /\ changes = 0 /\ unregistered = {}

Next == Elsewhere \/ \E w \in Workers : Request(w) \/ Step(w)
Spec == Init /\ [][Next]_vars
-----------------------------------------------------------------------------
(* Properties. *)

\* The export counts for a system the actions that the organisation's plans
\* show for it (SystemsViewSet of the exports, MaintenanceViewSet), unless
\* requests of another organisation have the host's account, or none like it.
ActionsCounted ==
  \A q \in Requests : \A h \in HostsForAccount(q, FALSE, TRUE) :
    (\A o \in Orgs \ {q.org} : ~ Reaches(o, h)) =>
      ExportedActions(q.org, h) =
        Cardinality({a \in UNION {PlanShows(q.org, p) : p \in {p \in Plans : plans[p].org = q.org}} : a.host = h})

\* What Satellite sees agrees: the systems with reports are the hosts of the
\* reports, the rules with a count those of the reports, and a topic's hits
\* and the statistics add up.
SatAgree ==
  \A q \in Requests :
    /\ {h \in SatSystemSet(q) : ReportCount(q, h) > 0} = {h \in HostsIn(Reports(q)) : Uploading(h)}
    /\ q.ansible = {} => RulesIn(Reports(q)) = {r \in active : CountOk([q EXCEPT !.reportCount = {"gt0"}], Cardinality(ReportsOfRule(q, r)))}
    /\ q.rule = {} => SatReports(q) = {x \in Hosts \X Rules : x[2] \in SatSystemReports(q, x[1])}
    /\ \A s \in {s \in Slugs : RulesOfSlug(s) # {}} :
                        LET topic == SatTopic(q, RulesOfSlug(s))
                        IN  topic.hits = MapThenSumSet(LAMBDA r : topic.rules[r], DOMAIN topic.rules)
    /\ SatStats(q).affected <= SatTotal(q)

\* A host that was unregistered is in no list until it uploads again.
UnregisteredHidden ==
  \A h \in unregistered, q \in Requests : h \notin SatSystemSet(q) \cup HostsIn(Reports(q))

\* An action property: a second action for a rule and an Insights identifier
\* is only added beside one that the request has not read (add_actions): one
\* that was stored since, by whichever request, or that its plan, when it read
\* it for an update, did not show.
NoNewDuplicates ==
  [][\A w \in Workers :
       job[w].step = "insert" /\ job'[w] # job[w] =>
         \A a \in actions' \ actions, b \in actions :
           a.plan = b.plan /\ a.rule = b.rule /\ HostOf[a.host].insights = HostOf[b.host].insights =>
             \A s \in job[w].seen : s.id # b.id]_vars

\* An action property: a plan loses an action with the plan or the host, or
\* to a request that updates this plan, if the plan shows the action when it
\* goes and the request names it, or does not list it with those to keep.  An
\* action that is hidden, by an acknowledgement, by its rule or as its host
\* left the inventory, is there when that ends.
PlansKeepTheirActions ==
  [][\A a \in actions :
       \/ \E b \in actions' : b.id = a.id /\ b.plan = a.plan /\ b.rule = a.rule /\ b.host = a.host
       \/ plans'[a.plan] = Deleted \/ a.host \notin known'
       \/ /\ Shown(plans[a.plan].org, a)
          /\ \E w \in Workers : /\ job[w].step \in {"delete", "keep"} /\ job[w].plan = a.plan /\ job'[w] # job[w]
                               /\ \/ job[w].step = "delete" /\ a.id \in job[w].edit.delete
                                  \/ job[w].step = "keep" /\ \E ids \in job[w].edit.keep : a.id \notin ids]_vars
=============================================================================
