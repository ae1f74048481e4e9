----------------------- MODULE MaintenancePlans_proofs -----------------------
(***************************************************************************)
(* Theorems about what Satellite sees of the hosts it unregisters, what    *)
(* its plans keep and the export counts, and that its views agree, for any *)
(* hosts, plans, workers and requests.                                     *)
(***************************************************************************)
EXTENDS MaintenancePlans, TLAPS, FiniteSetTheorems, WellFoundedInduction

\* Nothing is left of an unregistered host that a view could select it by.
Nothing == \A h \in unregistered : h \notin HostsIn(uploads) \cup HostsIn(reports)

LEMMA InitHolds == Init => Nothing
BY DEF Init, Nothing

\* The requests delete uploads and reports, and add none.
LEMMA RequestKeeps ==
  ASSUME Nothing, NEW w \in Workers, Request(w) \/ Step(w)
  PROVE  Nothing'
<1>1. CASE Unregister(w)
  <2>1. PICK h : /\ reports' = {x \in reports : x[1] # h} /\ uploads' = UploadsWithout(h)
                 /\ unregistered' = unregistered \cup {h}
    BY <1>1 DEF Unregister
  <2> QED
    BY <2>1 DEF Nothing, HostsIn, UploadsWithout
<1>2. CASE ~ Unregister(w)
  <2>1. Request(w) => UNCHANGED <<uploads, reports, unregistered>>
    BY <1>2 DEF Request, Create, StartUpdate, Destroy, StartSetPlaybook, SatAck, db
  <2>2. Step(w) => UNCHANGED <<uploads, reports, unregistered>>
    BY DEF Step, Gather, Insert, SavePlan, DeleteActions, KeepActions, SetPlaybook, db
  <2> QED
    BY <2>1, <2>2 DEF Nothing, HostsIn
<1> QED
  BY <1>1, <1>2

\* An upload registers its host again.
LEMMA ElsewhereKeeps ==
  ASSUME Nothing, Elsewhere
  PROVE  Nothing'
<1>1. CASE Upload
  <2>1. PICK h \in Hosts, s \in Sources, rs \in {{}, Rules} :
          /\ uploads' = uploads \cup {<<h, s>>}
          /\ reports' = {x \in reports : x[1] # h} \cup ({h} \X rs)
          /\ unregistered' = unregistered \ {h}
    BY <1>1 DEF Upload
  <2> QED
    BY <2>1 DEF Nothing, HostsIn
<1>2. CASE HostDeleted
  BY <1>2 DEF HostDeleted, UploadsWithout, Nothing, HostsIn
<1>3. CASE TimePasses \/ LeavesInventory \/ RuleFlips
  BY <1>3 DEF TimePasses, LeavesInventory, RuleFlips, Nothing, HostsIn
<1> QED
  BY <1>1, <1>2, <1>3 DEF Elsewhere

\* Unregistering deletes a host's uploads and reports, without which neither
\* the list of systems, which are those that upload, nor a list of reports
\* shows it to any request (SystemViewSet.destroy), whichever plans, acks and
\* inventory change meanwhile.
THEOREM StaysUnregistered == Spec => []UnregisteredHidden
<1>1. Nothing /\ [Next]_vars => Nothing'
  <2> SUFFICES ASSUME Nothing, [Next]_vars PROVE Nothing'
    OBVIOUS
  <2>1. CASE UNCHANGED vars
    BY <2>1 DEF vars, db, Nothing, HostsIn
  <2> QED
    BY <2>1, RequestKeeps, ElsewhereKeeps DEF Next
<1>2. Nothing => UnregisteredHidden
  <2> SUFFICES ASSUME Nothing, NEW h \in unregistered, NEW q \in Requests
               PROVE  h \notin SatSystemSet(q) \cup HostsIn(Reports(q))
    BY DEF UnregisteredHidden
  <2>1. h \notin SatSystemSet(q)
    BY DEF SatSystemSet, Uploading, Nothing, HostsIn
  <2>2. HostsIn(Reports(q)) \subseteq HostsIn(reports)
    BY DEF HostsIn, Reports
  <2> QED
    BY <2>1, <2>2 DEF Nothing
<1> QED
  BY <1>1, <1>2, InitHolds, PTL DEF Spec
-----------------------------------------------------------------------------
(* Types, and what identifies an action. *)

AddJob  == [step : {"add", "insert"}, plan : Plans, q : Requests, list : Lists,
            prefetched : BOOLEAN, rows : SUBSET (Rules \X Hosts), seen : SUBSET Action]
Edit    == [save : BOOLEAN, delete : SUBSET Nat, keep : SUBSET SUBSET Nat, add : SUBSET Lists]
EditJob == [step : {"save", "delete", "keep"}, plan : Plans, q : Requests, edit : Edit, was : PlanRow \cup {NoPlan, Deleted}]
PlayJob == [step : {"play"}, todo : SUBSET Action, book : Playbooks]

TypeOK ==
  /\ active \subseteq Rules /\ known \subseteq Hosts
  /\ plans \in [Plans -> PlanRow \cup {NoPlan, Deleted}] /\ actions \subseteq Action /\ nextId \in Nat
  /\ job \in [Workers -> {NoJob} \cup AddJob \cup EditJob \cup PlayJob]

\* The actions that requests have in memory: those that plays_set_playbook
\* may store again, and those that add_actions has read.
HeldBy(j) == CASE j.step = "play" -> j.todo [] j.step = "insert" -> j.seen [] OTHER -> {}
Held      == UNION {HeldBy(job[w]) : w \in Workers}
Same(a, b) == a.plan = b.plan /\ a.rule = b.rule /\ a.host = b.host
Identified(as, n) == \A a, b \in as : a.id < n /\ (a.id = b.id => Same(a, b))

\* What is to be inserted was new to the plan when the request read it.
Fitting ==
  \A w \in Workers : job[w].step = "insert" =>
    \A x \in job[w].rows, a \in job[w].seen : a.rule = x[1] => HostOf[a.host].insights # HostOf[x[2]].insights

IInv == TypeOK /\ Identified(actions \cup Held, nextId) /\ Fitting

\* When one worker's request goes on, the others hold what they held.
LEMMA GotoKeeps ==
  ASSUME TypeOK, NEW w \in Workers, NEW j \in {NoJob} \cup AddJob \cup EditJob \cup PlayJob, Goto(w, j)
  PROVE  /\ job' \in [Workers -> {NoJob} \cup AddJob \cup EditJob \cup PlayJob]
         /\ job'[w] = j /\ \A v \in Workers : v # w => job'[v] = job[v]
         /\ Held' \subseteq Held \cup HeldBy(j)
         /\ j.step \notin {"play", "insert"} => Held' \subseteq Held
<1>1. job'[w] = j /\ \A v \in Workers : v # w => job'[v] = job[v]
  BY DEF Goto, TypeOK
<1>2. job' \in [Workers -> {NoJob} \cup AddJob \cup EditJob \cup PlayJob]
  BY DEF Goto, TypeOK
<1>3. Held' \subseteq Held \cup HeldBy(j)
  BY <1>1 DEF Held
<1>4. j.step \notin {"play", "insert"} => HeldBy(j) = {}
  BY DEF HeldBy
<1> QED
  BY <1>1, <1>2, <1>3, <1>4

LEMMA FinishKeeps ==
  ASSUME TypeOK, NEW w \in Workers, Finish(w)
  PROVE  /\ job' \in [Workers -> {NoJob} \cup AddJob \cup EditJob \cup PlayJob]
         /\ job'[w] = NoJob /\ \A v \in Workers : v # w => job'[v] = job[v]
         /\ Held' \subseteq Held
<1>1. Goto(w, NoJob)
  BY DEF Finish, Goto
<1>2. NoJob.step \notin {"play", "insert"}
  BY DEF NoJob
<1> QED
  BY <1>1, <1>2, GotoKeeps

\* A job of a step has the fields of its kind.
LEMMA JobKinds ==
  ASSUME TypeOK, NEW w \in Workers
  PROVE  /\ job[w].step \in {"add", "insert"} => job[w] \in AddJob
         /\ job[w].step \in {"save", "delete", "keep"} => job[w] \in EditJob
         /\ job[w].step = "play" => job[w] \in PlayJob
BY DEF TypeOK, NoJob, AddJob, EditJob, PlayJob

\* With no more actions, and with no more held, those there are stay apart.
LEMMA FewerIdentified ==
  ASSUME IInv, actions' \subseteq actions, Held' \subseteq Held \cup actions, nextId' = nextId
  PROVE  Identified(actions' \cup Held', nextId')
BY DEF IInv, Identified

LEMMA PlansInit == Init => IInv
<1> SUFFICES ASSUME Init PROVE IInv
  OBVIOUS
<1>1. nextId \in Nat /\ actions \subseteq Action /\ Identified(actions, nextId)
  <2>1. Cardinality(actions) \in Nat
    BY MaintenancePlansAssumption, FS_CardinalityType DEF Init, MaintenancePlansAssumption
  <2>2. \A a \in actions : a.id \in Nat
    BY MaintenancePlansAssumption DEF Init, MaintenancePlansAssumption, Action
  <2> QED
    BY <2>1, <2>2, MaintenancePlansAssumption DEF Init, MaintenancePlansAssumption, Identified, Same
<1>2. TypeOK
  BY <1>1, MaintenancePlansAssumption DEF Init, TypeOK, MaintenancePlansAssumption, PlanRow
<1>3. Held = {}
  BY DEF Init, Held, HeldBy, NoJob
<1> QED
  BY <1>1, <1>2, <1>3 DEF IInv, Fitting, Init, NoJob

LEMMA CreateKeeps ==
  ASSUME IInv, NEW w \in Workers, Create(w)
  PROVE  IInv'
<1>1. PICK q \in Requests, p \in Plans, list \in Lists :
        /\ q.branch # {} /\ UNCHANGED <<db, actions, nextId>>
        /\ plans' = [plans EXCEPT ![p] = [org |-> q.org, branch |-> CHOOSE b \in q.branch : TRUE]]
        /\ Goto(w, [step |-> "add", plan |-> p, q |-> q, list |-> list, prefetched |-> FALSE, rows |-> {}, seen |-> {}])
  BY DEF Create
<1> DEFINE j == [step |-> "add", plan |-> p, q |-> q, list |-> list, prefetched |-> FALSE, rows |-> {}, seen |-> {}]
<1>2. j \in AddJob /\ j.step = "add"
  BY DEF AddJob
<1> HIDE DEF j
<1>3. /\ job' \in [Workers -> {NoJob} \cup AddJob \cup EditJob \cup PlayJob]
      /\ job'[w] = j /\ \A v \in Workers : v # w => job'[v] = job[v]
      /\ Held' \subseteq Held
  BY <1>1, <1>2, GotoKeeps DEF IInv, j
<1>4. [org |-> q.org, branch |-> CHOOSE b \in q.branch : TRUE] \in PlanRow
  BY <1>1, VisibilityAssumption DEF VisibilityAssumption, PlanRow
<1>5. TypeOK'
  BY <1>1, <1>3, <1>4 DEF IInv, TypeOK, db
<1>6. Fitting'
  BY <1>2, <1>3 DEF IInv, Fitting
<1> QED
  BY <1>1, <1>3, <1>5, <1>6, FewerIdentified DEF IInv

LEMMA StartUpdateKeeps ==
  ASSUME IInv, NEW w \in Workers, StartUpdate(w)
  PROVE  IInv'
<1>1. PICK q \in Requests : \E p \in PlansOf(q) : \E e \in Edits(q.org, p) :
        /\ UNCHANGED <<db, planVars>>
        /\ Goto(w, [step |-> "save", plan |-> p, q |-> q, edit |-> e, was |-> plans[p]])
  BY DEF StartUpdate
<1>0. PICK p \in PlansOf(q) : \E e \in Edits(q.org, p) :
        /\ UNCHANGED <<db, planVars>>
        /\ Goto(w, [step |-> "save", plan |-> p, q |-> q, edit |-> e, was |-> plans[p]])
  BY <1>1
<1>2. PICK e \in Edits(q.org, p) :
        /\ UNCHANGED <<db, planVars>>
        /\ Goto(w, [step |-> "save", plan |-> p, q |-> q, edit |-> e, was |-> plans[p]])
  BY <1>0
<1> DEFINE j == [step |-> "save", plan |-> p, q |-> q, edit |-> e, was |-> plans[p]]
<1>3. j \in EditJob /\ j.step = "save"
  <2>1. p \in Plans /\ plans[p] \in PlanRow \cup {NoPlan, Deleted}
    BY DEF PlansOf, IInv, TypeOK
  <2>2. e \in Edit
    <3>1. \A x \in actions : x.id \in Nat
      BY DEF IInv, TypeOK, Action
    <3>2. {x.id : x \in PlanShows(q.org, p)} \in SUBSET Nat
      BY <3>1 DEF PlanShows, ActionsOf
    <3>3. ({{}} \cup {{a.id} : a \in actions}) \subseteq SUBSET Nat
      BY <3>1
    <3> QED
      BY <3>2, <3>3 DEF Edits, Edit
  <2> QED
    BY <2>1, <2>2 DEF EditJob
<1> HIDE DEF j
<1>4. /\ job' \in [Workers -> {NoJob} \cup AddJob \cup EditJob \cup PlayJob]
      /\ job'[w] = j /\ \A v \in Workers : v # w => job'[v] = job[v]
      /\ Held' \subseteq Held
  BY <1>2, <1>3, GotoKeeps DEF IInv, j
<1>5. TypeOK' /\ Fitting'
  BY <1>2, <1>3, <1>4 DEF IInv, TypeOK, Fitting, db, planVars
<1> QED
  BY <1>2, <1>4, <1>5, FewerIdentified DEF IInv, planVars

\* The parts of an update that write.
LEMMA UpdateKeeps ==
  ASSUME IInv, NEW w \in Workers, SavePlan(w) \/ DeleteActions(w) \/ KeepActions(w)
  PROVE  IInv'
<1>1. job[w] \in EditJob
  BY JobKinds DEF IInv, SavePlan, DeleteActions, KeepActions
<1>2. /\ actions' \subseteq actions /\ nextId' = nextId /\ UNCHANGED db
      /\ plans' \in [Plans -> PlanRow \cup {NoPlan, Deleted}]
  BY <1>1 DEF SavePlan, DeleteActions, KeepActions, Without, Kept, IInv, TypeOK, EditJob
<1>3. PICK j \in {NoJob} \cup AddJob \cup EditJob : Goto(w, j) /\ j.step \notin {"insert", "play"}
  <2>1. CASE SavePlan(w) \/ DeleteActions(w)
    <3>1. PICK s \in {"delete", "keep"} : Goto(w, [job[w] EXCEPT !.step = s])
      BY <2>1 DEF SavePlan, DeleteActions
    <3>2. [job[w] EXCEPT !.step = s] \in EditJob /\ [job[w] EXCEPT !.step = s].step = s
      BY <1>1 DEF EditJob
    <3> QED
      BY <3>1, <3>2
  <2>2. CASE KeepActions(w) /\ job[w].edit.add = {}
    <3>1. Goto(w, NoJob) /\ NoJob.step = "idle"
      BY <2>2 DEF KeepActions, Finish, Goto, NoJob
    <3> QED
      BY <3>1
  <2>3. CASE KeepActions(w) /\ job[w].edit.add # {}
    <3> DEFINE k == [step |-> "add", plan |-> job[w].plan, q |-> job[w].q,
                     list |-> CHOOSE l \in job[w].edit.add : TRUE, prefetched |-> TRUE, rows |-> {}, seen |-> {}]
    <3>1. Goto(w, k)
      BY <2>3 DEF KeepActions
    <3>2. (CHOOSE l \in job[w].edit.add : TRUE) \in Lists
      BY <1>1, <2>3 DEF EditJob, Edit
    <3>3. k \in AddJob /\ k.step = "add"
      BY <1>1, <3>2 DEF AddJob, EditJob
    <3> QED
      BY <3>1, <3>3
  <2> QED
    BY <2>1, <2>2, <2>3
<1>4. /\ job' \in [Workers -> {NoJob} \cup AddJob \cup EditJob \cup PlayJob]
      /\ job'[w] = j /\ \A v \in Workers : v # w => job'[v] = job[v]
      /\ Held' \subseteq Held
  BY <1>3, GotoKeeps DEF IInv
<1>5. TypeOK' /\ Fitting'
  BY <1>2, <1>3, <1>4 DEF IInv, TypeOK, Fitting, db
<1> QED
  BY <1>2, <1>4, <1>5, FewerIdentified DEF IInv

\* What Gather finds to add is of active rules and known hosts, and new.
LEMMA AddedIsNew ==
  ASSUME TypeOK, NEW j, NEW seen
  PROVE  /\ Added(j, seen) \subseteq Rules \X Hosts
         /\ \A x \in Added(j, seen), a \in seen :
              a.rule = x[1] => HostOf[a.host].insights # HostOf[x[2]].insights
<1>1. \A e : EntryHosts(j.q, j.plan, e) \subseteq Hosts
  BY DEF EntryHosts, TypeOK
<1>2. UNION {{e.rule} \X EntryHosts(j.q, j.plan, e) : e \in {e \in j.list : e.rule \in active}} \subseteq Rules \X Hosts
  BY <1>1 DEF TypeOK
<1> QED
  BY <1>2 DEF Added

\* What the step leads to: no job, or one that inserts what is new.
LEMMA Gathered ==
  ASSUME TypeOK, NEW w \in Workers, Gather(w)
  PROVE  /\ job[w] \in AddJob /\ UNCHANGED <<db, planVars>>
         /\ \/ Goto(w, NoJob)
            \/ \E k \in AddJob :
                 /\ Goto(w, k) /\ k.step = "insert" /\ k.plan = job[w].plan /\ k.q = job[w].q
                 /\ k.seen \subseteq actions /\ k.rows = Added(job[w], k.seen)
<1> DEFINE seen == ActionsRead(job[w])
           rows == Added(job[w], seen)
           k == [job[w] EXCEPT !.step = "insert", !.rows = rows, !.seen = seen]
<1>1. job[w] \in AddJob /\ UNCHANGED <<db, planVars>>
  BY JobKinds DEF Gather
<1>2. Goto(w, k) \/ Goto(w, NoJob)
  BY DEF Gather, Finish, Goto
<1>3. seen \subseteq actions /\ actions \subseteq Action
  BY DEF ActionsRead, PlanShows, ActionsOf, TypeOK
<1> HIDE DEF seen
<1>4. rows \subseteq Rules \X Hosts
  BY AddedIsNew
<1> HIDE DEF rows
<1>5. k \in AddJob /\ k.step = "insert" /\ k.plan = job[w].plan /\ k.q = job[w].q /\ k.seen = seen /\ k.rows = rows
  BY <1>1, <1>3, <1>4 DEF AddJob
<1> HIDE DEF k
<1> QED
  BY <1>1, <1>2, <1>3, <1>5 DEF rows

LEMMA GatherKeeps ==
  ASSUME IInv, NEW w \in Workers, Gather(w)
  PROVE  IInv'
<1>1. job[w] \in AddJob /\ UNCHANGED <<db, planVars>>
  BY Gathered DEF IInv
<1>2. PICK j \in {NoJob} \cup AddJob :
        /\ Goto(w, j) /\ j.step # "play" /\ HeldBy(j) \subseteq actions
        /\ j.step = "insert" => \A x \in j.rows, a \in j.seen :
                                  a.rule = x[1] => HostOf[a.host].insights # HostOf[x[2]].insights
  <2>1. CASE Goto(w, NoJob)
    BY <2>1 DEF NoJob, HeldBy
  <2>2. ASSUME NEW k \in AddJob, Goto(w, k), k.step = "insert", k.seen \subseteq actions,
               k.rows = Added(job[w], k.seen)
        PROVE  /\ k.step # "play" /\ HeldBy(k) \subseteq actions
               /\ \A x \in k.rows, a \in k.seen :
                    a.rule = x[1] => HostOf[a.host].insights # HostOf[x[2]].insights
    BY <2>2, AddedIsNew DEF IInv, HeldBy
  <2> QED
    BY <2>1, <2>2, Gathered DEF IInv
<1>3. /\ job' \in [Workers -> {NoJob} \cup AddJob \cup EditJob \cup PlayJob]
      /\ job'[w] = j /\ \A v \in Workers : v # w => job'[v] = job[v]
      /\ Held' \subseteq Held \cup actions
  BY <1>2, GotoKeeps DEF IInv
<1>4. TypeOK' /\ Fitting'
  BY <1>1, <1>2, <1>3 DEF IInv, TypeOK, Fitting, db, planVars
<1> QED
  BY <1>1, <1>3, <1>4, FewerIdentified DEF IInv, planVars

\* What bulk_create inserts: nothing, or an action with an identifier of its
\* own for each row.
LEMMA Inserted ==
  ASSUME IInv, NEW w \in Workers, Insert(w)
  PROVE  /\ actions \subseteq actions' /\ actions' \subseteq Action /\ nextId' \in Nat /\ nextId' >= nextId
         /\ \A a \in actions' \ actions :
              /\ a.plan = job[w].plan /\ <<a.rule, a.host>> \in job[w].rows
              /\ a.id >= nextId /\ a.id < nextId'
         /\ \A a, b \in actions' \ actions : a.id = b.id => Same(a, b)
<1> DEFINE p == job[w].plan
           rows == job[w].rows
<1>1. p \in Plans /\ rows \in SUBSET (Rules \X Hosts) /\ nextId \in Nat /\ actions \subseteq Action
  BY JobKinds DEF Insert, IInv, TypeOK, AddJob
<1>2. Cardinality(rows) \in Nat
  <2>1. IsFiniteSet(Rules \X Hosts)
    BY VisibilityAssumption, FS_Product DEF VisibilityAssumption
  <2>2. IsFiniteSet(rows)
    BY <1>1, <2>1, FS_Subset
  <2> QED
    BY <2>2, FS_CardinalityType
<1> HIDE DEF p, rows
<1>3. CASE UNCHANGED <<actions, nextId>>
  BY <1>1, <1>3
<1>4. ASSUME NEW f \in [rows -> nextId..(nextId + Cardinality(rows) - 1)],
             \A x, y \in rows : f[x] = f[y] => x = y,
             actions' = actions \cup {[id |-> f[x], plan |-> p, rule |-> x[1], host |-> x[2], book |-> {}] : x \in rows},
             nextId' = nextId + Cardinality(rows)
      PROVE  /\ actions \subseteq actions' /\ actions' \subseteq Action /\ nextId' \in Nat /\ nextId' >= nextId
             /\ \A a \in actions' \ actions :
                  /\ a.plan = p /\ <<a.rule, a.host>> \in rows
                  /\ a.id >= nextId /\ a.id < nextId'
             /\ \A a, b \in actions' \ actions : a.id = b.id => Same(a, b)
  <2> DEFINE row(x) == [id |-> f[x], plan |-> p, rule |-> x[1], host |-> x[2], book |-> {}]
  <2>1. \A x \in rows : x = <<x[1], x[2]>> /\ x[1] \in Rules /\ x[2] \in Hosts
    BY <1>1
  <2>2. \A x \in rows : f[x] \in Nat /\ f[x] >= nextId /\ f[x] < nextId + Cardinality(rows)
    BY <1>1, <1>2, <1>4
  <2>3. \A x \in rows : row(x) \in Action
    BY <1>1, <2>1, <2>2 DEF Action
  <2>4. \A a \in actions' \ actions : \E x \in rows : a = row(x)
    BY <1>4
  <2>5. actions' \subseteq Action /\ nextId' \in Nat /\ nextId' >= nextId /\ actions \subseteq actions'
    BY <1>1, <1>2, <1>4, <2>3
  <2>6. ASSUME NEW a \in actions' \ actions
        PROVE  a.plan = p /\ <<a.rule, a.host>> \in rows /\ a.id >= nextId /\ a.id < nextId'
    BY <1>4, <2>1, <2>2, <2>4, <2>6
  <2>7. ASSUME NEW a \in actions' \ actions, NEW b \in actions' \ actions, a.id = b.id
        PROVE  Same(a, b)
    <3>1. PICK x \in rows : a = row(x)
      BY <2>4
    <3>2. PICK y \in rows : b = row(y)
      BY <2>4
    <3>3. f[x] = f[y]
      BY <2>7, <3>1, <3>2
    <3>4. x = y
      BY <1>4, <3>3
    <3>5. a = b
      BY <3>1, <3>2, <3>4
    <3> QED
      BY <3>5 DEF Same
  <2> QED
    BY <2>5, <2>6, <2>7
<1> QED
  BY <1>3, <1>4 DEF Insert, p, rows

LEMMA InsertKeeps ==
  ASSUME IInv, NEW w \in Workers, Insert(w)
  PROVE  IInv'
<1>1. UNCHANGED <<db, plans>> /\ Finish(w)
  BY DEF Insert
<1>2. /\ job' \in [Workers -> {NoJob} \cup AddJob \cup EditJob \cup PlayJob]
      /\ job'[w] = NoJob /\ \A v \in Workers : v # w => job'[v] = job[v]
      /\ Held' \subseteq Held
  BY <1>1, FinishKeeps DEF IInv
<1>3. TypeOK'
  BY <1>1, <1>2, Inserted DEF IInv, TypeOK, db
<1>4. Identified(actions' \cup Held', nextId')
  <2>1. \A a \in actions \cup Held : a.id < nextId /\ a.id \in Nat
    <3>1. Held \subseteq Action
      BY JobKinds DEF Held, HeldBy, IInv, PlayJob, AddJob
    <3> QED
      BY <3>1 DEF IInv, Identified, TypeOK, Action
  <2>2. \A a \in actions' \cup Held' : a \in actions \cup Held \/ a \in actions' \ actions
    BY <1>2
  <2>3. nextId \in Nat /\ nextId' \in Nat /\ nextId' >= nextId /\ actions' \subseteq Action
    BY Inserted DEF IInv, TypeOK
  <2>4. ASSUME NEW a \in actions' \cup Held', NEW b \in actions' \cup Held'
        PROVE  a.id < nextId' /\ (a.id = b.id => Same(a, b))
    <3>1. \A c \in actions' \ actions : c.id >= nextId /\ c.id < nextId' /\ c.id \in Nat
      BY <2>3, Inserted DEF Action
    <3>2. a.id < nextId'
      BY <2>1, <2>2, <2>3, <3>1
    <3>3. CASE a \in actions \cup Held /\ b \in actions \cup Held
      BY <3>2, <3>3 DEF IInv, Identified
    <3>4. CASE a \in actions' \ actions /\ b \in actions' \ actions
      BY <3>2, <3>4, Inserted
    <3>5. CASE (a \in actions \cup Held) # (b \in actions \cup Held)
      BY <2>1, <2>2, <2>3, <3>1, <3>2, <3>5
    <3> QED
      BY <2>2, <3>3, <3>4, <3>5
  <2> QED
    BY <2>4 DEF Identified
<1>5. Fitting'
  BY <1>2 DEF IInv, Fitting, NoJob
<1> QED
  BY <1>3, <1>4, <1>5 DEF IInv

LEMMA StartSetPlaybookKeeps ==
  ASSUME IInv, NEW w \in Workers, StartSetPlaybook(w)
  PROVE  IInv'
<1>1. PICK q \in Requests : \E p \in PlansOf(q), r \in Rules : \E b \in RuleOf[r].books :
        /\ UNCHANGED <<db, planVars>>
        /\ Goto(w, [step |-> "play", todo |-> {a \in PlanShows(q.org, p) : a.rule = r}, book |-> b])
  BY DEF StartSetPlaybook
<1>0. PICK p \in PlansOf(q), r \in Rules : \E b \in RuleOf[r].books :
        /\ UNCHANGED <<db, planVars>>
        /\ Goto(w, [step |-> "play", todo |-> {a \in PlanShows(q.org, p) : a.rule = r}, book |-> b])
  BY <1>1
<1>2. PICK b \in RuleOf[r].books :
        /\ UNCHANGED <<db, planVars>>
        /\ Goto(w, [step |-> "play", todo |-> {a \in PlanShows(q.org, p) : a.rule = r}, book |-> b])
  BY <1>0
<1> DEFINE todo == {a \in PlanShows(q.org, p) : a.rule = r}
           j == [step |-> "play", todo |-> todo, book |-> b]
<1>3. todo \subseteq actions /\ b \in Playbooks
  BY <1>2 DEF PlanShows, ActionsOf, Playbooks
<1>4. j \in PlayJob /\ j.step = "play" /\ j.todo \subseteq actions
  BY <1>3 DEF PlayJob, IInv, TypeOK
<1> HIDE DEF j, todo
<1>7. HeldBy(j) = j.todo
  BY <1>4 DEF HeldBy
<1>5. /\ job' \in [Workers -> {NoJob} \cup AddJob \cup EditJob \cup PlayJob]
      /\ job'[w] = j /\ \A v \in Workers : v # w => job'[v] = job[v]
      /\ Held' \subseteq Held \cup j.todo
  BY <1>2, <1>4, <1>7, GotoKeeps DEF IInv, j, todo
<1>6. TypeOK' /\ Fitting'
  BY <1>2, <1>4, <1>5 DEF IInv, TypeOK, Fitting, db, planVars
<1> QED
  BY <1>2, <1>4, <1>5, <1>6, FewerIdentified DEF IInv, planVars

\* An action is stored again as it was held, but for its playbook.
LEMMA SetPlaybookStores ==
  ASSUME IInv, NEW w \in Workers, SetPlaybook(w)
  PROVE  /\ actions' \subseteq Action
         /\ \A b \in actions' : \E a \in actions \cup Held : a.id = b.id /\ Same(a, b)
         /\ \A a \in actions : \E b \in actions' : a.id = b.id /\ Same(b, a)
<1>1. job[w] \in PlayJob
  BY JobKinds DEF IInv, SetPlaybook
<1>2. PICK a \in job[w].todo :
        \/ actions' = {x \in actions : x.id # a.id} \cup {[a EXCEPT !.book = {job[w].book}]}
        \/ actions' = actions
  BY DEF SetPlaybook
<1> DEFINE new == [a EXCEPT !.book = {job[w].book}]
<1>3. a \in Held /\ a \in Action
  BY <1>1 DEF Held, HeldBy, SetPlaybook, PlayJob
<1>4. new \in Action /\ new.id = a.id /\ Same(a, new)
  BY <1>1, <1>3 DEF Action, PlayJob, Same
<1> HIDE DEF new
<1>5. \A x \in actions : x.id = a.id => Same(new, x)
  BY <1>3, <1>4 DEF IInv, Identified, Same
<1>6. CASE actions' = {x \in actions : x.id # a.id} \cup {new}
  <2>1. actions' \subseteq Action
    BY <1>4, <1>6 DEF IInv, TypeOK
  <2>2. \A b \in actions' : \E x \in actions \cup Held : x.id = b.id /\ Same(x, b)
    BY <1>3, <1>4, <1>6 DEF Same
  <2>3. \A x \in actions : \E b \in actions' : x.id = b.id /\ Same(b, x)
    BY <1>4, <1>5, <1>6 DEF Same
  <2> QED
    BY <2>1, <2>2, <2>3
<1>7. CASE actions' = actions
  BY <1>7 DEF IInv, TypeOK, Same
<1> QED
  BY <1>2, <1>6, <1>7 DEF new

LEMMA SetPlaybookKeeps ==
  ASSUME IInv, NEW w \in Workers, SetPlaybook(w)
  PROVE  IInv'
<1>1. job[w] \in PlayJob /\ UNCHANGED <<db, plans, nextId>>
  BY JobKinds DEF IInv, SetPlaybook
<1>2. PICK j \in {NoJob} \cup PlayJob : Goto(w, j) /\ (j.step = "play" => j.todo \subseteq job[w].todo) /\ j.step # "insert"
  <2>1. NoJob.step = "idle"
    BY DEF NoJob
  <2>2. PICK a : \/ Goto(w, [job[w] EXCEPT !.todo = @ \ {a}])
                 \/ Finish(w)
    BY DEF SetPlaybook
  <2> DEFINE k == [job[w] EXCEPT !.todo = @ \ {a}]
  <2>3. k \in PlayJob /\ k.step = "play" /\ k.todo \subseteq job[w].todo
    BY <1>1 DEF PlayJob
  <2>4. Goto(w, k) \/ Goto(w, NoJob)
    BY <2>2 DEF Finish, Goto
  <2> HIDE DEF k
  <2> QED
    BY <2>1, <2>3, <2>4
<1>3. /\ job' \in [Workers -> {NoJob} \cup AddJob \cup EditJob \cup PlayJob]
      /\ job'[w] = j /\ \A v \in Workers : v # w => job'[v] = job[v]
      /\ Held' \subseteq Held
  <2>1. job[w].todo \subseteq Held
    BY DEF Held, HeldBy, SetPlaybook
  <2> QED
    BY <1>2, <2>1, GotoKeeps DEF IInv, HeldBy
<1>4. TypeOK' /\ Fitting'
  BY <1>1, <1>2, <1>3, SetPlaybookStores DEF IInv, TypeOK, Fitting, db
<1>5. Identified(actions' \cup Held', nextId')
  <2>1. \A b \in actions' \cup Held' : \E a \in actions \cup Held : a.id = b.id /\ Same(a, b)
    BY <1>3, SetPlaybookStores DEF Same
  <2> QED
    BY <1>1, <2>1 DEF IInv, Identified, Same
<1> QED
  BY <1>4, <1>5 DEF IInv

\* The other steps leave the jobs alone, and add no action.
LEMMA QuietKeeps ==
  ASSUME IInv, (\E w \in Workers : Destroy(w) \/ Unregister(w) \/ SatAck(w)) \/ Elsewhere
  PROVE  IInv'
<1>1. actions' \subseteq actions /\ UNCHANGED <<job, nextId>> /\ plans' \in [Plans -> PlanRow \cup {NoPlan, Deleted}]
  <2>1. plans \in [Plans -> PlanRow \cup {NoPlan, Deleted}]
    BY DEF IInv, TypeOK
  <2> QED
    BY <2>1 DEF Destroy, Unregister, SatAck, Elsewhere, Upload, TimePasses, LeavesInventory, HostDeleted, RuleFlips,
                planVars, db
<1>2. active' \subseteq Rules /\ known' \subseteq Hosts
  BY DEF IInv, TypeOK, Destroy, Unregister, SatAck, Elsewhere, Upload, TimePasses, LeavesInventory, HostDeleted,
         RuleFlips, db
<1>3. TypeOK' /\ Fitting' /\ Held' = Held
  BY <1>1, <1>2 DEF IInv, TypeOK, Fitting, Held
<1> QED
  BY <1>1, <1>3, FewerIdentified DEF IInv

LEMMA PlansKept == IInv /\ [Next]_vars => IInv'
<1> SUFFICES ASSUME IInv, [Next]_vars PROVE IInv'
  OBVIOUS
<1>1. CASE UNCHANGED vars
  BY <1>1 DEF vars, planVars, db, IInv, TypeOK, Fitting, Held, Identified
<1>2. CASE Elsewhere
  BY <1>2, QuietKeeps
<1>3. ASSUME NEW w \in Workers, Request(w) PROVE IInv'
  BY <1>3, CreateKeeps, StartUpdateKeeps, StartSetPlaybookKeeps, QuietKeeps DEF Request
<1>4. ASSUME NEW w \in Workers, Step(w) PROVE IInv'
  BY <1>4, GatherKeeps, InsertKeeps, UpdateKeeps, SetPlaybookKeeps DEF Step
<1> QED
  BY <1>1, <1>2, <1>3, <1>4 DEF Next

LEMMA PlansHold == Spec => []IInv
<1> QED
  BY PlansInit, PlansKept, PTL DEF Spec
-----------------------------------------------------------------------------
(* What a reader should know of. *)

\* No identifier is given to two actions, of those stored and those a request
\* may store again (plays_set_playbook), whichever requests interleave.
THEOREM ActionsIdentified == Spec => [](TypeOK /\ Identified(actions \cup Held, nextId))
<1> QED
  BY PlansHold, PTL DEF IInv

\* A request adds no second action for a rule and an Insights identifier to
\* one that it has read (add_actions), whatever it was asked to add, in
\* whichever branch, and whatever playbook is set for that one meanwhile.
THEOREM NoneAddedTwice == Spec => NoNewDuplicates
<1> DEFINE Fits(w) ==
       job[w].step = "insert" /\ job'[w] # job[w] =>
         \A a \in actions' \ actions, b \in actions :
           a.plan = b.plan /\ a.rule = b.rule /\ HostOf[a.host].insights = HostOf[b.host].insights =>
             \A s \in job[w].seen : s.id # b.id
<1>1. IInv /\ [Next]_vars => [\A w \in Workers : Fits(w)]_vars
  <2> SUFFICES ASSUME IInv, Next, NEW w \in Workers, job[w].step = "insert", job'[w] # job[w],
                      NEW a \in actions' \ actions, NEW b \in actions, a.rule = b.rule,
                      NEW s \in job[w].seen, s.id = b.id
               PROVE  HostOf[a.host].insights # HostOf[b.host].insights
    OBVIOUS
  <2>1. Insert(w)
    <3>1. ~ Elsewhere
      BY DEF Elsewhere, Upload, TimePasses, LeavesInventory, HostDeleted, RuleFlips
    <3>2. ASSUME NEW v \in Workers, Request(v) \/ Step(v) PROVE v = w
      <4>1. Request(v) => job' = job \/ \E j : Goto(v, j)
        BY DEF Request, Create, StartUpdate, Destroy, StartSetPlaybook, Unregister, SatAck
      <4>2. Step(v) => \E j : Goto(v, j)
        BY DEF Step, Gather, Insert, SavePlan, DeleteActions, KeepActions, SetPlaybook, Goto, Finish
      <4> QED
        BY <3>2, <4>1, <4>2 DEF Goto, IInv, TypeOK
    <3>3. ~ Request(w)
      <4>1. job[w] # NoJob
        BY DEF NoJob
      <4> HIDE DEF Fits
      <4>2. Request(w) => job[w] = NoJob
        BY Zenon DEF Request, Create, StartUpdate, Destroy, StartSetPlaybook, Unregister, SatAck
      <4> QED
        BY <4>1, <4>2
    <3>4. Step(w) => Insert(w)
      BY DEF Step, Gather, SavePlan, DeleteActions, KeepActions, SetPlaybook
    <3> QED
      BY <3>1, <3>2, <3>3, <3>4 DEF Next
  <2>2. <<a.rule, a.host>> \in job[w].rows
    BY <2>1, Inserted
  <2>3. Same(s, b)
    BY DEF IInv, Identified, Held, HeldBy
  <2>4. \A x \in job[w].rows, c \in job[w].seen : c.rule = x[1] => HostOf[c.host].insights # HostOf[x[2]].insights
    BY DEF IInv, Fitting
  <2> QED
    BY <2>2, <2>3, <2>4 DEF Same
<1>2. [][\A w \in Workers : Fits(w)]_vars => NoNewDuplicates
  BY PTL DEF NoNewDuplicates
<1> QED
  BY <1>1, <1>2, PlansHold, PTL DEF Spec
-----------------------------------------------------------------------------
(* Whose the plans and their actions are.  The organisation that creates a  *)
(* plan is the one that every request about it acts for, also one that      *)
(* stores the plan, or an action of it, again after it was deleted; so the  *)
(* hosts that are added to it are of an account that its requests have.     *)

JobFits(j, o, ps) ==
  j.step \in {"add", "insert", "save", "delete", "keep"} =>
    /\ o[j.plan] = j.q.org /\ ps[j.plan] # NoPlan
    /\ j.step = "save" => j.was \in PlanRow /\ j.was.org = j.q.org
    /\ j.step = "insert" => \A x \in j.rows : Reaches(j.q.org, x[2])

OwnedBy(o) ==
  /\ \A p \in Plans : Stored(p) => plans[p].org = o[p]
  /\ \A a \in actions \cup Held : plans[a.plan] # NoPlan /\ Reaches(o[a.plan], a.host)
  /\ \A a \in actions : Stored(a.plan)
  /\ \A w \in Workers : JobFits(job[w], o, plans)

Owners == [Plans -> Orgs \cup {None}]
Owned  == \E o \in Owners : OwnedBy(o)

LEMMA OwnedNext ==
  ASSUME IInv, NEW o \in Owners, OwnedBy(o), NEW w \in Workers, NEW j,
         job'[w] = j, \A v \in Workers : v # w => job'[v] = job[v],
         \A p \in Plans : plans[p] # NoPlan => plans'[p] # NoPlan,
         \A p \in Plans : Stored(p)' => plans'[p].org = o[p],
         \A a \in actions' : Stored(a.plan)' /\ Reaches(o[a.plan], a.host),
         Held' \subseteq Held \cup actions, JobFits(j, o, plans')
  PROVE  OwnedBy(o)'
<1>1. Held \subseteq Action /\ actions \subseteq Action
  BY JobKinds DEF Held, HeldBy, IInv, TypeOK, PlayJob, AddJob
<1>2. \A v \in Workers : JobFits(job'[v], o, plans')
  <2> SUFFICES ASSUME NEW v \in Workers, v # w PROVE JobFits(job[v], o, plans')
    OBVIOUS
  <2>1. job[v].step \in {"add", "insert", "save", "delete", "keep"} => job[v].plan \in Plans
    BY JobKinds DEF IInv, AddJob, EditJob
  <2>2. JobFits(job[v], o, plans)
    BY DEF OwnedBy
  <2> QED
    BY <2>1, <2>2 DEF JobFits
<1>3. \A a \in Held' : plans'[a.plan] # NoPlan /\ Reaches(o[a.plan], a.host)
  BY <1>1 DEF OwnedBy, Action
<1>4. \A a \in actions' : plans'[a.plan] # NoPlan
  BY DEF Stored
<1> QED
  BY <1>2, <1>3, <1>4 DEF OwnedBy

\* The ordinary case: no plan changes, and no action is new.
LEMMA OwnedStill ==
  ASSUME IInv, NEW o \in Owners, OwnedBy(o), NEW w \in Workers, NEW j,
         job'[w] = j, \A v \in Workers : v # w => job'[v] = job[v],
         UNCHANGED plans, actions' \subseteq actions, Held' \subseteq Held \cup actions, JobFits(j, o, plans)
  PROVE  OwnedBy(o)'
<1>1. \A p \in Plans : Stored(p)' => plans'[p].org = o[p]
  BY DEF OwnedBy, Stored
<1>2. \A a \in actions' : Stored(a.plan)' /\ Reaches(o[a.plan], a.host)
  BY DEF OwnedBy, Stored
<1> QED
  BY <1>1, <1>2, OwnedNext

LEMMA OwnedInit == Init => Owned
<1> SUFFICES ASSUME Init PROVE Owned
  OBVIOUS
<1> DEFINE o == [p \in Plans |-> plans[p].org]
<1>1. \A p \in Plans : plans[p].org \in Orgs \cup {None}
  BY MaintenancePlansAssumption DEF MaintenancePlansAssumption, Init, PlanRow, NoPlan
<1>2. \A a \in actions : /\ a.plan \in Plans /\ a.plan \in DOMAIN FirstPlans
                         /\ Reaches(FirstPlans[a.plan].org, a.host)
  BY MaintenancePlansAssumption DEF MaintenancePlansAssumption, Init, Action
<1>3. \A p \in DOMAIN FirstPlans : FirstPlans[p] \notin {NoPlan, Deleted}
  BY MaintenancePlansAssumption, VisibilityAssumption
     DEF MaintenancePlansAssumption, VisibilityAssumption, PlanRow, NoPlan, Deleted, None
<1>4. \A a \in actions : Stored(a.plan) /\ Reaches(o[a.plan], a.host)
  BY <1>2, <1>3 DEF Init, Stored
<1>5. Held = {} /\ \A w \in Workers : job[w].step = "idle"
  BY DEF Init, Held, HeldBy, NoJob
<1>6. OwnedBy(o)
  BY <1>4, <1>5 DEF OwnedBy, JobFits, Stored
<1>7. o \in Owners
  BY <1>1 DEF Owners
<1> QED
  BY <1>6, <1>7 DEF Owned

\* A new plan is its creator's; nothing refers to its identifier yet.
LEMMA CreateOwned ==
  ASSUME IInv, NEW o \in Owners, OwnedBy(o), NEW w \in Workers, Create(w)
  PROVE  Owned'
<1>1. PICK q \in Requests, p \in Plans, list \in Lists :
        /\ plans[p] = NoPlan /\ UNCHANGED <<db, actions, nextId>>
        /\ plans' = [plans EXCEPT ![p] = [org |-> q.org, branch |-> CHOOSE b \in q.branch : TRUE]]
        /\ Goto(w, [step |-> "add", plan |-> p, q |-> q, list |-> list, prefetched |-> FALSE, rows |-> {}, seen |-> {}])
  BY DEF Create
<1> DEFINE j == [step |-> "add", plan |-> p, q |-> q, list |-> list, prefetched |-> FALSE, rows |-> {}, seen |-> {}]
           row == [org |-> q.org, branch |-> CHOOSE b \in q.branch : TRUE]
           n == [o EXCEPT ![p] = q.org]
<1>2. j \in AddJob /\ j.step = "add"
  BY DEF AddJob
<1>3. n \in Owners /\ n[p] = q.org /\ \A x \in Plans : x # p => n[x] = o[x]
  BY VisibilityAssumption DEF VisibilityAssumption, Owners
<1>4. plans'[p] = row /\ row # NoPlan /\ row.org = q.org /\ \A x \in Plans : x # p => plans'[x] = plans[x]
  BY <1>1, VisibilityAssumption DEF VisibilityAssumption, IInv, TypeOK, NoPlan, None
<1>5. JobFits(j, n, plans')
  BY <1>3, <1>4 DEF JobFits
<1> HIDE DEF j, row, n
<1>6. /\ job'[w] = j /\ \A v \in Workers : v # w => job'[v] = job[v]
      /\ Held' \subseteq Held
  BY <1>1, <1>2, GotoKeeps DEF IInv, j
<1>7. \A x \in Plans : Stored(x)' => plans'[x].org = n[x]
  BY <1>3, <1>4 DEF OwnedBy, Stored
<1>8. \A a \in actions \cup Held : a.plan \in Plans /\ a.plan # p
  <2>1. Held \subseteq Action
    BY JobKinds DEF Held, HeldBy, IInv, PlayJob, AddJob
  <2> QED
    BY <1>1, <2>1 DEF OwnedBy, IInv, TypeOK, Action
<1>9. \A a \in actions' : Stored(a.plan)'
  BY <1>1, <1>4, <1>8 DEF OwnedBy, Stored
<1>10. \A a \in actions' \cup Held' : plans'[a.plan] # NoPlan /\ Reaches(n[a.plan], a.host)
  BY <1>1, <1>3, <1>4, <1>6, <1>8 DEF OwnedBy
<1>11. \A v \in Workers : JobFits(job'[v], n, plans')
  <2> SUFFICES ASSUME NEW v \in Workers, v # w PROVE JobFits(job[v], n, plans')
    BY <1>5, <1>6
  <2>1. job[v].step \in {"add", "insert", "save", "delete", "keep"} => job[v].plan \in Plans
    BY JobKinds DEF IInv, AddJob, EditJob
  <2>2. JobFits(job[v], o, plans)
    BY DEF OwnedBy
  <2> QED
    BY <1>1, <1>3, <1>4, <2>1, <2>2 DEF JobFits
<1>12. OwnedBy(n)'
  BY <1>7, <1>9, <1>10, <1>11 DEF OwnedBy
<1> QED
  BY <1>3, <1>12 DEF Owned

\* The organisation that updates a plan is its owner.
LEMMA StartUpdateOwned ==
  ASSUME IInv, NEW o \in Owners, OwnedBy(o), NEW w \in Workers, StartUpdate(w)
  PROVE  OwnedBy(o)'
<1>1. PICK q \in Requests : \E p \in PlansOf(q) : \E e :
        UNCHANGED <<db, planVars>> /\ Goto(w, [step |-> "save", plan |-> p, q |-> q, edit |-> e, was |-> plans[p]])
  BY DEF StartUpdate
<1>0. PICK p \in PlansOf(q) : \E e :
        UNCHANGED <<db, planVars>> /\ Goto(w, [step |-> "save", plan |-> p, q |-> q, edit |-> e, was |-> plans[p]])
  BY <1>1
<1>2. PICK e :
        UNCHANGED <<db, planVars>> /\ Goto(w, [step |-> "save", plan |-> p, q |-> q, edit |-> e, was |-> plans[p]])
  BY <1>0
<1> DEFINE j == [step |-> "save", plan |-> p, q |-> q, edit |-> e, was |-> plans[p]]
<1>3. p \in Plans /\ plans[p] \in PlanRow /\ plans[p].org = q.org
  BY VisibilityAssumption DEF VisibilityAssumption, PlansOf, IInv, TypeOK, NoPlan, Deleted, None
<1>4. Stored(p) /\ plans[p] # NoPlan
  BY <1>3, VisibilityAssumption DEF VisibilityAssumption, PlanRow, Stored, NoPlan, Deleted, None
<1>5. JobFits(j, o, plans)
  BY <1>3, <1>4 DEF JobFits, OwnedBy
<1>6. j.step = "save"
  OBVIOUS
<1> HIDE DEF j
<1>7. job'[w] = j /\ \A v \in Workers : v # w => job'[v] = job[v]
  BY <1>2 DEF Goto, IInv, TypeOK, j
<1>8. Held' \subseteq Held
  BY <1>6, <1>7 DEF Held, HeldBy
<1> QED
  BY <1>2, <1>5, <1>7, <1>8, OwnedStill DEF planVars

\* The row that SavePlan stores again is of the organisation that asks.
LEMMA UpdateOwned ==
  ASSUME IInv, NEW o \in Owners, OwnedBy(o), NEW w \in Workers, SavePlan(w) \/ DeleteActions(w) \/ KeepActions(w)
  PROVE  OwnedBy(o)'
<1>1. job[w] \in EditJob /\ JobFits(job[w], o, plans)
  BY JobKinds DEF IInv, SavePlan, DeleteActions, KeepActions, OwnedBy
<1>2. job[w].plan \in Plans /\ o[job[w].plan] = job[w].q.org /\ plans[job[w].plan] # NoPlan
  BY <1>1 DEF EditJob, JobFits
<1>3. CASE SavePlan(w)
  <2> DEFINE j == [job[w] EXCEPT !.step = "delete"]
  <2>1. j.step = "delete" /\ j.plan = job[w].plan /\ j.q = job[w].q
    BY <1>1 DEF EditJob
  <2>2. job[w].was \in PlanRow /\ job[w].was.org = job[w].q.org
    BY <1>1, <1>3 DEF JobFits, SavePlan
  <2>3. job[w].was \notin {NoPlan, Deleted}
    BY <2>2, VisibilityAssumption DEF VisibilityAssumption, PlanRow, NoPlan, Deleted, None
  <2>4. plans' \in {plans, [plans EXCEPT ![job[w].plan] = job[w].was]} /\ Goto(w, j) /\ UNCHANGED actions
    BY <1>3 DEF SavePlan
  <2> HIDE DEF j
  <2>5. job'[w] = j /\ \A v \in Workers : v # w => job'[v] = job[v]
    BY <2>4 DEF Goto, IInv, TypeOK
  <2>6. Held' \subseteq Held
    BY <2>1, <2>5 DEF Held, HeldBy
  <2>7. \A p \in Plans : \/ plans'[p] = plans[p]
                         \/ p = job[w].plan /\ plans'[p] = job[w].was
    BY <2>4 DEF IInv, TypeOK
  <2>8. \A p \in Plans : Stored(p)' => plans'[p].org = o[p]
    BY <1>2, <2>2, <2>7 DEF OwnedBy, Stored
  <2>9. \A p \in Plans : /\ plans[p] # NoPlan => plans'[p] # NoPlan
                         /\ Stored(p) => Stored(p)'
    BY <2>3, <2>7 DEF Stored
  <2>10. \A a \in actions' : Stored(a.plan)' /\ Reaches(o[a.plan], a.host)
    BY <2>4, <2>9 DEF OwnedBy, IInv, TypeOK, Action
  <2>11. JobFits(j, o, plans')
    BY <1>2, <2>1, <2>9 DEF JobFits
  <2> QED
    BY <2>5, <2>6, <2>8, <2>9, <2>10, <2>11, OwnedNext
<1>4. CASE DeleteActions(w)
  <2> DEFINE j == [job[w] EXCEPT !.step = "keep"]
  <2>1. j.step = "keep" /\ j.plan = job[w].plan /\ j.q = job[w].q
    BY <1>1 DEF EditJob
  <2>2. UNCHANGED plans /\ Goto(w, j) /\ actions' \subseteq actions
    BY <1>4 DEF DeleteActions, Without
  <2> HIDE DEF j
  <2>3. job'[w] = j /\ \A v \in Workers : v # w => job'[v] = job[v]
    BY <2>2 DEF Goto, IInv, TypeOK
  <2>4. Held' \subseteq Held
    BY <2>1, <2>3 DEF Held, HeldBy
  <2>5. JobFits(j, o, plans)
    BY <1>2, <2>1 DEF JobFits
  <2> QED
    BY <2>2, <2>3, <2>4, <2>5, OwnedStill
<1>5. CASE KeepActions(w)
  <2> DEFINE k == [step |-> "add", plan |-> job[w].plan, q |-> job[w].q,
                   list |-> CHOOSE l \in job[w].edit.add : TRUE, prefetched |-> TRUE, rows |-> {}, seen |-> {}]
  <2>1. UNCHANGED plans /\ actions' \subseteq actions /\ (Goto(w, NoJob) \/ Goto(w, k))
    BY <1>5 DEF KeepActions, Kept, Finish, Goto
  <2>2. k.step = "add" /\ k.plan = job[w].plan /\ k.q = job[w].q
    OBVIOUS
  <2>3. JobFits(k, o, plans) /\ JobFits(NoJob, o, plans) /\ NoJob.step = "idle"
    BY <1>2, <2>2 DEF JobFits, NoJob
  <2> HIDE DEF k
  <2>4. ASSUME NEW j \in {k, NoJob}, Goto(w, j) PROVE OwnedBy(o)'
    <3>1. job'[w] = j /\ \A v \in Workers : v # w => job'[v] = job[v]
      BY <2>4 DEF Goto, IInv, TypeOK
    <3>2. Held' \subseteq Held
      BY <2>2, <2>3, <3>1 DEF Held, HeldBy
    <3> QED
      BY <2>1, <2>3, <3>1, <3>2, OwnedStill
  <2> QED
    BY <2>1, <2>4
<1> QED
  BY <1>3, <1>4, <1>5

\* The hosts that are added are of the request's account.
LEMMA GatherOwned ==
  ASSUME IInv, NEW o \in Owners, OwnedBy(o), NEW w \in Workers, Gather(w)
  PROVE  OwnedBy(o)'
<1>1. job[w] \in AddJob /\ JobFits(job[w], o, plans) /\ UNCHANGED <<db, planVars>>
  BY Gathered DEF IInv, OwnedBy
<1>2. job[w].step = "add" /\ job[w].q \in Requests
  BY <1>1 DEF AddJob, Gather
<1>3. PICK j \in {NoJob} \cup AddJob :
        Goto(w, j) /\ j.step # "play" /\ HeldBy(j) \subseteq actions /\ JobFits(j, o, plans)
  <2>1. CASE Goto(w, NoJob)
    BY <2>1 DEF NoJob, HeldBy, JobFits
  <2>2. ASSUME NEW k \in AddJob, Goto(w, k), k.step = "insert", k.plan = job[w].plan, k.q = job[w].q,
               k.seen \subseteq actions, k.rows = Added(job[w], k.seen)
        PROVE  k.step # "play" /\ HeldBy(k) \subseteq actions /\ JobFits(k, o, plans)
    <3>1. \A e : \A h \in EntryHosts(job[w].q, job[w].plan, e) : HostOf[h].account = job[w].q.account
      BY DEF EntryHosts
    <3>2. \A x \in k.rows : \E e : x[2] \in EntryHosts(job[w].q, job[w].plan, e)
      BY <2>2 DEF Added
    <3>3. \A x \in k.rows : Reaches(k.q.org, x[2])
      BY <1>2, <2>2, <3>1, <3>2 DEF Reaches
    <3> QED
      BY <1>1, <1>2, <2>2, <3>3 DEF HeldBy, JobFits
  <2> QED
    BY <2>1, <2>2, Gathered DEF IInv
<1>4. /\ job'[w] = j /\ \A v \in Workers : v # w => job'[v] = job[v]
      /\ Held' \subseteq Held \cup actions
  BY <1>3, GotoKeeps DEF IInv
<1> QED
  BY <1>1, <1>3, <1>4, OwnedStill DEF planVars

\* What is inserted is for a stored plan, of the organisation whose hosts these are.
LEMMA InsertOwned ==
  ASSUME IInv, NEW o \in Owners, OwnedBy(o), NEW w \in Workers, Insert(w)
  PROVE  OwnedBy(o)'
<1>1. job[w] \in AddJob /\ JobFits(job[w], o, plans) /\ UNCHANGED plans /\ Finish(w) /\ job[w].step = "insert"
  BY JobKinds DEF IInv, Insert, OwnedBy
<1>2. /\ job[w].plan \in Plans /\ o[job[w].plan] = job[w].q.org
      /\ \A x \in job[w].rows : Reaches(job[w].q.org, x[2])
  BY <1>1 DEF AddJob, JobFits
<1>3. /\ job'[w] = NoJob /\ \A v \in Workers : v # w => job'[v] = job[v]
      /\ Held' \subseteq Held
  BY <1>1, FinishKeeps DEF IInv
<1>4. \A a \in actions' \ actions : a.plan = job[w].plan /\ <<a.rule, a.host>> \in job[w].rows
  BY Inserted
<1>5. actions' \subseteq actions \/ Stored(job[w].plan)
  BY DEF Insert
<1>6. \A a \in actions' : Stored(a.plan)' /\ Reaches(o[a.plan], a.host)
  <2> SUFFICES ASSUME NEW a \in actions' PROVE Stored(a.plan) /\ Reaches(o[a.plan], a.host)
    BY <1>1 DEF Stored
  <2>1. CASE a \in actions
    BY <2>1 DEF OwnedBy
  <2>2. CASE a \notin actions
    <3>1. Reaches(job[w].q.org, a.host)
      <4>1. <<a.rule, a.host>> \in job[w].rows
        BY <1>4, <2>2
      <4>2. Reaches(job[w].q.org, <<a.rule, a.host>>[2])
        BY <1>2, <4>1
      <4> QED
        BY <4>2
    <3> QED
      BY <1>2, <1>4, <1>5, <2>2, <3>1
  <2> QED
    BY <2>1, <2>2
<1>7. \A p \in Plans : Stored(p)' => plans'[p].org = o[p]
  BY <1>1 DEF OwnedBy, Stored
<1>8. JobFits(NoJob, o, plans')
  BY DEF JobFits, NoJob
<1> QED
  BY <1>1, <1>3, <1>6, <1>7, <1>8, OwnedNext

\* Playbooks are set for actions that the plan has, and one is stored again
\* with its plan.
LEMMA PlayOwned ==
  ASSUME IInv, NEW o \in Owners, OwnedBy(o), NEW w \in Workers, StartSetPlaybook(w) \/ SetPlaybook(w)
  PROVE  OwnedBy(o)'
<1>1. CASE StartSetPlaybook(w)
  <2>1. PICK q \in Requests : \E p \in PlansOf(q), r \in Rules : \E b \in RuleOf[r].books :
          UNCHANGED planVars /\ Goto(w, [step |-> "play", todo |-> {a \in PlanShows(q.org, p) : a.rule = r}, book |-> b])
    BY <1>1 DEF StartSetPlaybook
  <2>2. PICK p \in PlansOf(q), r \in Rules : \E b \in RuleOf[r].books :
          UNCHANGED planVars /\ Goto(w, [step |-> "play", todo |-> {a \in PlanShows(q.org, p) : a.rule = r}, book |-> b])
    BY <2>1
  <2>3. PICK b \in RuleOf[r].books :
          UNCHANGED planVars /\ Goto(w, [step |-> "play", todo |-> {a \in PlanShows(q.org, p) : a.rule = r}, book |-> b])
    BY <2>2
  <2> DEFINE j == [step |-> "play", todo |-> {a \in PlanShows(q.org, p) : a.rule = r}, book |-> b]
  <2>4. j.step = "play" /\ j.todo \subseteq actions
    BY DEF PlanShows, ActionsOf
  <2> HIDE DEF j
  <2>5. job'[w] = j /\ \A v \in Workers : v # w => job'[v] = job[v]
    BY <2>3 DEF Goto, IInv, TypeOK, j
  <2>6. Held' \subseteq Held \cup actions
    BY <2>4, <2>5 DEF Held, HeldBy
  <2>7. JobFits(j, o, plans)
    BY <2>4 DEF JobFits
  <2> QED
    BY <2>3, <2>5, <2>6, <2>7, OwnedStill DEF planVars
<1>2. CASE SetPlaybook(w)
  <2>1. job[w] \in PlayJob /\ UNCHANGED plans /\ job[w].todo \subseteq Held
    BY <1>2, JobKinds DEF IInv, SetPlaybook, Held, HeldBy
  <2>2. PICK a \in job[w].todo :
          /\ \/ Stored(a.plan) /\ actions' = {x \in actions : x.id # a.id} \cup {[a EXCEPT !.book = {job[w].book}]}
             \/ actions' = actions
          /\ Goto(w, [job[w] EXCEPT !.todo = @ \ {a}]) \/ Goto(w, NoJob)
    BY <1>2 DEF SetPlaybook, Finish, Goto
  <2> DEFINE new == [a EXCEPT !.book = {job[w].book}]
             k == [job[w] EXCEPT !.todo = @ \ {a}]
  <2>3. a \in Action /\ a \in Held /\ Reaches(o[a.plan], a.host)
    BY <2>1 DEF PlayJob, OwnedBy
  <2>4. new.plan = a.plan /\ new.host = a.host
    BY <2>3 DEF Action
  <2>5. k.step = "play" /\ k.todo \subseteq Held
    BY <2>1 DEF PlayJob
  <2>6. NoJob.step = "idle"
    BY DEF NoJob
  <2> HIDE DEF new, k
  <2>7. \A x \in actions' : Stored(x.plan)' /\ Reaches(o[x.plan], x.host)
    <3> SUFFICES ASSUME NEW x \in actions' PROVE Stored(x.plan) /\ Reaches(o[x.plan], x.host)
      BY <2>1 DEF Stored
    <3>1. x \in actions \/ (x = new /\ Stored(a.plan))
      BY <2>2 DEF new
    <3> QED
      BY <2>3, <2>4, <3>1 DEF OwnedBy
  <2>8. \A p \in Plans : Stored(p)' => plans'[p].org = o[p]
    BY <2>1 DEF OwnedBy, Stored
  <2>9. ASSUME NEW j \in {k, NoJob}, Goto(w, j) PROVE OwnedBy(o)'
    <3>1. job'[w] = j /\ \A v \in Workers : v # w => job'[v] = job[v]
      BY <2>9 DEF Goto, IInv, TypeOK
    <3>2. Held' \subseteq Held
      BY <2>5, <2>6, <3>1 DEF Held, HeldBy
    <3>3. JobFits(j, o, plans')
      BY <2>5, <2>6 DEF JobFits
    <3> QED
      BY <2>1, <2>7, <2>8, <3>1, <3>2, <3>3, OwnedNext
  <2> QED
    BY <2>2, <2>9 DEF k
<1> QED
  BY <1>1, <1>2

LEMMA QuietOwned ==
  ASSUME IInv, NEW o \in Owners, OwnedBy(o),
         (\E w \in Workers : Destroy(w) \/ Unregister(w) \/ SatAck(w)) \/ Elsewhere
  PROVE  OwnedBy(o)'
<1>1. Held' = Held /\ UNCHANGED job
  BY DEF Held, Destroy, Unregister, SatAck, Elsewhere, Upload, TimePasses, LeavesInventory, HostDeleted, RuleFlips
<1>2. CASE UNCHANGED plans /\ actions' \subseteq actions
  BY <1>1, <1>2 DEF OwnedBy, Stored
<1>3. ASSUME NEW w \in Workers, Destroy(w) PROVE OwnedBy(o)'
  <2>1. PICK p \in Plans : plans' = [plans EXCEPT ![p] = Deleted] /\ actions' = actions \ ActionsOf(p)
    BY <1>3 DEF Destroy
  <2>2. \A x \in Plans : plans'[x] = plans[x] \/ (x = p /\ plans'[x] = Deleted)
    BY <2>1 DEF IInv, TypeOK
  <2>3. Deleted # NoPlan
    BY DEF Deleted, NoPlan, None
  <2>4. \A x \in Plans : Stored(x)' => plans'[x].org = o[x]
    BY <2>2 DEF OwnedBy, Stored
  <2>5. \A x \in Plans : plans[x] # NoPlan => plans'[x] # NoPlan
    BY <2>2, <2>3
  <2>6. \A a \in actions' : Stored(a.plan)'
    BY <2>1, <2>2 DEF OwnedBy, Stored, ActionsOf, IInv, TypeOK, Action
  <2>7. \A v \in Workers : JobFits(job[v], o, plans')
    <3> SUFFICES ASSUME NEW v \in Workers PROVE JobFits(job[v], o, plans')
      OBVIOUS
    <3>1. job[v].step \in {"add", "insert", "save", "delete", "keep"} => job[v].plan \in Plans
      BY JobKinds DEF IInv, AddJob, EditJob
    <3>2. JobFits(job[v], o, plans)
      BY DEF OwnedBy
    <3> QED
      BY <2>5, <3>1, <3>2 DEF JobFits
  <2>8. \A a \in actions \cup Held : a.plan \in Plans
    BY JobKinds DEF Held, HeldBy, IInv, TypeOK, PlayJob, AddJob, Action
  <2>9. \A a \in actions' \cup Held' : plans'[a.plan] # NoPlan /\ Reaches(o[a.plan], a.host)
    BY <1>1, <2>1, <2>5, <2>8 DEF OwnedBy
  <2> QED
    BY <1>1, <2>4, <2>6, <2>7, <2>9 DEF OwnedBy
<1> QED
  BY <1>2, <1>3 DEF Unregister, SatAck, Elsewhere, Upload, TimePasses, LeavesInventory, HostDeleted, RuleFlips, planVars

LEMMA OwnedKept == IInv /\ Owned /\ [Next]_vars => Owned'
<1> SUFFICES ASSUME IInv, NEW o \in Owners, OwnedBy(o), [Next]_vars PROVE Owned'
  BY DEF Owned
<1>1. CASE UNCHANGED vars
  BY <1>1 DEF vars, planVars, Owned, OwnedBy, Held, Stored
<1>2. ASSUME NEW w \in Workers, Create(w) PROVE Owned'
  BY <1>2, CreateOwned
<1>3. ASSUME NEW w \in Workers, Request(w), ~ Create(w) PROVE OwnedBy(o)'
  BY <1>3, StartUpdateOwned, PlayOwned, QuietOwned DEF Request
<1>4. ASSUME NEW w \in Workers, Step(w) PROVE OwnedBy(o)'
  BY <1>4, GatherOwned, InsertOwned, UpdateOwned, PlayOwned DEF Step
<1>5. CASE Elsewhere
  BY <1>5, QuietOwned DEF Owned
<1> QED
  BY <1>1, <1>2, <1>3, <1>4, <1>5 DEF Next, Owned

\* A plan's actions go with the plan or their host, or by a request that
\* updates this plan, and only if its organisation is shown them then
\* (MaintenanceViewSet.get_queryset): no request about another plan, and none
\* that sets playbooks, takes an action away or moves it, and what is hidden
\* stays, whichever requests and changes interleave.
THEOREM PlansKeep == Spec => PlansKeepTheirActions
<1> DEFINE Kept1(a) ==
       \/ \E b \in actions' : b.id = a.id /\ b.plan = a.plan /\ b.rule = a.rule /\ b.host = a.host
       \/ plans'[a.plan] = Deleted \/ a.host \notin known'
       \/ /\ Shown(plans[a.plan].org, a)
          /\ \E w \in Workers : /\ job[w].step \in {"delete", "keep"} /\ job[w].plan = a.plan /\ job'[w] # job[w]
                               /\ \/ job[w].step = "delete" /\ a.id \in job[w].edit.delete
                                  \/ job[w].step = "keep" /\ \E ids \in job[w].edit.keep : a.id \notin ids
<1>1. IInv /\ Owned /\ [Next]_vars => [\A a \in actions : Kept1(a)]_vars
  <2> SUFFICES ASSUME IInv, NEW o \in Owners, OwnedBy(o), Next, NEW a \in actions PROVE Kept1(a)
    BY DEF Owned
  <2>1. CASE a \in actions'
    BY <2>1
  <2>2. CASE Elsewhere
    BY <2>2 DEF Elsewhere, Upload, TimePasses, LeavesInventory, HostDeleted, RuleFlips, planVars
  <2>3. ASSUME NEW w \in Workers, Request(w) PROVE Kept1(a)
    <3>1. CASE Destroy(w)
      BY <3>1 DEF Destroy, ActionsOf, IInv, TypeOK
    <3>2. CASE ~ Destroy(w)
      BY <2>1, <2>3, <3>2 DEF Request, Create, StartUpdate, StartSetPlaybook, Unregister, SatAck, planVars
    <3> QED
      BY <3>1, <3>2
  <2>4. ASSUME NEW w \in Workers, Step(w) PROVE Kept1(a)
    <3>1. CASE SetPlaybook(w)
      BY <3>1, SetPlaybookStores DEF Same
    <3>2. CASE (DeleteActions(w) \/ KeepActions(w)) /\ a \notin actions'
      <4>1. job[w] \in EditJob /\ job[w].step \in {"delete", "keep"} /\ JobFits(job[w], o, plans)
        BY <3>2, JobKinds DEF IInv, DeleteActions, KeepActions, OwnedBy
      <4>2. /\ a \in PlanShows(job[w].q.org, job[w].plan)
            /\ \/ job[w].step = "delete" /\ a.id \in job[w].edit.delete
               \/ job[w].step = "keep" /\ \E ids \in job[w].edit.keep : a.id \notin ids
        BY <3>2 DEF DeleteActions, KeepActions, Without, Kept
      <4>3. a.plan = job[w].plan /\ Shown(job[w].q.org, a)
        BY <4>2 DEF PlanShows, ActionsOf
      <4>4. plans[a.plan].org = job[w].q.org
        BY <4>1, <4>3 DEF OwnedBy, JobFits, IInv, TypeOK, Action
      <4>5. job'[w] # job[w]
        <5>1. CASE DeleteActions(w)
          <6>1. job'[w] = [job[w] EXCEPT !.step = "keep"]
            BY <5>1 DEF DeleteActions, Goto, IInv, TypeOK
          <6> QED
            BY <4>1, <5>1, <6>1 DEF DeleteActions, EditJob
        <5>2. CASE KeepActions(w)
          <6>1. job'[w].step \in {"idle", "add"}
            BY <5>2 DEF KeepActions, Goto, Finish, IInv, TypeOK, NoJob
          <6> QED
            BY <4>1, <6>1
        <5> QED
          BY <3>2, <5>1, <5>2
      <4> QED
        BY <4>1, <4>2, <4>3, <4>4, <4>5
    <3>3. CASE Insert(w)
      BY <2>1, <3>3, Inserted
    <3>4. CASE Gather(w) \/ SavePlan(w)
      BY <2>1, <3>4 DEF Gather, SavePlan, planVars
    <3> QED
      BY <2>1, <2>4, <3>1, <3>2, <3>3, <3>4 DEF Step
  <2> QED
    BY <2>2, <2>3, <2>4 DEF Next
<1>2. [][\A a \in actions : Kept1(a)]_vars => PlansKeepTheirActions
  BY PTL DEF PlansKeepTheirActions
<1> QED
  BY <1>1, <1>2, PlansInit, PlansKept, OwnedInit, OwnedKept, PTL DEF Spec

\* The actions that the export counts for a system are those that the plans of
\* its organisation show for it (SystemsViewSet of the exports,
\* MaintenanceViewSet), for every host whose account no requests of another
\* organisation have: no request, however it interleaves with the deletion of a
\* plan, leaves an action in no plan, or in one of an organisation that does
\* not reach the host.
THEOREM ExportCounts == Spec => []ActionsCounted
<1>1. IInv /\ Owned => ActionsCounted
  <2> SUFFICES ASSUME IInv, NEW o \in Owners, OwnedBy(o), NEW q \in Requests,
                      NEW h \in HostsForAccount(q, FALSE, TRUE), \A x \in Orgs \ {q.org} : ~ Reaches(x, h)
               PROVE  {a \in actions : a.host = h /\ a.rule \in active \ AckedBy(q.org)}
                        = {a \in UNION {PlanShows(q.org, p) : p \in {p \in Plans : plans[p].org = q.org}} : a.host = h}
    BY DEF Owned, ActionsCounted, ExportedActions
  <2>1. HostOf[h].org = q.org /\ fresh[h] # "absent"
    BY DEF HostsForAccount
  <2>2. ASSUME NEW a \in actions, a.host = h PROVE a.plan \in Plans /\ plans[a.plan].org = q.org
    <3>1. a.plan \in Plans /\ Reaches(o[a.plan], h) /\ plans[a.plan].org = o[a.plan]
      BY <2>2 DEF OwnedBy, IInv, TypeOK, Action
    <3>2. o[a.plan] \in Orgs
      BY <3>1, VisibilityAssumption DEF VisibilityAssumption, Reaches
    <3> QED
      BY <3>1, <3>2
  <2>3. \A a \in actions : a.host = h => (Shown(q.org, a) <=> a.rule \in active \ AckedBy(q.org))
    BY <2>1 DEF Shown, InInventory
  <2> QED
    BY <2>2, <2>3 DEF PlanShows, ActionsOf
<1> QED
  BY <1>1, PlansInit, PlansKept, OwnedInit, OwnedKept, PTL DEF Spec
-----------------------------------------------------------------------------
(* What Satellite is told of systems, rules and topics. *)

\* A host with reports has an upload, and the tables refer to known hosts.
Backed ==
  /\ VisibilityTypeOK
  /\ \A x \in reports : \E u \in uploads : u[1] = x[1]

LEMMA BackedInit == Init => Backed
<1> SUFFICES ASSUME Init PROVE Backed
  OBVIOUS
<1>1. RuleTable /\ InventoryTable /\ HostTable /\ AckTable /\ ReportTable /\ HostackTable
  BY DEF Init, RuleTable, InventoryTable, HostTable, AckTable, Staleness, Ackers, ReportTable, HostackTable
<1>2. UploadTable
  BY VisibilityAssumption DEF VisibilityAssumption, Init, UploadTable
<1>3. ASSUME NEW x \in reports PROVE \E u \in uploads : u[1] = x[1]
  <2>1. x[1] \in Hosts /\ uploads = Hosts \X {Puptoo}
    BY DEF Init
  <2>2. <<x[1], Puptoo>> \in uploads /\ <<x[1], Puptoo>>[1] = x[1]
    BY <2>1
  <2> QED
    BY <2>2
<1> QED
  BY <1>1, <1>2, <1>3 DEF Backed, VisibilityTypeOK

LEMMA BackedKept == Backed /\ [Next]_vars => Backed'
<1> SUFFICES ASSUME Backed, [Next]_vars PROVE Backed'
  OBVIOUS
<1> DEFINE Tables == RuleTable /\ InventoryTable /\ HostTable /\ AckTable /\ UploadTable /\ ReportTable /\ HostackTable
<1> USE DEF Backed, VisibilityTypeOK
<1>1. CASE UNCHANGED db
  BY <1>1 DEF db, RuleTable, InventoryTable, HostTable, AckTable, UploadTable, ReportTable, HostackTable
<1>2. ASSUME NEW w \in Workers, Request(w) \/ Step(w) PROVE Backed'
  <2>1. CASE Unregister(w)
    <3>1. PICK h : /\ reports' = {x \in reports : x[1] # h} /\ uploads' = UploadsWithout(h)
                   /\ UNCHANGED <<active, fresh, known, acks, hostacks>>
      BY <2>1 DEF Unregister
    <3>2. Tables'
      BY <3>1 DEF UploadsWithout, RuleTable, InventoryTable, HostTable, AckTable, UploadTable, ReportTable, HostackTable
    <3>3. (\A x \in reports : \E u \in uploads : u[1] = x[1])'
      BY <3>1 DEF UploadsWithout
    <3> QED
      BY <3>2, <3>3
  <2>2. CASE SatAck(w)
    <3>1. /\ UNCHANGED <<active, fresh, known, uploads, reports, hostacks>>
          /\ \E q \in Requests, r \in Rules, by \in {"user", None} : acks' = [acks EXCEPT ![<<q.org, r>>] = by]
      BY <2>2 DEF SatAck
    <3>2. Tables'
      BY <3>1, VisibilityAssumption
         DEF VisibilityAssumption, Ackers, RuleTable, InventoryTable, HostTable, AckTable, UploadTable, ReportTable,
             HostackTable
    <3> QED
      BY <3>1, <3>2
  <2>3. CASE ~ Unregister(w) /\ ~ SatAck(w)
    <3>1. Request(w) => UNCHANGED db
      BY <2>3 DEF Request, Create, StartUpdate, Destroy, StartSetPlaybook
    <3>2. Step(w) => UNCHANGED db
      BY DEF Step, Gather, Insert, SavePlan, DeleteActions, KeepActions, SetPlaybook
    <3> QED
      BY <1>1, <1>2, <3>1, <3>2
  <2> QED
    BY <2>1, <2>2, <2>3
<1>3. CASE Upload
  <2>1. PICK h \in Hosts, s \in Sources, rs \in {{}, Rules} :
          /\ known' = known \cup {h} /\ uploads' = uploads \cup {<<h, s>>}
          /\ fresh' = [fresh EXCEPT ![h] = "fresh"]
          /\ reports' = {x \in reports : x[1] # h} \cup ({h} \X rs)
          /\ UNCHANGED <<active, acks, hostacks>>
    BY <1>3 DEF Upload
  <2>2. Tables'
    BY <2>1 DEF RuleTable, InventoryTable, HostTable, AckTable, UploadTable, ReportTable, HostackTable, Staleness
  <2>3. <<h, s>> \in uploads' /\ <<h, s>>[1] = h
    BY <2>1
  <2>4. \A x \in reports' : x \in reports \/ x[1] = h
    BY <2>1
  <2>5. uploads \subseteq uploads'
    BY <2>1
  <2>6. (\A x \in reports : \E u \in uploads : u[1] = x[1])'
    BY <2>3, <2>4, <2>5
  <2> QED
    BY <2>2, <2>6
<1>4. CASE TimePasses \/ LeavesInventory
  BY <1>4 DEF TimePasses, LeavesInventory, RuleTable, InventoryTable, HostTable, AckTable, UploadTable,
              ReportTable, HostackTable, Staleness
<1>5. CASE HostDeleted
  BY <1>5 DEF HostDeleted, UploadsWithout, RuleTable, InventoryTable, HostTable, AckTable, UploadTable,
              ReportTable, HostackTable
<1>6. CASE RuleFlips
  BY <1>6 DEF RuleFlips, RuleTable, InventoryTable, HostTable, AckTable, UploadTable, ReportTable, HostackTable
<1> QED
  BY <1>1, <1>2, <1>3, <1>4, <1>5, <1>6 DEF Next, Elsewhere, vars

LEMMA TablesFinite ==
  ASSUME VisibilityTypeOK
  PROVE  IsFiniteSet(reports) /\ IsFiniteSet(uploads) /\ IsFiniteSet(active)
<1>1. IsFiniteSet(known) /\ IsFiniteSet(active)
  BY VisibilityAssumption, FS_Subset DEF VisibilityAssumption, VisibilityTypeOK, HostTable, RuleTable
<1>2. IsFiniteSet(known \X Rules) /\ IsFiniteSet(known \X Sources)
  BY <1>1, VisibilityAssumption, FS_Product DEF VisibilityAssumption
<1> QED
  BY <1>1, <1>2, FS_Subset DEF VisibilityTypeOK, ReportTable, UploadTable

\* A set counts more than none when it has a member.
LEMMA Counted ==
  ASSUME NEW S, IsFiniteSet(S)
  PROVE  Cardinality(S) \in Nat /\ (Cardinality(S) > 0 <=> S # {})
BY FS_EmptySet, FS_CardinalityType

\* What a report that the request sees says of its host and its rule.
LEMMA Seen ==
  ASSUME VisibilityTypeOK, NEW q \in Requests, NEW x \in Reports(q)
  PROVE  /\ x = <<x[1], x[2]>> /\ x[1] \in Hosts /\ x[2] \in active \cap Rules
         /\ x[1] \in HostsForAccount(q, TRUE, TRUE)
<1>1. x = <<x[1], x[2]>> /\ x[1] \in known /\ x[1] \in Hosts /\ x[2] \in Rules
  BY DEF VisibilityTypeOK, ReportTable, HostTable, Reports
<1>2. x[2] \in active
  BY <1>1 DEF Reports, HiddenRules
<1>3. HostOf[x[1]].org = q.org /\ HostMatches(q, x[1]) /\ BranchOk(q, x[1]) /\ NotStale(x[1])
  BY DEF Reports, Own, HostEligible
<1>4. fresh[x[1]] # "absent"
  BY <1>3 DEF NotStale
<1> QED
  BY <1>1, <1>2, <1>3, <1>4 DEF HostsForAccount

LEMMA SubsetsWellFounded ==
  ASSUME NEW S, IsFiniteSet(S)
  PROVE  IsWellFoundedOn(StrictSubsetOrdering(S), SUBSET S)
BY FS_StrictSubsetOrderingWellFounded, FS_FiniteSubsetsOfFinite, Zenon

\* Induction over the subsets of a finite set.
LEMMA SubsetInduction ==
  ASSUME NEW S, IsFiniteSet(S), NEW T, {} \in T,
         \A s \in SUBSET S : s # {} => \E x \in s : s \ {x} \in T => s \in T
  PROVE  SUBSET S \subseteq T
<1> SUFFICES ASSUME (SUBSET S) \ T # {} PROVE FALSE
  OBVIOUS
<1> DEFINE R == StrictSubsetOrdering(S)
<1>1. IsWellFoundedOn(R, SUBSET S)
  BY SubsetsWellFounded
<1>2. \A s \in SUBSET S : \A x \in s : <<s \ {x}, s>> \in R
  BY DEF StrictSubsetOrdering
<1> HIDE DEF R
<1> DEFINE M == (SUBSET S) \ T
<1>3. M \subseteq SUBSET S /\ M # {}
  OBVIOUS
<1> HIDE DEF M
<1>4. PICK s \in M : \A t \in M : ~ (<<t, s>> \in R)
  BY <1>1, <1>3, WFMin
<1>5. s \in SUBSET S /\ s \notin T /\ s # {}
  BY DEF M
<1>6. PICK x \in s : s \ {x} \in T => s \in T
  BY <1>5
<1>7. s \ {x} \in M
  BY <1>5, <1>6 DEF M
<1> QED
  BY <1>2, <1>4, <1>5, <1>7
\* The hits of a topic are the sum of what its rules count.
LEMMA TopicSum ==
  ASSUME VisibilityTypeOK, NEW q \in Requests, NEW rs \in SUBSET Rules,
         NEW topic, topic = SatTopic(q, rs)
  PROVE  topic.hits = MapThenSumSet(LAMBDA r : topic.rules[r], DOMAIN topic.rules)
<1> DEFINE S == DOMAIN topic.rules
           R == TopicHits(q, rs)
           Part(s) == {x \in R : x[2] \in s}
           A(r) == topic.rules[r]
           Summed(g) == [s \in SUBSET S |-> IF s = {} THEN 0
                                            ELSE LET x == CHOOSE x \in s : TRUE IN A(x) + g[s \ {x}]]
           Sum == CHOOSE g : g = Summed(g)
<1>1. MapThenSumSet(LAMBDA r : topic.rules[r], DOMAIN topic.rules) = Sum[S]
  BY DEF MapThenSumSet, MapThenFoldSet
<1>2. /\ topic.hits = Cardinality(R)
      /\ S = {r \in rs \cap active : ReportsOfRule(q, r) # {}}
      /\ \A r \in S : A(r) = Cardinality(HostsIn(ReportsOfRule(q, r)))
  BY DEF SatTopic, TopicRulesHit
<1>3. \A s : IsFiniteSet(Part(s)) /\ Cardinality(Part(s)) \in Nat
  <2>1. \A s : Part(s) \subseteq reports
    BY DEF TopicHits, Reports
  <2> QED
    BY <2>1, TablesFinite, FS_Subset, FS_CardinalityType
<1>4. \A x \in Reports(q) : x = <<x[1], x[2]>> /\ x[2] \in active
  BY Seen
<1>5. ASSUME NEW r \in S PROVE A(r) = Cardinality(Part({r}))
  <2> DEFINE H == HostsIn(ReportsOfRule(q, r))
             P == Part({r})
             f == [x \in P |-> x[1]]
  <2>1. A(r) = Cardinality(H)
    BY <1>2
  <2>2. P = ReportsOfRule(q, r)
    BY <1>2 DEF ReportsOfRule, TopicHits
  <2>3. \A x \in P : x = <<x[1], r>>
    BY <1>4, <2>2 DEF ReportsOfRule
  <2>4. H = {x[1] : x \in P}
    BY <2>2 DEF HostsIn
  <2>5. IsFiniteSet(P)
    BY <1>3
  <2> HIDE DEF H, P
  <2>6. f \in [P -> H] /\ \A h \in H : \E x \in P : f[x] = h
    BY <2>4
  <2>7. \A x, y \in P : f[x] = f[y] => x = y
    BY <2>3
  <2> HIDE DEF f
  <2>8. f \in Bijection(P, H)
    BY <2>6, <2>7 DEF Bijection, Injection, Surjection, IsInjective
  <2>9. Cardinality(P) = Cardinality(H)
    BY <2>5, <2>8, FS_Bijection DEF ExistsBijection
  <2> QED
    BY <2>1, <2>9 DEF P
<1>6. ASSUME NEW s \in SUBSET S, NEW x \in s
      PROVE  Cardinality(Part(s)) = A(x) + Cardinality(Part(s \ {x}))
  <2> DEFINE one == Part({x})
             others == Part(s \ {x})
             both == one \cup others
             none == one \cap others
  <2>1. Part(s) = both /\ none = {}
    OBVIOUS
  <2>2. Cardinality(both) = Cardinality(one) + Cardinality(others) - Cardinality(none)
    <3>1. IsFiniteSet(one) /\ IsFiniteSet(others)
      BY <1>3
    <3> HIDE DEF one, others
    <3> QED
      BY <3>1, FS_Union
  <2>3. A(x) = Cardinality(one) /\ Cardinality(one) \in Nat /\ Cardinality(others) \in Nat
    BY <1>3, <1>5, <1>6
  <2>4. Cardinality(none) = 0
    BY <2>1, FS_EmptySet
  <2>5. Cardinality(Part(s)) = Cardinality(both)
    BY <2>1
  <2> HIDE DEF A, Part, one, others, both, none
  <2>6. Cardinality(Part(s)) = A(x) + Cardinality(others)
    BY <2>2, <2>3, <2>4, <2>5
  <2> QED
    BY <2>6 DEF others
<1>7. Part({}) = {} /\ Part(S) = R
  <2>1. \A x \in R : x[2] \in S
    BY <1>2, <1>4 DEF TopicHits, ReportsOfRule
  <2> QED
    BY <2>1
<1> DEFINE G == [s \in SUBSET S |-> Cardinality(Part(s))]
<1>8. G = Summed(G)
  <2>1. ASSUME NEW s \in SUBSET S PROVE G[s] = Summed(G)[s]
    <3>1. CASE s = {}
      BY <1>7, <3>1, FS_EmptySet
    <3>2. CASE s # {}
      <4> DEFINE x == CHOOSE x \in s : TRUE
      <4>1. x \in s
        BY <3>2
      <4>2. s \ {x} \in SUBSET S
        OBVIOUS
      <4> HIDE DEF A, Part, S
      <4>3. G[s] = A(x) + G[s \ {x}]
        BY <1>6, <4>1, <4>2
      <4> QED
        BY <3>2, <4>3
    <3> QED
      BY <3>1, <3>2
  <2> HIDE DEF S, Part, A
  <2> QED
    BY <2>1
<1>9. Sum = Summed(Sum)
  <2> HIDE DEF Summed, G
  <2> QED
    BY <1>8
<1>10. SUBSET S \subseteq {s \in SUBSET S : Sum[s] = Cardinality(Part(s))}
  <2> DEFINE T == {s \in SUBSET S : Sum[s] = Cardinality(Part(s))}
  <2>1. IsFiniteSet(S)
    BY <1>2, TablesFinite, FS_Subset
  <2> HIDE DEF Sum, A, Part, S
  <2>2. {} \in T
    BY <1>7, <1>9, FS_EmptySet
  <2>3. ASSUME NEW s \in SUBSET S, s # {} PROVE \E x \in s : s \ {x} \in T => s \in T
    <3> DEFINE x == CHOOSE x \in s : TRUE
    <3>1. x \in s
      BY <2>3
    <3>2. Sum[s] = A(x) + Sum[s \ {x}]
      BY <1>9, <2>3
    <3> HIDE DEF x
    <3>3. s \ {x} \in T => s \in T
      BY <1>6, <3>1, <3>2
    <3> QED
      BY <3>1, <3>3
  <2> HIDE DEF T
  <2>4. SUBSET S \subseteq T
    BY <2>1, <2>2, <2>3, SubsetInduction
  <2> QED
    BY <2>4 DEF T
<1> QED
  BY <1>1, <1>2, <1>7, <1>10

\* No more hosts are affected than upload: each has an upload of its own.
LEMMA AffectedUpload ==
  ASSUME Backed, NEW q \in Requests
  PROVE  SatStats(q).affected <= SatTotal(q)
<1> DEFINE U == {u \in uploads : HostOf[u[1]].org = q.org /\ BranchOk(q, u[1]) /\ NotStale(u[1])}
           H == HostsIn(StatsReports(q))
           T == {u[1] : u \in U}
           f == [u \in U |-> u[1]]
<1>1. SatStats(q).affected = Cardinality(H) /\ SatTotal(q) = Cardinality(U)
  BY DEF SatStats, SatTotal
<1>2. IsFiniteSet(U)
  BY TablesFinite, FS_Subset DEF Backed
<1>3. H \subseteq T
  <2> SUFFICES ASSUME NEW x \in Reports(q) PROVE x[1] \in T
    BY DEF HostsIn, StatsReports
  <2>1. HostOf[x[1]].org = q.org /\ BranchOk(q, x[1]) /\ NotStale(x[1]) /\ x \in reports
    BY DEF Reports, Own, HostEligible
  <2>2. PICK u \in uploads : u[1] = x[1]
    BY <2>1 DEF Backed
  <2> QED
    BY <2>1, <2>2
<1> HIDE DEF U, H
<1>4. f \in Surjection(U, T)
  BY DEF Surjection
<1> HIDE DEF T, f
<1>5. IsFiniteSet(T) /\ Cardinality(T) <= Cardinality(U)
  BY <1>2, <1>4, FS_Surjection
<1>6. Cardinality(H) <= Cardinality(T) /\ Cardinality(H) \in Nat
  BY <1>3, <1>5, FS_Subset, FS_CardinalityType
<1>7. Cardinality(T) \in Nat /\ Cardinality(U) \in Nat
  BY <1>2, <1>5, FS_CardinalityType
<1> QED
  BY <1>1, <1>5, <1>6, <1>7

\* The views for Satellite are of one mind: the list of systems with reports
\* is that of the reports' hosts, the rules with a count are those of the
\* reports, and the hits of a topic and the statistics add up, whatever is
\* uploaded, unregistered, acknowledged or planned between two requests
\* (SystemViewSet, RuleViewSet, ReportsViewSet, TopicsViewSet, StatsViewSet).
THEOREM SatelliteAgrees == Spec => []SatAgree
<1>1. Backed => SatAgree
  <2> SUFFICES ASSUME Backed, NEW q \in Requests
               PROVE  /\ {h \in SatSystemSet(q) : ReportCount(q, h) > 0} = {h \in HostsIn(Reports(q)) : Uploading(h)}
                      /\ RulesIn(Reports(q)) = {r \in active : CountOk([q EXCEPT !.reportCount = {"gt0"}], Cardinality(ReportsOfRule(q, r)))}
                      /\ q.rule = {} => SatReports(q) = {x \in Hosts \X Rules : x[2] \in SatSystemReports(q, x[1])}
                      /\ \A s \in {s \in Slugs : RulesOfSlug(s) # {}} :
                        LET topic == SatTopic(q, RulesOfSlug(s))
                        IN  topic.hits = MapThenSumSet(LAMBDA r : topic.rules[r], DOMAIN topic.rules)
                      /\ SatStats(q).affected <= SatTotal(q)
    BY DEF SatAgree
  <2>1. VisibilityTypeOK /\ Reports(q) \subseteq reports /\ IsFiniteSet(reports)
    BY TablesFinite DEF Backed, Reports
  <2>2. \A x \in Reports(q) : /\ x = <<x[1], x[2]>> /\ x[1] \in Hosts /\ x[2] \in active \cap Rules
                              /\ x[1] \in HostsForAccount(q, TRUE, TRUE)
    BY <2>1, Seen
  <2>3. {h \in SatSystemSet(q) : ReportCount(q, h) > 0} = {h \in HostsIn(Reports(q)) : Uploading(h)}
    <3>1. \A h : ReportCount(q, h) > 0 <=> {x \in Reports(q) : x[1] = h} # {}
      <4>1. \A h : IsFiniteSet({x \in Reports(q) : x[1] = h})
        BY <2>1, FS_Subset
      <4> QED
        BY <4>1, Counted DEF ReportCount
    <3> QED
      BY <2>2, <3>1 DEF SatSystemSet, HostsIn
  <2>4. RulesIn(Reports(q)) = {r \in active : CountOk([q EXCEPT !.reportCount = {"gt0"}], Cardinality(ReportsOfRule(q, r)))}
    <3> DEFINE Q == [q EXCEPT !.reportCount = {"gt0"}]
    <3>1. Q.reportCount = {"gt0"}
      BY MaintenancePlansAssumption DEF MaintenancePlansAssumption
    <3> HIDE DEF Q
    <3>2. \A r : CountOk(Q, Cardinality(ReportsOfRule(q, r))) <=> ReportsOfRule(q, r) # {}
      <4>1. \A r : IsFiniteSet(ReportsOfRule(q, r))
        BY <2>1, FS_Subset DEF ReportsOfRule
      <4>2. \A r : Cardinality(ReportsOfRule(q, r)) > 0 <=> ReportsOfRule(q, r) # {}
        BY <4>1, Counted
      <4> QED
        BY <3>1, <4>2 DEF CountOk
    <3>3. RulesIn(Reports(q)) = {r \in active : ReportsOfRule(q, r) # {}}
      BY <2>2 DEF RulesIn, ReportsOfRule
    <3> QED
      BY <3>2, <3>3 DEF Q
  <2>5. q.rule = {} => SatReports(q) = {x \in Hosts \X Rules : x[2] \in SatSystemReports(q, x[1])}
    <3> SUFFICES ASSUME q.rule = {} PROVE SatReports(q) = {x \in Hosts \X Rules : x[2] \in SatSystemReports(q, x[1])}
      OBVIOUS
    <3>1. SatReports(q) = Reports(q)
      BY <2>2 DEF SatReports, Selects
    <3>2. \A x \in Hosts \X Rules : x[2] \in SatSystemReports(q, x[1]) <=> x \in Reports(q)
      <4> SUFFICES ASSUME NEW x \in Hosts \X Rules
                   PROVE  x[2] \in SatSystemReports(q, x[1]) <=> x \in Reports(q)
        OBVIOUS
      <4>1. x = <<x[1], x[2]>> /\ x[2] \in Rules
        OBVIOUS
      <4>2. x[2] \in SatSystemReports(q, x[1]) <=> <<x[1], x[2]>> \in Reports(q)
        BY <4>1 DEF SatSystemReports
      <4> QED
        BY <4>1, <4>2, Zenon
    <3>3. Reports(q) \subseteq Hosts \X Rules
      BY <2>1 DEF VisibilityTypeOK, ReportTable, HostTable
    <3> QED
      BY <3>1, <3>2, <3>3
  <2>6. ASSUME NEW s \in Slugs
        PROVE  LET topic == SatTopic(q, RulesOfSlug(s))
               IN  topic.hits = MapThenSumSet(LAMBDA r : topic.rules[r], DOMAIN topic.rules)
    <3>1. RulesOfSlug(s) \in SUBSET Rules
      BY DEF RulesOfSlug
    <3> QED
      BY <2>1, <3>1, TopicSum
  <2>7. SatStats(q).affected <= SatTotal(q)
    BY AffectedUpload
  <2> QED
    BY <2>3, <2>4, <2>5, <2>6, <2>7
<1> QED
  BY <1>1, BackedInit, BackedKept, PTL DEF Spec
=============================================================================
