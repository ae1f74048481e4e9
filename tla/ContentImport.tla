--------------------------- MODULE ContentImport ---------------------------
(***************************************************************************)
(* The import_content command: rule content is brought into the database   *)
(* table by table.  Each table is read, compared with the content in       *)
(* memory, and changed by one bulk insert, one bulk update and one delete, *)
(* every statement in a transaction of its own.  The command runs in the   *)
(* init container of every pod, so several imports, of the same or of      *)
(* different versions of the content, run at once; a container whose       *)
(* import raises, or that is killed, starts over.                          *)
(*                                                                         *)
(* Around it: users acknowledge rules over the ack views (views/acks.py    *)
(* and the Satellite variant), and the Advisor Service acknowledges        *)
(* 'autoack' rules for a new organisation.                                 *)
(***************************************************************************)
EXTENDS Integers, Sequences, FiniteSets, Functions

CONSTANTS
  Importers,     \* the init containers
  Contents,      \* the versions of the content they are built with
  Pathways,      \* fixture: the pathway of a resolution risk, by its name
  FirstOrgs,     \* organisations that have hosts at the start
  Orgs,          \* all organisations
  Loads          \* the content each container is built with, and bounds:
                 \* imports it begins, containers killed, requests on the
                 \* ack views, organisations that come

\* The order in which the command visits its tables, and those from which
\* it deletes what the content does not have.
Order == <<"impact", "risk", "tag", "rule", "ruleTag", "ack", "resolution", "playbook">>
Tables == Range(Order)
\* Variants: tags, or acks, are only added and updated.
DeleteMissingNoTags == {"ack", "resolution"}
DeleteMissingNoAcks == {"ruleTag", "resolution"}
DeleteMissing == {"ruleTag", "ack", "resolution"}

\* A row of the content is a rule with its resolution for one system type.
RowsOf(c)    == Range(c.rows)
RulesOf(c)   == {row.rule : row \in RowsOf(c)}
TagsOf(c, r) == UNION {row.tags : row \in {x \in RowsOf(c) : x.rule = r}}

\* What rules, tags and playbooks are stored by in a table: their own key,
\* but for playbooks, of which there may be several rows for one rule and type.
KeyOf(t, pk) == IF t = "playbook" THEN <<pk[1], pk[2]>> ELSE pk

ASSUME ImportAssumption ==
  /\ FirstOrgs \subseteq Orgs
  /\ Loads \subseteq [content : [Importers -> Contents], imports : [Importers -> Nat],
                      crashes : Nat, requests : Nat, orgs : Nat]

\* The configuration maps the names of the resolution risks to values.
ASSUME ContentAssumption ==
  \A c \in Contents : c.risks = [n \in DOMAIN c.risks |-> c.risks[n]]

VARIABLES
  db,        \* the tables: each a function from primary keys to rows
  orgs,      \* the organisations that have hosts
  \* the importers: table (0: idle), step, content, rows read from the
  \* table, rows wanted, and lookups loaded from the database
  at, step, content, snap, want, maps,
  edit,      \* a request on an ack view that has read the ack it will write
  newOrg,    \* the Advisor Service storing the first host of an organisation
  budget,    \* what is left of the bounds
  disturbed  \* history: what ran beside the present import of an importer

importerVars == <<at, step, content, snap, want, maps>>
vars == <<db, orgs, importerVars, edit, newOrg, budget, disturbed>>

Empty  == [k \in {} |-> {}]
NoEdit == [op |-> "none"]
NoOrg  == [org |-> "none"]
NoMaps == [risks |-> Empty, impacts |-> {}, tags |-> {}, rules |-> {}]

Idle == 0
Done == Len(Order) + 1
Running(i) == at[i] \in 1..Len(Order)
Table(i)   == Order[at[i]]

-----------------------------------------------------------------------------
(* The rows that the content asks for. *)

LastOf(c, ns)  == c.rows[CHOOSE n \in ns : \A m \in ns : m <= n]
LastRow(c, r)   == LastOf(c, {n \in DOMAIN c.rows : c.rows[n].rule = r})
LastPair(c, k)  == LastOf(c, {n \in DOMAIN c.rows : <<c.rows[n].rule, c.rows[n].sys>> = k})

\* rule_content_to_model_fields: the last row of a rule describes it.
RuleRow(c, risks, row) ==
  [ active  |-> row.active,
    total   |-> (row.likelihood + risks[row.risk]) \div 2,
    pathway |-> IF row.risk \in DOMAIN Pathways THEN Pathways[row.risk] ELSE "null" ]

\* A rule has one playbook of a type; it hangs on the last of the rule's
\* resolutions, and without a resolution it is thrown away.
SystemOf(r) == {k[2] : k \in {x \in DOMAIN db["resolution"] : x[1] = r}}
LastSystem(r) == CHOOSE s \in SystemOf(r) : \A u \in SystemOf(r) : u <= s

\* Variant: a playbook of an unknown rule is not thrown away.
PlaybookRowsAll(c) ==
  [ k \in {<<p.rule, p.type>> : p \in c.playbooks} |->
      [sys |-> IF SystemOf(k[1]) = {} THEN 0 ELSE LastSystem(k[1]), version |-> "any"] ]

PlaybookRows(c) ==
  LET usable == {p \in c.playbooks : SystemOf(p.rule) # {}} IN
  [ k \in {<<p.rule, p.type>> : p \in usable} |->
      LET p == CHOOSE x \in usable : <<x.rule, x.type>> = k
      IN  [sys |-> LastSystem(p.rule), version |-> p.version] ]

\* load_all_autoacks: the autoack rules of the organisations that do not
\* have the rule acked, by whomever.
AutoackRules(c) == {r \in RulesOf(c) : "autoack" \in TagsOf(c, r)}
AutoackRows(c) ==
  [ k \in (AutoackRules(c) \X orgs) \ DOMAIN db["ack"] |-> [by |-> "redhat"] ]

\* transform_config and transform_tags.
NamedValues(values) == [n \in DOMAIN values |-> [value |-> values[n]]]
TagRows(c)          == [n \in c.tags |-> [name |-> n]]

RuleRows(c, risks)  == [r \in RulesOf(c) |-> RuleRow(c, risks, LastRow(c, r))]
RuleTagRows(c)      == [k \in UNION {{r} \X TagsOf(c, r) : r \in RulesOf(c)} |-> [tag |-> k[2]]]
ResolutionRows(c) ==
  [k \in {<<row.rule, row.sys>> : row \in RowsOf(c)} |-> [risk |-> LastPair(c, k).risk]]

Config(i, t) ==
  LET c == content[i] IN
  CASE t = "impact"     -> NamedValues(c.impacts)
    [] t = "risk"       -> NamedValues(c.risks)
    [] t = "tag"        -> TagRows(c)
    [] t = "rule"       -> RuleRows(c, maps[i].risks)
    [] t = "ruleTag"    -> RuleTagRows(c)
    [] t = "ack"        -> want[i]
    [] t = "resolution" -> ResolutionRows(c)
    [] t = "playbook"   -> PlaybookRows(c)

\* A lookup that fails raises out of the command: load_database_maps finds
\* a table empty, the row that describes a rule or a resolution has an impact
\* or a risk that the maps do not know.
Raises(i, t) ==
  LET c == content[i] IN
  \/ t = "rule" /\ \E r \in RulesOf(c) :
       \/ LastRow(c, r).impact \notin maps[i].impacts
       \/ LastRow(c, r).risk \notin DOMAIN maps[i].risks
  \/ t = "ruleTag" /\ ~ RulesOf(c) \subseteq maps[i].rules
  \/ t = "resolution" /\ \E k \in DOMAIN ResolutionRows(c) : LastPair(c, k).risk \notin DOMAIN db["risk"]

\* A table that the command leaves alone: rules with tags that are not in
\* the configuration, a repository without playbooks, nothing to load.
Skips(i, t) ==
  \/ t = "ruleTag" /\ \E r \in RulesOf(content[i]) : ~ TagsOf(content[i], r) \subseteq maps[i].tags
  \/ t = "playbook" /\ ~ content[i].hasPlaybooks
  \/ Config(i, t) = Empty /\ t \notin DeleteMissing

\* Variant: the acks of users are compared with the content, too.
InScopeAll(t) == DOMAIN db[t]

\* The rows of the table that the command looks at: of the acks, Red Hat's.
InScope(t) == {pk \in DOMAIN db[t] : t # "ack" \/ db[t][pk].by = "redhat"}
-----------------------------------------------------------------------------
(* The importer. *)

FirstStep(t) == IF t \in {"rule", "ruleTag"} THEN "maps"
                ELSE IF t = "ack" THEN "acked" ELSE "read"

Init ==
  /\ db = [t \in Tables |-> Empty]
  /\ orgs = FirstOrgs
  /\ at = [i \in Importers |-> Idle] /\ step = [i \in Importers |-> "read"]
  /\ \E load \in Loads :
       /\ content = load.content
       /\ budget = [f \in {"imports", "crashes", "requests", "orgs"} |-> load[f]]
  /\ snap = [i \in Importers |-> Empty] /\ want = snap
  /\ maps = [i \in Importers |-> NoMaps]
  /\ edit = NoEdit /\ newOrg = NoOrg
  /\ disturbed = [i \in Importers |-> {}]

\* What the start of an import adds to the history of those that run, and
\* what it finds running itself.
Others(i) == {j \in Importers \ {i} : Running(j) /\ content[j] # content[i]}

\* handle: the container starts, or starts over, with the content it holds.
Start(i) ==
  /\ ~ Running(i) /\ budget.imports[i] > 0
  /\ at' = [at EXCEPT ![i] = 1] /\ step' = [step EXCEPT ![i] = "read"]
  /\ budget' = [budget EXCEPT !.imports[i] = @ - 1]
  /\ disturbed' = [j \in Importers |->
       IF j = i THEN (IF Others(i) # {} THEN {"content"} ELSE {})
                     \cup (IF newOrg # NoOrg THEN {"org"} ELSE {})
       ELSE IF j \in Others(i) THEN disturbed[j] \cup {"content"} ELSE disturbed[j]]
  /\ maps' = [maps EXCEPT ![i] = NoMaps]
  /\ UNCHANGED <<db, orgs, content, snap, want, edit, newOrg>>

\* The command is done with a table and goes on to the next one.
Leave(i) ==
  /\ at' = [at EXCEPT ![i] = @ + 1]
  /\ step' = [step EXCEPT ![i] = IF at[i] = Len(Order) THEN "read" ELSE FirstStep(Order[at[i] + 1])]
  /\ snap' = [snap EXCEPT ![i] = Empty] /\ want' = [want EXCEPT ![i] = Empty]

\* An exception, or the end of the container: it is started over, and does
\* not use up the imports it may begin.
Abandon(i) ==
  /\ at' = [at EXCEPT ![i] = 1] /\ step' = [step EXCEPT ![i] = "read"]
  /\ snap' = [snap EXCEPT ![i] = Empty] /\ want' = [want EXCEPT ![i] = Empty]
  /\ maps' = [maps EXCEPT ![i] = NoMaps]

Go(i, s) == step' = [step EXCEPT ![i] = s]
Outside == UNCHANGED <<orgs, content, edit, newOrg, budget, disturbed>>

\* load_database_maps before the rules, load_rule_id_map after them.
LoadMaps(i) ==
  /\ Running(i) /\ step[i] = "maps"
  /\ IF Table(i) = "rule"
     THEN LET risks == [n \in DOMAIN content[i].risks |-> content[i].risks[n]] IN
          IF db["impact"] = Empty \/ db["tag"] = Empty
          THEN Abandon(i)
          ELSE /\ maps' = [maps EXCEPT ![i] = [NoMaps EXCEPT !.risks = risks,
                             !.impacts = DOMAIN db["impact"], !.tags = DOMAIN db["tag"]]]
               /\ Go(i, "read") /\ UNCHANGED <<at, snap, want>>
     ELSE /\ maps' = [maps EXCEPT ![i].rules = DOMAIN db["rule"]]
          /\ Go(i, "read") /\ UNCHANGED <<at, snap, want>>
  /\ UNCHANGED db /\ Outside

\* load_all_autoacks: reads the organisations and the acks, in statements
\* before the one that update_model_from_config reads the acks with.
ReadAcked(i) ==
  /\ Running(i) /\ step[i] = "acked"
  /\ want' = [want EXCEPT ![i] = AutoackRows(content[i])]
  /\ Go(i, "read")
  /\ UNCHANGED <<db, at, snap, maps>> /\ Outside

\* update_model_from_config, up to the rows to insert and to update.
\* Of several rows of one key, the one read last is compared.
Read(i) ==
  /\ Running(i) /\ step[i] = "read"
  /\ LET t == Table(i) IN
     IF Raises(i, t) THEN Abandon(i)
     ELSE IF Skips(i, t) THEN Leave(i) /\ UNCHANGED maps
     ELSE \E pick \in [{KeyOf(t, pk) : pk \in InScope(t)} -> InScope(t)] :
            /\ \A k \in DOMAIN pick : KeyOf(t, pick[k]) = k
            /\ snap' = [snap EXCEPT ![i] =
                          [k \in DOMAIN pick |-> [pk |-> pick[k], row |-> db[t][pick[k]]]]]
            /\ want' = [want EXCEPT ![i] = Config(i, t)]
            /\ Go(i, "insert") /\ UNCHANGED <<at, maps>>
  /\ UNCHANGED db /\ Outside

\* The primary key of a new row: playbooks are numbered.
Pk(t, k) ==
  IF t # "playbook" THEN k
  ELSE <<k[1], k[2], CHOOSE n \in 1..(Cardinality(DOMAIN db[t]) + 1) :
                        <<k[1], k[2], n>> \notin DOMAIN db[t]>>

\* The database refuses a row that is there (a playbook never is), and a
\* playbook of a resolution that is gone.
Refused(t, rows) ==
  \/ t # "playbook" /\ DOMAIN rows \cap DOMAIN db[t] # {}
  \/ t = "playbook" /\ \E k \in DOMAIN rows : <<k[1], rows[k].sys>> \notin DOMAIN db["resolution"]

AfterWrites(t) == IF t \in DeleteMissing THEN "delete" ELSE "leave"

\* bulk_create of what is missing; into an empty table that is all there is.
Insert(i) ==
  /\ Running(i) /\ step[i] = "insert"
  /\ LET t    == Table(i)
         rows == Restrict(want[i], DOMAIN want[i] \ DOMAIN snap[i])
     IN  IF Refused(t, rows)
         THEN Abandon(i) /\ UNCHANGED db
         ELSE /\ db' = [db EXCEPT ![t] =
                   [pk \in DOMAIN @ \cup {Pk(t, k) : k \in DOMAIN rows} |->
                      IF pk \in DOMAIN @ THEN @[pk] ELSE rows[KeyOf(t, pk)]]]
              /\ IF snap[i] = Empty
                 THEN Leave(i)
                 ELSE Go(i, "update") /\ UNCHANGED <<at, snap, want>>
              /\ UNCHANGED maps
  /\ Outside

\* bulk_update: the fields that differ in any row are written in every row
\* that differs, and only these; a row that is gone is not written.
Update(i) ==
  /\ Running(i) /\ step[i] = "update"
  /\ LET t       == Table(i)
         changed == {k \in DOMAIN want[i] \cap DOMAIN snap[i] : snap[i][k].row # want[i][k]}
         fields  == {f \in UNION {DOMAIN want[i][k] : k \in changed} :
                       \E k \in changed : snap[i][k].row[f] # want[i][k][f]}
         written == {snap[i][k].pk : k \in changed} \cap DOMAIN db[t]
         merged(pk) == LET new == want[i][KeyOf(t, pk)] IN
                       [f \in DOMAIN new |-> IF f \in fields THEN new[f] ELSE db[t][pk][f]]
     IN  /\ db' = [db EXCEPT ![t] = [pk \in DOMAIN @ |->
                      IF pk \in written THEN merged(pk) ELSE @[pk]]]
         /\ IF t \in DeleteMissing
            THEN Go(i, "delete") /\ UNCHANGED <<at, snap, want>>
            ELSE Leave(i)
  /\ UNCHANGED maps /\ Outside

\* Deleting a resolution deletes its playbooks.
WithoutRows(t, gone) ==
  [db EXCEPT ![t] = Restrict(@, DOMAIN @ \ gone),
             !["playbook"] = Restrict(@, {pk \in DOMAIN @ :
                  ~ (t = "resolution" /\ <<pk[1], @[pk].sys>> \in gone)})]

\* A request that holds a row which is deleted finds it gone.
EditLoses(keys) ==
  edit' = IF edit # NoEdit /\ edit.key \in keys THEN [edit EXCEPT !.live = FALSE] ELSE edit

\* delete_missing: what the table, read anew, has beyond the content.
Delete(i) ==
  /\ Running(i) /\ step[i] = "delete"
  /\ LET t    == Table(i)
         gone == InScope(t) \ DOMAIN want[i]
     IN  /\ db' = WithoutRows(t, gone)
         /\ EditLoses(IF t = "ack" THEN gone ELSE {})
  /\ Leave(i)
  /\ UNCHANGED <<maps, orgs, content, newOrg, budget, disturbed>>

\* The container is killed.
Crash(i) ==
  /\ Running(i) /\ budget.crashes > 0
  /\ budget' = [budget EXCEPT !.crashes = @ - 1]
  /\ Abandon(i)
  /\ UNCHANGED <<db, orgs, content, edit, newOrg, disturbed>>
-----------------------------------------------------------------------------
(* The ack views and the Advisor Service. *)

Request == budget.requests > 0 /\ budget' = [budget EXCEPT !.requests = @ - 1]
Acked(k) == k \in DOMAIN db["ack"]
SetAck(k, by) ==
  db' = [db EXCEPT !["ack"] = [x \in DOMAIN @ \cup {k} |-> IF x = k THEN [by |-> by] ELSE @[x]]]

\* create, of either API: update_or_create, one transaction with the row
\* locked.  The rule need not be active.
CreateAck(r, o) ==
  /\ r \in DOMAIN db["rule"] /\ Request
  /\ SetAck(<<r, o>>, "user")
  /\ UNCHANGED <<orgs, importerVars, edit, newOrg, disturbed>>

\* update and destroy read the ack first: get_object, of an active rule for
\* /ack/, of any rule for the Satellite API.
ReadAck(op, r, o) ==
  /\ edit = NoEdit /\ Request
  /\ Acked(<<r, o>>)
  /\ op # "satDestroy" => db["rule"][r].active
  /\ edit' = [op |-> op, key |-> <<r, o>>, live |-> TRUE]
  /\ UNCHANGED <<db, orgs, importerVars, newOrg, disturbed>>

\* save(): the row is updated by its id; when no row has it any more the row
\* is inserted again, which fails if the rule was acked anew.
SaveAck ==
  /\ edit # NoEdit /\ edit.op = "update"
  /\ IF edit.live \/ ~ Acked(edit.key) THEN SetAck(edit.key, "user") ELSE UNCHANGED db
  /\ edit' = NoEdit
  /\ UNCHANGED <<orgs, importerVars, newOrg, budget, disturbed>>

\* delete() removes the row by its id.
DestroyAck ==
  /\ edit # NoEdit /\ edit.op \in {"destroy", "satDestroy"}
  /\ IF edit.live THEN db' = WithoutRows("ack", {edit.key}) ELSE UNCHANGED db
  /\ edit' = NoEdit
  /\ UNCHANGED <<orgs, importerVars, newOrg, budget, disturbed>>

\* The first host of an organisation: the autoack rules that nobody has
\* acked are read, ...
NewOrgRead(o) ==
  /\ newOrg = NoOrg /\ o \notin orgs /\ budget.orgs > 0
  /\ budget' = [budget EXCEPT !.orgs = @ - 1]
  /\ newOrg' = [org |-> o, rules |-> {r \in DOMAIN db["rule"] :
       <<r, "autoack">> \in DOMAIN db["ruleTag"] /\ ~ \E p \in Orgs : Acked(<<r, p>>)}]
  /\ disturbed' = [i \in Importers |-> IF Running(i) THEN disturbed[i] \cup {"org"} ELSE disturbed[i]]
  /\ UNCHANGED <<db, orgs, importerVars, edit>>

\* ... acked in one bulk_create, and the host is stored; if it is refused
\* the upload is dropped, to be tried again with the next one.
NewOrgWrite ==
  /\ newOrg # NoOrg
  /\ LET new == newOrg.rules \X {newOrg.org} IN
     IF new \cap DOMAIN db["ack"] = {}
     THEN /\ db' = [db EXCEPT !["ack"] = [k \in DOMAIN @ \cup new |->
                      IF k \in new THEN [by |-> "redhat"] ELSE @[k]]]
          /\ orgs' = orgs \cup {newOrg.org}
     ELSE UNCHANGED <<db, orgs>>
  /\ newOrg' = NoOrg
  /\ UNCHANGED <<importerVars, edit, budget, disturbed>>
-----------------------------------------------------------------------------
Import(i) == LoadMaps(i) \/ ReadAcked(i) \/ Read(i) \/ Insert(i) \/ Update(i) \/ Delete(i)
View ==
  \/ \E r \in DOMAIN db["rule"], o \in Orgs :
       \/ CreateAck(r, o)
       \/ \E op \in {"update", "destroy", "satDestroy"} : ReadAck(op, r, o)
  \/ SaveAck \/ DestroyAck
Service == NewOrgWrite \/ \E o \in Orgs : NewOrgRead(o)
Next == (\E i \in Importers : Start(i) \/ Import(i) \/ Crash(i)) \/ View \/ Service

\* A container that began its import goes on; the environment may stop.
Spec     == Init /\ [][Next]_vars
FairSpec == Spec /\ \A i \in Importers : WF_vars(Import(i))
-----------------------------------------------------------------------------
(* Properties. *)

Finishes(i) == at[i] # Done /\ at'[i] = Done

\* What the tables hold once a version of the content is imported.
Mirrored(c) ==
  LET tagged == UNION {{r} \X TagsOf(c, r) : r \in RulesOf(c)} IN
  /\ \A r \in RulesOf(c) : r \in DOMAIN db["rule"] /\ db["rule"][r] = RuleRow(c, c.risks, LastRow(c, r))
  /\ (\E k \in tagged : k[2] \notin c.tags) \/ DOMAIN db["ruleTag"] = tagged
  /\ DOMAIN db["resolution"] = {<<row.rule, row.sys>> : row \in RowsOf(c)}
  /\ \A k \in DOMAIN db["resolution"] : db["resolution"][k].risk = LastPair(c, k).risk
  /\ \A p \in IF c.hasPlaybooks THEN c.playbooks ELSE {} :
       SystemOf(p.rule) # {} => \E pk \in DOMAIN db["playbook"] : <<pk[1], pk[2]>> = <<p.rule, p.type>>

\* Whatever ran beside it, an import that ends has brought the content into
\* the tables: rules, their tags, resolutions and playbooks, what was there
\* before updated or deleted.  Only an import of another version of the
\* content, in a container of another build, takes that away.
ImportMirrors ==
  [][\A i \in Importers : Finishes(i) /\ "content" \notin disturbed[i]
        => Mirrored(content[i])']_vars

\* load_all_autoacks looks at Red Hat's acks alone: no import removes or
\* takes over the ack of a user, also when the user acks, edits or takes
\* back a rule between the import's reads and writes.
UserAcksKept ==
  [][importerVars' # importerVars =>
       \A k \in DOMAIN db["ack"] : db["ack"][k].by = "user" =>
          k \in DOMAIN db'["ack"] /\ db'["ack"][k] = db["ack"][k]]_vars

\* The acks that follow the autoack tag go when the tag goes: once an import
\* ends, Red Hat acks only rules that are tagged, unless another version was
\* imported, or an organisation was welcomed, beside it.
NoStrayAutoacks ==
  [][\A i \in Importers : Finishes(i) /\ disturbed[i] = {} =>
       \A k \in DOMAIN db'["ack"] :
          db'["ack"][k].by = "redhat" => k[1] \in AutoackRules(content[i])]_vars

\* A container restarts until its import succeeds: a row that someone else
\* inserted first makes an import fail once, never for ever, if the content
\* itself is sound.
Sound(c) == \A row \in RowsOf(c) : row.impact \in DOMAIN c.impacts /\ row.risk \in DOMAIN c.risks
ImportsFinish ==
  \A i \in Importers : Running(i) /\ Sound(content[i]) ~> at[i] = Done

\* load_all_autoacks: "Set up acks for rules that are marked with the autoack
\* tag": after an import every organisation has every such rule acked.
AutoacksSet ==
  [][\A i \in Importers : Finishes(i) /\ disturbed[i] = {} =>
       AutoackRules(content[i]) \X orgs \subseteq DOMAIN db'["ack"]]_vars
=============================================================================
