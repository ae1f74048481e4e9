--------------------------- MODULE ContentServer ---------------------------
(***************************************************************************)
(* The import_content endpoint (views/import_content.py and                *)
(* scripts/import_content.py): the content server posts the configuration  *)
(* and all rules, and a gunicorn worker works through them, one SQL        *)
(* statement after another and each committed by itself (ATOMIC_REQUESTS   *)
(* is set beside DATABASES and not in it, where Django reads it).  A       *)
(* request that raises, or whose worker is killed, leaves what it did; the *)
(* content server posts again.  The worker keeps the accounts to notify of *)
(* deactivated rules in a variable of its module.  Contents are posted one *)
(* at a time.                                                              *)
(*                                                                         *)
(* Around it: users acknowledge rules, and hosts report them.              *)
(***************************************************************************)
EXTENDS Integers, Sequences, FiniteSets, Functions

CONSTANTS
  Workers,       \* the worker processes
  Orgs,          \* the organisations that have hosts
  Pathways,      \* fixture: the pathway of a component and resolution risk
  Posts,         \* bounds: the contents posted, in order, with the faults
                 \* and the requests of users beside them
  DisableCve     \* DISABLE_CVE_RULES

VARIABLES
  \* the tables, each a function from keys to rows
  rules, ruleTags, tags, risks, impacts, resolutions, playbooks, acks, reports,
  \* the request: program point, worker, content, the row it is at, and
  \* the organisations that a loop has left
  pc, worker, job, row, left,
  \* deactivated_rule_accounts, of each worker's module
  memory,
  \* what is left of the bounds; the notifications sent
  budget, sent

\* What the content server posts, and how often others act meanwhile.
PostedIn(b) == Range(b.posts)
WellFormed ==
  \A b \in Posts :
    /\ b = [posts |-> b.posts, kills |-> b.kills, requests |-> b.requests]
    /\ b.posts \in Seq(PostedIn(b)) /\ b.kills \in Nat /\ b.requests \in Nat
    /\ \A c \in PostedIn(b) : c.rows \in Seq(Range(c.rows))
ASSUME PostsAssumption == WellFormed

ruleVars   == <<rules, ruleTags, tags, risks, impacts, resolutions, playbooks>>
requestVars == <<pc, worker, job, row, left>>
vars == <<ruleVars, acks, reports, requestVars, memory, budget, sent>>

Empty  == [k \in {} |-> {}]
Nobody == [o \in Orgs |-> <<>>]
Now    == 9

Points == {"idle", "risks", "impacts", "tags", "find", "save", "resolution", "playbooks",
           "pathway", "ruleTags", "autoack", "addAcks", "unack", "extra", "notify"}

Put(f, k, v)    == [x \in DOMAIN f \cup {k} |-> IF x = k THEN v ELSE f[x]]
Without(f, ks)  == Restrict(f, DOMAIN f \ ks)
Row             == job.rows[row]
RulesOf(c)      == {r.rule : r \in Range(c.rows)}
TagsOf(r)       == {k[2] : k \in {x \in ruleTags : x[1] = r}}

-----------------------------------------------------------------------------
Init ==
  /\ rules = Empty /\ ruleTags = {} /\ tags = {} /\ risks = Empty /\ impacts = Empty
  /\ resolutions = Empty /\ playbooks = Empty /\ acks = Empty /\ reports = {}
  /\ pc = "idle" /\ worker \in Workers /\ job = [rows |-> <<>>] /\ row = 0 /\ left = {}
  /\ memory = [w \in Workers |-> Nobody]
  /\ budget \in Posts /\ sent = <<>>

\* create: a worker takes the request, checks it, and import_all begins.
Post(w) ==
  /\ pc = "idle" /\ budget.posts # <<>>
  /\ budget' = [budget EXCEPT !.posts = Tail(@)]
  /\ worker' = w
  /\ IF Head(budget.posts).valid
     THEN pc' = "risks" /\ job' = Head(budget.posts) /\ row' = 0
     ELSE UNCHANGED <<pc, job, row>>
  /\ UNCHANGED <<ruleVars, acks, reports, left, memory, sent>>

\* The request ends with an exception: the server answers 500.
Fail == pc' = "idle" /\ left' = {} /\ UNCHANGED <<worker, job, row>>
Goto(p) == pc' = p /\ UNCHANGED <<worker, job, row, left>>

\* A worker that is killed for its age or its memory loses its memory.
Kill ==
  /\ pc # "idle" /\ budget.kills > 0
  /\ budget' = [budget EXCEPT !.kills = @ - 1]
  /\ memory' = [memory EXCEPT ![worker] = Nobody] /\ Fail
  /\ UNCHANGED <<ruleVars, acks, reports, sent>>
-----------------------------------------------------------------------------
(* update_model_with_content: row by row, first what the table has (changed *)
(* or, if the configuration lacks it, deleted), then what it lacks.         *)

Stale(table, config)   == {n \in DOMAIN table : n \notin DOMAIN config \/ table[n] # config[n]}
Lacking(table, config) == DOMAIN config \ DOMAIN table
Synced(table, config, n) ==
  IF n \in DOMAIN config THEN Put(table, n, config[n]) ELSE Without(table, {n})
\* The names that may be next, and none when the table is done.
NextNames(table, config) ==
  IF Stale(table, config) # {} THEN Stale(table, config) ELSE Lacking(table, config)

\* Deleting a risk deletes its resolutions and their playbooks.
SyncRisk ==
  /\ pc = "risks"
  /\ LET names == NextNames(risks, job.risks) IN
     IF names = {}
     THEN Goto("impacts") /\ UNCHANGED <<risks, resolutions, playbooks>>
     ELSE \E n \in names :
            LET lost == {k \in DOMAIN resolutions : n \notin DOMAIN job.risks /\ resolutions[k] = n} IN
            /\ risks' = Synced(risks, job.risks, n)
            /\ resolutions' = Without(resolutions, lost)
            /\ playbooks' = Without(playbooks, {k \in DOMAIN playbooks : <<k[1], k[2]>> \in lost})
            /\ UNCHANGED requestVars
  /\ UNCHANGED <<rules, ruleTags, tags, impacts, acks, reports, memory, budget, sent>>

\* Deleting an impact leaves its rules without one.
SyncImpact ==
  /\ pc = "impacts"
  /\ LET names == NextNames(impacts, job.impacts) IN
     IF names = {}
     THEN Goto("tags") /\ UNCHANGED <<impacts, rules>>
     ELSE \E n \in names :
            /\ impacts' = Synced(impacts, job.impacts, n)
            /\ rules' = IF n \in DOMAIN job.impacts THEN rules
                        ELSE [r \in DOMAIN rules |-> IF rules[r].impact = n
                               THEN [rules[r] EXCEPT !.impact = "null"] ELSE rules[r]]
            /\ UNCHANGED requestVars
  /\ UNCHANGED <<ruleTags, tags, risks, resolutions, playbooks, acks, reports, memory, budget, sent>>

\* The next row of the content, if there is one.
NextRow(n) ==
  /\ row' = n /\ pc' = IF n \in DOMAIN job.rows THEN "find" ELSE "extra"
  /\ UNCHANGED <<worker, job, left>>

\* Deleting a tag takes it from its rules, their autoacks stay.
SyncTag ==
  /\ pc = "tags"
  /\ LET extra == tags \ job.tags
         lack  == job.tags \ tags IN
     IF extra \cup lack = {}
     THEN NextRow(1) /\ UNCHANGED <<tags, ruleTags>>
     ELSE \E t \in IF extra # {} THEN extra ELSE lack :
            /\ tags' = IF t \in extra THEN tags \ {t} ELSE tags \cup {t}
            /\ ruleTags' = {k \in ruleTags : k[2] # t}
            /\ UNCHANGED requestVars
  /\ UNCHANGED <<rules, risks, impacts, resolutions, playbooks, acks, reports, memory, budget, sent>>
-----------------------------------------------------------------------------
(* update_ruleset_with_content, for one row of the content. *)

Active(c) == c.active /\ ~ (DisableCve /\ "cve" \in c.tags)

\* update_publish_date: an older date than the rule's is passed over, no date
\* clears it.
LaterDate(old, new) == IF new # 0 /\ old >= new THEN old ELSE new

\* handle_notif_action: a rule that goes from active to inactive, marked as
\* retired or to be enhanced, or that comes back from being enhanced.
Deactivates(r, c) == rules[r].active /\ ~ c.active /\ c.notif \in {"retire", "enhance"}
Enhanced(r, c)    == ~ rules[r].active /\ c.active /\ c.notif = "enhance"

\* get_deactivated_rule_accounts: who has the rule reported and not acked.
Affected(r) == {o \in Orgs : <<r, o>> \in reports /\ <<r, o>> \notin DOMAIN acks}

\* The rule is looked up, and the accounts to notify are noted in memory.
\* A row of no known ruleset is passed over; an unknown impact raises.
Find ==
  /\ pc = "find"
  /\ IF ~ Row.ruleset
     THEN NextRow(row + 1) /\ UNCHANGED memory
     ELSE LET r == Row.rule IN
          /\ memory' = IF r \in DOMAIN rules /\ Deactivates(r, Row)
                       THEN [memory EXCEPT ![worker] = [o \in Orgs |->
                              IF o \in Affected(r) THEN Append(@[o], r) ELSE @[o]]]
                       ELSE memory
          /\ IF Row.impact \in DOMAIN impacts THEN Goto("save") ELSE Fail
  /\ UNCHANGED <<ruleVars, acks, reports, budget, sent>>

\* The rule as the row describes it; the pathway is set in a step of its own.
PublishDate(r, c) ==
  IF r \notin DOMAIN rules THEN c.published
  ELSE LET d == LaterDate(rules[r].published, c.published)
       IN  IF Enhanced(r, c) THEN LaterDate(d, Now) ELSE d
RuleFields(c) ==
  [ active |-> Active(c), impact |-> c.impact, published |-> PublishDate(c.rule, c),
    total |-> (c.likelihood + impacts[c.impact]) \div 2,
    pathway |-> IF c.rule \in DOMAIN rules THEN rules[c.rule].pathway ELSE "null" ]

\* save(), of a rule that is new or has changed.
SaveRule ==
  /\ pc = "save"
  /\ rules' = Put(rules, Row.rule, RuleFields(Row))
  /\ Goto(IF Row.risk = "null" THEN "pathway" ELSE "resolution")
  /\ UNCHANGED <<ruleTags, tags, risks, impacts, resolutions, playbooks, acks, reports, memory, budget, sent>>

KeyOf(c) == <<c.rule, c.sys>>

\* The resolution for the row's system type; a risk that the configuration
\* lacks raises.
SaveResolution ==
  /\ pc = "resolution"
  /\ IF Row.risk \in DOMAIN risks
     THEN resolutions' = Put(resolutions, KeyOf(Row), Row.risk) /\ Goto("playbooks")
     ELSE UNCHANGED resolutions /\ Fail
  /\ UNCHANGED <<rules, ruleTags, tags, risks, impacts, playbooks, acks, reports, memory, budget, sent>>

\* update_playbook_models, for one resolution type at a time: what the
\* content has anew or in another version, then what it lacks.  Data with
\* missing keys is passed over, but counts as had.
BookTypes(c) == {k[3] : k \in {x \in DOMAIN playbooks : <<x[1], x[2]>> = KeyOf(c)}}
BooksToSave(c) ==
  {ty \in DOMAIN c.playbooks :
     /\ c.playbooks[ty] # "incomplete"
     /\ ty \in BookTypes(c) => playbooks[<<c.rule, c.sys, ty>>] # c.playbooks[ty]}
\* Variant: a playbook the content lacks stays.
BooksToRemoveNone(c) == {}
BooksToRemove(c) == BookTypes(c) \ DOMAIN c.playbooks

SyncPlaybook ==
  /\ pc = "playbooks"
  /\ IF BooksToSave(Row) \cup BooksToRemove(Row) = {}
     THEN Goto("pathway") /\ UNCHANGED playbooks
     ELSE /\ \E ty \in IF BooksToSave(Row) # {} THEN BooksToSave(Row) ELSE BooksToRemove(Row) :
               LET k == <<Row.rule, Row.sys, ty>> IN
               playbooks' = IF ty \in BooksToSave(Row) THEN Put(playbooks, k, Row.playbooks[ty])
                                                       ELSE Without(playbooks, {k})
          /\ UNCHANGED requestVars
  /\ UNCHANGED <<rules, ruleTags, tags, risks, impacts, resolutions, acks, reports, memory, budget, sent>>

\* set_pathway: by component and resolution risk, and null without either.
PathwayOf(c) ==
  LET k == <<c.component, c.risk>> IN IF k \in DOMAIN Pathways THEN Pathways[k] ELSE "null"

SetPathway ==
  /\ pc = "pathway"
  /\ rules' = [rules EXCEPT ![Row.rule].pathway = PathwayOf(Row)]
  /\ Goto("ruleTags")
  /\ UNCHANGED <<ruleTags, tags, risks, impacts, resolutions, playbooks, acks, reports, memory, budget, sent>>

\* The tags of the rule: those it lacks are added, made if need be, then
\* those that the content lacks are removed.  With 'autoack' come its acks.
SyncRuleTag ==
  /\ pc = "ruleTags"
  /\ LET lack  == Row.tags \ TagsOf(Row.rule)
         extra == TagsOf(Row.rule) \ Row.tags
     IN  IF lack \cup extra = {}
         THEN NextRow(row + 1) /\ UNCHANGED <<tags, ruleTags>>
         ELSE \E t \in IF lack # {} THEN lack ELSE extra :
                /\ tags' = tags \cup {t}
                /\ ruleTags' = IF t \in lack THEN ruleTags \cup {<<Row.rule, t>>}
                                             ELSE ruleTags \ {<<Row.rule, t>>}
                /\ Goto(IF t # "autoack" THEN "ruleTags" ELSE IF t \in lack THEN "autoack" ELSE "unack")
  /\ UNCHANGED <<rules, risks, impacts, resolutions, playbooks, acks, reports, memory, budget, sent>>

\* add_autoacks_for_rule: the organisations without an ack are read, ...
ReadAcks ==
  /\ pc = "autoack"
  /\ left' = {o \in Orgs : <<Row.rule, o>> \notin DOMAIN acks}
  /\ pc' = "addAcks" /\ UNCHANGED <<worker, job, row>>
  /\ UNCHANGED <<ruleVars, acks, reports, memory, budget, sent>>

\* Variant: an ack made meanwhile is overwritten.
AcksRefusedNever == FALSE
AcksRefused == ({Row.rule} \X left) \cap DOMAIN acks # {}

\* ... and acked in one bulk_create, which one ack made meanwhile refuses.
WriteAcks ==
  /\ pc = "addAcks"
  /\ IF AcksRefused
     THEN Fail /\ UNCHANGED acks
     ELSE /\ acks' = [k \in DOMAIN acks \cup ({Row.rule} \X left) |->
                       IF k \in {Row.rule} \X left THEN "redhat" ELSE acks[k]]
          /\ pc' = "ruleTags" /\ left' = {} /\ UNCHANGED <<worker, job, row>>
  /\ UNCHANGED <<ruleVars, reports, memory, budget, sent>>

\* remove_autoacks_for_rule.
RemoveAcks ==
  /\ pc = "unack"
  /\ acks' = Without(acks, {k \in DOMAIN acks : k[1] = Row.rule /\ acks[k] = "redhat"})
  /\ Goto("ruleTags")
  /\ UNCHANGED <<ruleVars, reports, memory, budget, sent>>
-----------------------------------------------------------------------------
(* After the rows. *)

\* Rules that the content lacks are deleted, with all that hangs on them.
DeleteRule(r) ==
  /\ rules' = Without(rules, {r})
  /\ ruleTags' = {k \in ruleTags : k[1] # r}
  /\ resolutions' = Without(resolutions, {k \in DOMAIN resolutions : k[1] = r})
  /\ playbooks' = Without(playbooks, {k \in DOMAIN playbooks : k[1] = r})
  /\ acks' = Without(acks, {k \in DOMAIN acks : k[1] = r})
  /\ reports' = {k \in reports : k[1] # r}

ExtraRules == DOMAIN rules \ RulesOf(job)

DeleteExtra ==
  /\ pc = "extra"
  /\ IF ExtraRules # {}
     THEN (\E r \in ExtraRules : DeleteRule(r)) /\ UNCHANGED requestVars
     ELSE /\ left' = {o \in Orgs : memory[worker][o] # <<>>}
          /\ pc' = "notify" /\ UNCHANGED <<worker, job, row>>
          /\ UNCHANGED <<rules, ruleTags, resolutions, playbooks, acks, reports>>
  /\ UNCHANGED <<tags, risks, impacts, memory, budget, sent>>

\* send_deactivated_rule_notifications: one message for each organisation in
\* memory; then the request is answered.
Notify ==
  /\ pc = "notify"
  /\ IF left = {}
     THEN Fail /\ UNCHANGED sent
     ELSE \E o \in left :
            /\ sent' = Append(sent, [org |-> o, told |-> memory[worker][o]])
            /\ left' = left \ {o} /\ UNCHANGED <<pc, worker, job, row>>
  /\ UNCHANGED <<ruleVars, acks, reports, memory, budget>>
-----------------------------------------------------------------------------
(* Users and uploads. *)

Request == budget.requests > 0 /\ budget' = [budget EXCEPT !.requests = @ - 1]
Ack(r, o) ==
  /\ Request /\ acks' = Put(acks, <<r, o>>, "user")
  /\ UNCHANGED <<ruleVars, reports, requestVars, memory, sent>>
Unack(k) ==
  /\ Request /\ acks' = Without(acks, {k})
  /\ UNCHANGED <<ruleVars, reports, requestVars, memory, sent>>
Upload(r, o) ==
  /\ Request /\ <<r, o>> \notin reports /\ reports' = reports \cup {<<r, o>>}
  /\ UNCHANGED <<ruleVars, acks, requestVars, memory, sent>>
-----------------------------------------------------------------------------
Import ==
  \/ SyncRisk \/ SyncImpact \/ SyncTag
  \/ Find \/ SaveRule \/ SaveResolution \/ SyncPlaybook \/ SetPathway
  \/ SyncRuleTag \/ ReadAcks \/ WriteAcks \/ RemoveAcks
  \/ DeleteExtra \/ Notify
Users ==
  \/ \E r \in DOMAIN rules, o \in Orgs : Ack(r, o) \/ Upload(r, o)
  \/ \E k \in DOMAIN acks : Unack(k)
Next == (\E w \in Workers : Post(w)) \/ Import \/ Kill \/ Users
Spec == Init /\ [][Next]_vars
-----------------------------------------------------------------------------
(* Properties. *)

Finishes == pc = "notify" /\ left = {} /\ pc' = "idle" /\ budget' = budget

\* The content is in the tables: its rules, and no others, each as the last
\* row that tells of it has it, and the resolutions with their playbooks.
Mirrored ==
  LET tells(n)    == job.rows[n].ruleset
      resolves(n) == tells(n) /\ job.rows[n].risk # "null"
      later(n)    == {m \in DOMAIN job.rows : m > n}
  IN  /\ DOMAIN rules \subseteq RulesOf(job)
      /\ \A n \in DOMAIN job.rows : LET c == job.rows[n] IN
           /\ tells(n) => c.rule \in DOMAIN rules
           /\ tells(n) /\ (\A m \in later(n) : tells(m) => job.rows[m].rule # c.rule) =>
                /\ rules[c.rule].active = Active(c) /\ rules[c.rule].pathway = PathwayOf(c)
                /\ TagsOf(c.rule) = c.tags
           /\ resolves(n) /\ (\A m \in later(n) : resolves(m) => KeyOf(job.rows[m]) # KeyOf(c)) =>
                /\ KeyOf(c) \in DOMAIN resolutions /\ resolutions[KeyOf(c)] = c.risk
                /\ BookTypes(c) \subseteq DOMAIN c.playbooks /\ BooksToSave(c) = {}

\* A request that is answered has brought its content into the tables,
\* whatever requests that failed or were killed have left there before.
PostMirrors == [][Finishes => Mirrored]_vars

\* The import never takes an ack back, or over, that a user has made, unless
\* the rule itself goes; also when the user acks while autoacks are added.
UserAcksKept ==
  [][budget'.requests = budget.requests =>
       \A k \in DOMAIN acks : acks[k] = "user" /\ k[1] \in DOMAIN rules' =>
          k \in DOMAIN acks' /\ acks'[k] = "user"]_vars
=============================================================================
