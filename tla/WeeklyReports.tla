---------------------------- MODULE WeeklyReports ----------------------------
(***************************************************************************)
(* The weekly report by email: the subscriptions that users ask for        *)
(* (wrs_utils.py and the views that call it), and the command that sends   *)
(* the reports (weekly_report_emails.py), which goes through the           *)
(* organisations one after another and asks other services about their     *)
(* users.  Requests read whether there is a subscription and then write;   *)
(* nothing keeps them, or the users' standing, from changing under the     *)
(* command.                                                                *)
(*                                                                         *)
(* Instead of the time of the last email a subscription has its age, which *)
(* stops growing when nothing depends on it any more.                      *)
(***************************************************************************)
EXTENDS Integers, FiniteSets

CONSTANTS
  Users, Workers,
  Orgs,           \* organisations, numbers that give their order
  OrgsOf,         \* fixture: the organisations that a username is used in
  FirstSubs,      \* fixture: the subscriptions there may be at first
  Filters,        \* fixture: the organisations a run by hand may be for
  Unsteady,       \* fixture: what of a user's standing comes and goes
  MailRetryAttempts, MailMinimumHours, DeleteExpiredUsers, EnableAutosub,
  MaxElapsed,     \* bound: how much time passes during a run
  MaxRequests,    \* bound: requests and runs by hand
  MaxChanges,     \* bound: changes of users' standing and of systems
  MaxFaults       \* bound: failures

Never   == -1
MaxAge  == MailMinimumHours + MaxElapsed + 1
NoSub   == [org |-> Never]
Subscription == [org : Orgs, age : {Never} \cup 0..MaxAge, autosub : BOOLEAN, id : 0..MaxRequests]
Full    == {"known", "active", "address", "permitted"}

ASSUME WeeklyReportsAssumption ==
  /\ Orgs \subseteq Nat /\ IsFiniteSet(Orgs) /\ Filters \subseteq SUBSET Orgs
  /\ \A u \in Users : OrgsOf[u] \subseteq Orgs
  /\ FirstSubs \subseteq [Users -> {NoSub} \cup Subscription] /\ Unsteady \subseteq Full
  /\ MailRetryAttempts \in Nat \ {0} /\ MailMinimumHours \in Nat /\ MaxElapsed \in Nat
  /\ MaxRequests \in Nat /\ MaxChanges \in Nat /\ MaxFaults \in Nat
  /\ DeleteExpiredUsers \in BOOLEAN /\ EnableAutosub \in BOOLEAN

VARIABLES
  subs,           \* the subscription of each username
  excluded,       \* organisations excluded from automatic subscription
  standing,       \* what holds of each user in other services
  hosts,          \* organisations with systems
  run,            \* the run of the command
  job,            \* the request each worker is answering
  requests, changes, faults,   \* bounds
  history         \* of each user, what the properties are about

env    == <<excluded, standing, hosts>>
bounds == <<requests, changes, faults>>
vars   == <<subs, env, run, job, bounds, history>>

Older(age) == IF age \in {Never, MaxAge} THEN age ELSE age + 1
NoJob   == [step |-> "idle"]
NoRun   == [pc |-> "idle"]
\* A request that has read whether there is a subscription.
Writing == [step : {"write"}, user : Users, org : Orgs, want : BOOLEAN, auto : BOOLEAN, subscribed : BOOLEAN,
            number : 0..MaxRequests]
Asked   == requests < MaxRequests /\ requests' = requests + 1
Change  == changes < MaxChanges /\ changes' = changes + 1
Fault   == faults < MaxFaults /\ faults' = faults + 1
-----------------------------------------------------------------------------
(* update_wrs, which the weekly subscription, the automatic subscription and *)
(* the preferences call.                                                     *)

\* The automatic one needs a setting, and an organisation not excluded.
AutosubAllowed(o) == EnableAutosub /\ o \notin excluded

Ask(w) ==
  \E j \in Writing :
    /\ Asked /\ job[w] = NoJob /\ j.number = requests'
    /\ j.org \in OrgsOf[j.user]
    /\ j.auto => j.want /\ AutosubAllowed(j.org)
    /\ j.subscribed <=> subs[j.user].org = j.org
    /\ job' = [job EXCEPT ![w] = j]
    /\ UNCHANGED <<subs, env, run, changes, faults, history>>

\* update_or_create looks for a row like the new one; a username has one row
\* at most, whatever the organisation, and a second is refused.  A new row has
\* an identifier that no other has: the number of its request.
NewSub(j) == [org |-> j.org, age |-> Never, autosub |-> j.auto, id |-> j.number]
Alike(s, j) == s # NoSub /\ s.org = j.org /\ s.age = Never /\ s.autosub = j.auto

Write(w) ==
  LET j == job[w]
  IN  /\ j.step = "write"
      /\ CASE j.subscribed /\ ~ j.want ->
                /\ subs' = [subs EXCEPT ![j.user] = IF @.org = j.org THEN NoSub ELSE @]
                /\ UNCHANGED history
           [] ~ j.subscribed /\ j.want /\ subs[j.user] = NoSub ->
                /\ subs' = [subs EXCEPT ![j.user] = NewSub(j)]
                /\ history' = [history EXCEPT ![j.user].late = 0, ![j.user].doubt = TRUE]
           [] OTHER -> UNCHANGED <<subs, history>>
      /\ job' = [job EXCEPT ![w] = NoJob]
      /\ UNCHANGED <<env, run, bounds>>

\* Whether a request that finds a row is answered, rather than refused.
Answered(j) == ~ j.subscribed /\ j.want => subs[j.user] = NoSub \/ Alike(subs[j.user], j)

\* AutosubExclusionViewSet.create and .destroy.
Exclude ==
  \E o \in Orgs :
    /\ Asked /\ excluded' = IF o \in excluded THEN excluded \ {o} ELSE excluded \cup {o}
    /\ UNCHANGED <<subs, standing, hosts, run, job, changes, faults, history>>
-----------------------------------------------------------------------------
(* The command. *)

\* Variant: every subscription of an organisation with one that is due.
DueAlways(s, elapsed) == s # NoSub
\* No email in the hours before the run began.
Due(s, elapsed) == s # NoSub /\ (s.age = Never \/ s.age > MailMinimumHours + elapsed)

\* get_account_orgs.
AccountOrgs(filter) == {o \in filter : \E u \in Users : subs[u].org = o /\ Due(subs[u], 0)}

\* One run is at work at a time: nothing in handle sees to that, and a second
\* at the same time would send what the first is sending.
StartRun(filter) ==
  /\ run = NoRun /\ AccountOrgs(filter) # {}
  /\ run' = [pc |-> "next", todo |-> AccountOrgs(filter), elapsed |-> 0]
  /\ UNCHANGED <<subs, env, job, changes, faults, history>>
StartAll    == StartRun(Orgs) /\ UNCHANGED requests
StartByHand == \E f \in Filters : Asked /\ StartRun(f)

\* The state between two organisations.
NextOrg(todo) == [pc |-> "next", todo |-> todo, elapsed |-> run.elapsed]

\* get_users_to_email, the subscriptions.
ReadSubscriptions ==
  /\ run.pc = "next"
  /\ \/ run.todo = {} /\ run' = NoRun
     \/ \E o \in run.todo :
          LET due == {u \in Users : subs[u].org = o /\ Due(subs[u], run.elapsed)}
          IN  /\ \A p \in run.todo : o <= p
              /\ run' = [ pc |-> "check", todo |-> run.todo \ {o}, elapsed |-> run.elapsed, org |-> o,
                          rows |-> [u \in due |-> subs[u].id] ]
  /\ UNCHANGED <<subs, env, job, bounds, history>>

\* Variant: also those that will have the email.
ExpiredAll(due, receivers) == due
Expired(due, receivers) == due \ receivers

\* The users' details from the middleware, and their permissions, all at once
\* from Kessel or one by one from RBAC, where a failure is a refusal.
CheckUsers ==
  /\ run.pc = "check"
  /\ \E refused \in SUBSET DOMAIN run.rows :
       LET due       == DOMAIN run.rows
           receivers == {u \in due \ refused : standing[u] = Full}
       IN  /\ IF refused = {} THEN UNCHANGED faults ELSE Fault
           /\ run' = IF receivers = {} THEN NextOrg(run.todo)
                     ELSE [pc |-> "reports", todo |-> run.todo, elapsed |-> run.elapsed, org |-> run.org, rows |-> run.rows,
                           users |-> receivers, expired |-> Expired(due, receivers), user |-> {}, attempt |-> 1]
           /\ history' = [u \in Users |-> [history[u] EXCEPT !.fell = @ \/ u \in refused]]
  /\ UNCHANGED <<subs, env, job, requests, changes>>

\* user_account_details raises a ValidationError, and what is caught is
\* Http404: the run ends.
MiddlewareFails ==
  /\ run.pc = "check" /\ Fault /\ run' = NoRun
  /\ UNCHANGED <<subs, env, job, requests, changes, history>>

\* Variant: the command returns.
WithoutSystemsEnds(todo) == NoRun
WithoutSystems(todo) == NextOrg(todo)

GetReports ==
  /\ run.pc = "reports"
  /\ run' = IF run.org \in hosts THEN [run EXCEPT !.pc = "send"] ELSE WithoutSystems(run.todo)
  /\ UNCHANGED <<subs, env, job, bounds, history>>

\* History: a report has come to the user's mailbox.
Arrives(u) ==
  history' = [history EXCEPT ![u] =
    [history[u] EXCEPT !.late = IF subs[u] = NoSub THEN @ + 1 ELSE @, !.since = 0, !.doubt = TRUE,
                       !.twice = @ \/ (~ history[u].doubt /\ history[u].since \in 0..MailMinimumHours)]]

\* send_emails, an attempt for the user at hand, or the first for another.
Sending(u) == run.pc = "send" /\ u \in run.users /\ (run.user = {} \/ u \in run.user)

Send(u) ==
  /\ Sending(u) /\ run' = [run EXCEPT !.pc = "save", !.user = {u}]
  /\ Arrives(u)
  /\ UNCHANGED <<subs, env, job, bounds>>

\* An attempt that fails, before or after the email went out.
SendFails(u) ==
  /\ Sending(u) /\ Fault
  /\ run' = IF run.attempt < MailRetryAttempts THEN [run EXCEPT !.user = {u}, !.attempt = @ + 1]
            ELSE [run EXCEPT !.user = {}, !.attempt = 1, !.users = @ \ {u}]
  /\ Arrives(u) \/ UNCHANGED history
  /\ UNCHANGED <<subs, env, job, requests, changes>>

\* Variant: the row is inserted when it is not there.
SavedAnyway(u, id) == TRUE
\* save(update_fields=...) updates the row that was read, or raises an error,
\* which nothing catches.
SavedRow(u, id) == subs[u] # NoSub /\ subs[u].id = id

Save ==
  /\ run.pc = "save"
  /\ \E u \in run.user :
       IF SavedRow(u, run.rows[u])
       THEN /\ subs' = [subs EXCEPT ![u] = [org |-> run.org, age |-> 0, autosub |-> @ # NoSub /\ @.autosub, id |-> run.rows[u]]]
            /\ history' = [history EXCEPT ![u].doubt = FALSE]
            /\ run' = [run EXCEPT !.pc = "send", !.user = {}, !.attempt = 1, !.users = @ \ {u}]
       ELSE run' = NoRun /\ UNCHANGED <<subs, history>>
  /\ UNCHANGED <<env, job, bounds>>

\* The rows are found by organisation and username.
DeleteExpired ==
  /\ run.pc = "send" /\ run.users = {}
  /\ subs' = [u \in Users |-> IF DeleteExpiredUsers /\ u \in run.expired /\ subs[u].org = run.org THEN NoSub ELSE subs[u]]
  /\ run' = NextOrg(run.todo)
  /\ UNCHANGED <<env, job, bounds, history>>

\* The command's pod is stopped, or the command ends by another error.
Crash ==
  /\ run # NoRun /\ Fault /\ run' = NoRun
  /\ UNCHANGED <<subs, env, job, requests, changes, history>>
-----------------------------------------------------------------------------
(* Time, and the other services. *)

TimePasses ==
  /\ run # NoRun => run.elapsed < MaxElapsed
  /\ run' = IF run = NoRun THEN run ELSE [run EXCEPT !.elapsed = @ + 1]
  /\ subs' = [u \in Users |-> IF subs[u] = NoSub THEN NoSub ELSE [subs[u] EXCEPT !.age = Older(@)]]
  /\ history' = [u \in Users |-> [history[u] EXCEPT !.since = Older(@)]]
  /\ UNCHANGED <<env, job, bounds>>

StandingChanges ==
  \E u \in Users, q \in Unsteady :
    /\ Change
    /\ standing' = [standing EXCEPT ![u] = IF q \in @ THEN @ \ {q} ELSE @ \cup {q}]
    /\ history' = [history EXCEPT ![u].fell = TRUE]
    /\ UNCHANGED <<subs, excluded, hosts, run, job, requests, faults>>

SystemsChange ==
  \E o \in Orgs :
    /\ Change /\ hosts' = IF o \in hosts THEN hosts \ {o} ELSE hosts \cup {o}
    /\ UNCHANGED <<subs, excluded, standing, run, job, requests, faults, history>>
-----------------------------------------------------------------------------
Init ==
  /\ subs \in FirstSubs /\ excluded = {} /\ hosts = Orgs
  /\ standing = [u \in Users |-> Full]
  /\ run = NoRun /\ job = [w \in Workers |-> NoJob]
  /\ requests = 0 /\ changes = 0 /\ faults = 0
  /\ history = [u \in Users |-> [late |-> 0, since |-> Never, doubt |-> TRUE, twice |-> FALSE, fell |-> FALSE]]

Step ==
  \/ ReadSubscriptions \/ CheckUsers \/ GetReports \/ Save \/ DeleteExpired
  \/ \E u \in Users : Send(u)
Next ==
  \/ StartAll \/ StartByHand \/ Step \/ MiddlewareFails \/ Crash \/ \E u \in Users : SendFails(u)
  \/ \E w \in Workers : Ask(w) \/ Write(w)
  \/ Exclude \/ TimePasses \/ StandingChanges \/ SystemsChange

\* The command runs again and again, and goes on while nothing fails.
Fairness == WF_vars(StartAll) /\ WF_vars(Step) /\ WF_vars(TimePasses)
Spec == Init /\ [][Next]_vars /\ Fairness
-----------------------------------------------------------------------------
(* Properties. *)

TableType ==
  /\ subs \in [Users -> {NoSub} \cup Subscription]
  /\ excluded \subseteq Orgs /\ hosts \subseteq Orgs /\ standing \in [Users -> SUBSET Full]
\* What the command holds: between two organisations, of one whose users it is
\* about to check, and of one that it mails.
Rows     == UNION {[due -> 0..MaxRequests] : due \in SUBSET Users}
Between  == [pc : {"next"}, todo : SUBSET Orgs, elapsed : 0..MaxElapsed]
Checking == [pc : {"check"}, todo : SUBSET Orgs, elapsed : 0..MaxElapsed, org : Orgs, rows : Rows]
Mailing  == [pc : {"reports", "send", "save"}, todo : SUBSET Orgs, elapsed : 0..MaxElapsed, org : Orgs,
             rows : Rows, users : SUBSET Users, expired : SUBSET Users, user : SUBSET Users,
             attempt : 1..MailRetryAttempts]
RunType  == run \in {NoRun} \cup Between \cup Checking \cup Mailing
JobType == job \in [Workers -> {NoJob} \cup Writing]
BoundType == requests \in 0..MaxRequests /\ changes \in 0..MaxChanges /\ faults \in 0..MaxFaults
HistoryType ==
  history \in [Users -> [late : Nat, since : {Never} \cup 0..MaxAge, doubt : BOOLEAN,
                        twice : BOOLEAN, fell : BOOLEAN]]

\* Every variable has its type.
TypeOK == TableType /\ RunType /\ JobType /\ BoundType /\ HistoryType

\* Nobody has two reports within the minimum of hours, but after a crash, a
\* send that failed late, or a new subscription (handle_emails).
NotTwice == \A u \in Users : ~ history[u].twice

\* Who has unsubscribed has the reports that a run was sending, at most the
\* attempts of one run and of no later one (send_emails, update_wrs).
StopsAfterUnsubscribing == \A u \in Users : history[u].late <= MailRetryAttempts

\* An action property: the command deletes no subscription of a user whom the
\* other services have always granted the report (delete_expired_users).
\* A lookup that fails counts as a refusal, as it does in the code, and its
\* user may be deleted.
KeepsTheEntitled ==
  [][\A u \in Users : run.pc = "send" /\ subs[u] # NoSub /\ subs'[u] = NoSub /\ job' = job => history[u].fell]_vars

\* A user who is due for a report, and may have it, has one in the end, or
\* stops being due: the organisations that come before, without systems or
\* without receivers, do not end the run (handle_emails).  A failure of the
\* middleware does end it, and failures are bounded: what fails in every run
\* would keep the organisations after it from ever being served.
Entitled(u) == standing[u] = Full /\ subs[u].org \in hosts
ReportsKeepComing == \A u \in Users : []<>(Entitled(u) => ~ Due(subs[u], 0))
=============================================================================
