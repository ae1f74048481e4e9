------------------------ MODULE WeeklyReports_proofs ------------------------
(***************************************************************************)
(* Theorems about the weekly reports, for any users, organisations, runs,  *)
(* requests and failures: types, that the command deletes nobody's         *)
(* subscription who has been entitled to it all the time, that nobody has  *)
(* two reports within the minimum of hours, and that reports stop after    *)
(* unsubscribing.                                                          *)
(***************************************************************************)
EXTENDS WeeklyReports, TLAPS

\* Who has no full standing, or is about to be deleted, was refused once.
Refused == \A u \in Users : standing[u] # Full => history[u].fell
Expiring == run.pc \in {"reports", "send", "save"} => \A u \in Users : u \in run.expired => history[u].fell

IInv == TypeOK /\ Refused /\ Expiring

\* Ages stay in their bounds.
LEMMA OlderType ==
  ASSUME NEW age \in {Never} \cup 0..MaxAge
  PROVE  Older(age) \in {Never} \cup 0..MaxAge
BY WeeklyReportsAssumption DEF WeeklyReportsAssumption, Older, Never, MaxAge

\* The requests.
LEMMA RequestKeeps ==
  ASSUME IInv, NEW w \in Workers, Ask(w) \/ Write(w)
  PROVE  IInv'
<1> USE DEF IInv, TypeOK
<1>1. CASE Ask(w)
  <2>1. PICK j \in Writing : Asked /\ job' = [job EXCEPT ![w] = j]
    BY <1>1 DEF Ask
  <2>2. UNCHANGED <<subs, env, run, changes, faults, history>>
    BY <1>1 DEF Ask
  <2>3. BoundType'
    BY <2>1, <2>2, WeeklyReportsAssumption DEF WeeklyReportsAssumption, BoundType, Asked
  <2> QED
    BY <2>1, <2>2, <2>3 DEF TableType, RunType, JobType, HistoryType, Refused, Expiring, env
<1>2. CASE Write(w)
  <2> DEFINE j == job[w]
  <2>1. /\ j \in Writing
        /\ requests \in 0..MaxRequests
    BY <1>2 DEF Write, JobType, Writing, NoJob, BoundType
  <2>2. JobType' /\ UNCHANGED <<env, run, bounds>>
    BY <1>2 DEF Write, JobType
  <2>3. /\ subs' \in [Users -> {NoSub} \cup Subscription]
        /\ HistoryType' /\ \A u \in Users : history'[u].fell = history[u].fell
    <3>1. CASE subs' = [subs EXCEPT ![j.user] = IF @.org = j.org THEN NoSub ELSE @] /\ UNCHANGED history
      BY <2>1, <3>1 DEF TableType, HistoryType
    <3>2. CASE /\ subs' = [subs EXCEPT ![j.user] = NewSub(j)]
               /\ history' = [history EXCEPT ![j.user].late = 0, ![j.user].doubt = TRUE]
      <4>1. NewSub(j) \in Subscription
        BY <2>1 DEF NewSub, Subscription, Writing, Never
      <4> QED
        BY <2>1, <3>2, <4>1 DEF TableType, HistoryType
    <3>3. CASE UNCHANGED <<subs, history>>
      BY <3>3 DEF TableType, HistoryType
    <3> QED
      BY <1>2, <3>1, <3>2, <3>3 DEF Write
  <2> QED
    BY <2>2, <2>3 DEF TableType, RunType, BoundType, Refused, Expiring, env, bounds
<1> QED
  BY <1>1, <1>2

\* A run that ends.
LEMMA EndType ==
  ASSUME run' = NoRun
  PROVE  RunType' /\ Expiring'
<1>1. NoRun.pc = "idle"
  BY DEF NoRun
<1> QED
  BY <1>1 DEF RunType, Expiring

\* A run that starts.
LEMMA StartType ==
  ASSUME NEW filter \in SUBSET Orgs, StartRun(filter)
  PROVE  RunType' /\ Expiring'
<1>1. run' = [pc |-> "next", todo |-> AccountOrgs(filter), elapsed |-> 0]
  BY DEF StartRun
<1>2. AccountOrgs(filter) \subseteq Orgs
  BY DEF AccountOrgs
<1>3. 0 \in 0..MaxElapsed
  BY WeeklyReportsAssumption DEF WeeklyReportsAssumption
<1>4. run' \in Between
  BY <1>1, <1>2, <1>3 DEF Between
<1> QED
  BY <1>4 DEF RunType, Expiring, Between

\* Steps of the command that read.
LEMMA ReadingKeeps ==
  ASSUME IInv, (\E filter \in SUBSET Orgs : StartRun(filter)) \/ ReadSubscriptions \/ MiddlewareFails
                 \/ GetReports \/ Crash,
         BoundType'
  PROVE  IInv'
<1> USE DEF IInv, TypeOK
<1>1. UNCHANGED <<subs, env, job, history>>
  BY DEF StartRun, ReadSubscriptions, MiddlewareFails, GetReports, Crash
<1>2. TableType' /\ JobType' /\ HistoryType' /\ Refused'
  BY <1>1 DEF TableType, JobType, HistoryType, Refused, env
<1>3. ASSUME NEW filter \in SUBSET Orgs, StartRun(filter) PROVE RunType' /\ Expiring'
  BY <1>3, StartType
<1>4. CASE ReadSubscriptions
  <2>1. CASE run' = NoRun
    BY <1>2, <2>1, EndType
  <2>2. ASSUME NEW o \in run.todo, NEW due,
               due = {u \in Users : subs[u].org = o /\ Due(subs[u], run.elapsed)},
               run' = [ pc |-> "check", todo |-> run.todo \ {o}, elapsed |-> run.elapsed, org |-> o,
                        rows |-> [u \in due |-> subs[u].id] ]
        PROVE  RunType' /\ Expiring'
    <3>1. run \in Between
      BY <1>4 DEF ReadSubscriptions, RunType, NoRun, Checking, Mailing
    <3>2. \A u \in due : subs[u] \in Subscription
      BY <2>2 DEF TableType, Due
    <3>3. [u \in due |-> subs[u].id] \in [due -> 0..MaxRequests]
      BY <3>2 DEF Subscription
    <3> QED
      BY <2>2, <3>1, <3>3 DEF RunType, Expiring, Between, Checking, Rows
  <2> QED
    <3>1. run' = NoRun \/ \E o \in run.todo :
            LET due == {u \in Users : subs[u].org = o /\ Due(subs[u], run.elapsed)}
            IN  run' = [ pc |-> "check", todo |-> run.todo \ {o}, elapsed |-> run.elapsed, org |-> o,
                         rows |-> [u \in due |-> subs[u].id] ]
      BY <1>4, Zenon DEF ReadSubscriptions
    <3>2. RunType' /\ Expiring'
      BY <2>1, <2>2, <3>1, EndType
    <3> QED
      BY <1>2, <3>2
<1>5. CASE GetReports
  <2>1. run \in Mailing
    BY <1>5 DEF GetReports, RunType, NoRun, Between, Checking
  <2> QED
    BY <1>1, <1>2, <1>5, <2>1 DEF GetReports, WithoutSystems, NextOrg, RunType, Expiring, Between, Mailing
<1>6. CASE MiddlewareFails \/ Crash
  BY <1>2, <1>6, EndType DEF MiddlewareFails, Crash
<1> QED
  BY <1>2, <1>3, <1>4, <1>5, <1>6

\* Who is not among the receivers has no full standing, or was refused just now.
LEMMA CheckKeeps ==
  ASSUME IInv, CheckUsers, BoundType'
  PROVE  IInv'
<1> USE DEF IInv, TypeOK
<1>1. run \in Checking
  BY DEF CheckUsers, RunType, NoRun, Between, Mailing
<1>2. UNCHANGED <<subs, env, job>>
  BY DEF CheckUsers
<1>3. PICK refused \in SUBSET DOMAIN run.rows :
        LET due       == DOMAIN run.rows
            receivers == {u \in due \ refused : standing[u] = Full}
        IN  /\ run' = IF receivers = {} THEN NextOrg(run.todo)
                      ELSE [pc |-> "reports", todo |-> run.todo, elapsed |-> run.elapsed, org |-> run.org,
                            rows |-> run.rows, users |-> receivers, expired |-> Expired(due, receivers),
                            user |-> {}, attempt |-> 1]
            /\ history' = [u \in Users |-> [history[u] EXCEPT !.fell = @ \/ u \in refused]]
  BY DEF CheckUsers
<1> DEFINE due       == DOMAIN run.rows
           receivers == {u \in due \ refused : standing[u] = Full}
<1>4. due \subseteq Users
  BY <1>1 DEF Checking, Rows
<1>5. HistoryType' /\ \A u \in Users : history'[u].fell <=> history[u].fell \/ u \in refused
  <2>1. \A u \in Users : history[u] \in [late : Nat, since : {Never} \cup 0..MaxAge, doubt : BOOLEAN,
                                        twice : BOOLEAN, fell : BOOLEAN]
    BY DEF HistoryType
  <2>2. \A u \in Users : /\ history'[u] = [history[u] EXCEPT !.fell = @ \/ u \in refused]
                         /\ (history[u].fell \/ u \in refused) \in BOOLEAN
    BY <1>3
  <2>3. history' = [u \in Users |-> history'[u]]
    BY <1>3
  <2>4. ASSUME NEW u \in Users
        PROVE  /\ history'[u] \in [late : Nat, since : {Never} \cup 0..MaxAge, doubt : BOOLEAN,
                                   twice : BOOLEAN, fell : BOOLEAN]
               /\ history'[u].fell <=> history[u].fell \/ u \in refused
    BY <2>1, <2>2
  <2> QED
    BY <2>3, <2>4 DEF HistoryType
<1>6. TableType' /\ JobType' /\ Refused'
  BY <1>2, <1>5 DEF TableType, JobType, Refused, env
<1>7. RunType' /\ Expiring'
  <2>1. CASE receivers = {}
    <3>1. run' \in Between
      BY <1>1, <1>3, <2>1 DEF NextOrg, Between, Checking
    <3> QED
      BY <3>1 DEF RunType, Expiring, Between
  <2>2. CASE receivers # {}
    <3>1. run' = [pc |-> "reports", todo |-> run.todo, elapsed |-> run.elapsed, org |-> run.org,
                  rows |-> run.rows, users |-> receivers, expired |-> due \ receivers,
                  user |-> {}, attempt |-> 1]
      BY <1>3, <2>2 DEF Expired
    <3>2. run' \in Mailing
      BY <1>1, <1>4, <3>1, WeeklyReportsAssumption DEF WeeklyReportsAssumption, Checking, Mailing
    <3>3. \A u \in due \ receivers : history'[u].fell
      BY <1>4, <1>5 DEF Refused
    <3> QED
      BY <3>1, <3>2, <3>3 DEF RunType, Expiring
  <2> QED
    BY <2>1, <2>2
<1> QED
  BY <1>5, <1>6, <1>7

\* A report that comes does not make anybody refused, or forget it.
LEMMA ArrivesKeeps ==
  ASSUME HistoryType, NEW u \in Users, Arrives(u)
  PROVE  HistoryType' /\ \A v \in Users : history'[v].fell = history[v].fell
<1> DEFINE late  == IF subs[u] = NoSub THEN history[u].late + 1 ELSE history[u].late
           twice == history[u].twice \/ (~ history[u].doubt /\ history[u].since \in 0..MailMinimumHours)
<1>1. late \in Nat
  BY DEF HistoryType
<1>2. twice \in BOOLEAN
  BY Zenon
<1>3. 0 \in 0..MaxAge
  BY WeeklyReportsAssumption DEF WeeklyReportsAssumption, MaxAge
<1> DEFINE new == [history[u] EXCEPT !.late = late, !.since = 0, !.doubt = TRUE, !.twice = twice]
<1>4. history' = [history EXCEPT ![u] = new]
  BY Zenon DEF Arrives
<1> HIDE DEF late, twice
<1>5. /\ new \in [late : Nat, since : {Never} \cup 0..MaxAge, doubt : BOOLEAN, twice : BOOLEAN, fell : BOOLEAN]
      /\ new.fell = history[u].fell
  BY <1>1, <1>2, <1>3 DEF HistoryType
<1> HIDE DEF new
<1> QED
  BY <1>4, <1>5 DEF HistoryType

\* The next user is at hand, at the first attempt.
LEMMA AttemptOver ==
  ASSUME run \in Mailing, NEW u,
         run' = [run EXCEPT !.pc = "send", !.user = {}, !.attempt = 1, !.users = @ \ {u}]
  PROVE  run' \in Mailing /\ run'.expired = run.expired
<1>1. 1 \in 1..MailRetryAttempts
  BY WeeklyReportsAssumption DEF WeeklyReportsAssumption
<1> QED
  BY <1>1 DEF Mailing

\* Steps that send.
LEMMA SendingKeeps ==
  ASSUME IInv, NEW u \in Users, Send(u) \/ SendFails(u), BoundType'
  PROVE  IInv'
<1> USE DEF IInv, TypeOK
<1>1. run \in Mailing /\ run.pc = "send" /\ u \in run.users
  <2>1. Sending(u)
    BY Zenon DEF Send, SendFails
  <2> QED
    BY <2>1 DEF Sending, RunType, NoRun, Between, Checking
<1>2. UNCHANGED <<subs, env, job>>
  BY DEF Send, SendFails
<1>3. HistoryType' /\ \A v \in Users : history'[v].fell = history[v].fell
  <2>1. Arrives(u) \/ UNCHANGED history
    BY DEF Send, SendFails
  <2> QED
    BY <2>1, ArrivesKeeps DEF HistoryType
<1>4. run' \in Mailing /\ run'.expired = run.expired
  <2>1. CASE Send(u)
    BY <1>1, <2>1 DEF Send, Mailing
  <2>2. CASE SendFails(u)
    <3>1. ASSUME run.attempt < MailRetryAttempts, run' = [run EXCEPT !.user = {u}, !.attempt = @ + 1]
          PROVE  run' \in Mailing /\ run'.expired = run.expired
      <4>1. run.attempt + 1 \in 1..MailRetryAttempts
        BY <1>1, <3>1, WeeklyReportsAssumption DEF WeeklyReportsAssumption, Mailing
      <4> DEFINE n == run.attempt + 1
      <4>2. run' = [run EXCEPT !.user = {u}, !.attempt = n]
        BY <1>1, <3>1 DEF Mailing
      <4> HIDE DEF n
      <4> QED
        BY <1>1, <4>1, <4>2 DEF Mailing, n
    <3>2. ASSUME run' = [run EXCEPT !.user = {}, !.attempt = 1, !.users = @ \ {u}]
          PROVE  run' \in Mailing /\ run'.expired = run.expired
      <4>1. run' = [run EXCEPT !.pc = "send", !.user = {}, !.attempt = 1, !.users = @ \ {u}]
        BY <1>1, <3>2 DEF Mailing
      <4> QED
        BY <1>1, <4>1, AttemptOver
    <3> QED
      BY <2>2, <3>1, <3>2 DEF SendFails
  <2> QED
    BY <2>1, <2>2
<1>5. RunType' /\ Expiring'
  BY <1>1, <1>3, <1>4 DEF RunType, Expiring, Mailing
<1> QED
  BY <1>2, <1>3, <1>5 DEF TableType, JobType, Refused, env

\* Marking a subscription as served, or the end of the run where it is gone.
LEMMA SaveKeeps ==
  ASSUME IInv, Save
  PROVE  IInv'
<1> USE DEF IInv, TypeOK
<1>1. run \in Mailing /\ run.pc = "save"
  BY DEF Save, RunType, NoRun, Between, Checking
<1>2. UNCHANGED <<env, job, bounds>>
  BY DEF Save
<1>3. CASE run' = NoRun /\ UNCHANGED <<subs, history>>
  BY <1>2, <1>3, EndType DEF TableType, JobType, BoundType, HistoryType, Refused, env, bounds
<1>4. ASSUME NEW u \in run.user, SavedRow(u, run.rows[u]),
             subs' = [subs EXCEPT ![u] = [org |-> run.org, age |-> 0,
                                          autosub |-> @ # NoSub /\ @.autosub, id |-> run.rows[u]]],
             history' = [history EXCEPT ![u].doubt = FALSE],
             run' = [run EXCEPT !.pc = "send", !.user = {}, !.attempt = 1, !.users = @ \ {u}]
      PROVE  IInv'
  <2>1. u \in Users /\ run.org \in Orgs
    BY <1>1 DEF Mailing
  <2>2. subs[u] \in Subscription /\ subs[u].id = run.rows[u]
    BY <1>4, <2>1 DEF SavedRow, TableType
  <2>3. /\ 0 \in 0..MaxAge /\ subs[u].id \in 0..MaxRequests
        /\ (subs[u] # NoSub /\ subs[u].autosub) \in BOOLEAN
    BY <2>2, WeeklyReportsAssumption DEF WeeklyReportsAssumption, Subscription, MaxAge
  <2> DEFINE autosub == subs[u] # NoSub /\ subs[u].autosub
             new == [org |-> run.org, age |-> 0, autosub |-> autosub, id |-> run.rows[u]]
  <2>4. new \in Subscription
    <3>1. autosub \in BOOLEAN /\ run.rows[u] \in 0..MaxRequests
      BY <2>2, <2>3
    <3> HIDE DEF autosub
    <3> QED
      BY <2>1, <2>3, <3>1 DEF Subscription
  <2>5. subs' = [subs EXCEPT ![u] = new]
    BY <1>4, <2>1 DEF TableType
  <2>6. TableType'
    <3> HIDE DEF new
    <3> QED
      BY <1>2, <2>1, <2>4, <2>5 DEF TableType, env
  <2>7. HistoryType' /\ \A v \in Users : history'[v].fell = history[v].fell
    BY <1>4, <2>1 DEF HistoryType
  <2>8. run' \in Mailing /\ run'.expired = run.expired
    BY <1>1, <1>4, AttemptOver
  <2> QED
    BY <1>1, <1>2, <2>6, <2>7, <2>8 DEF RunType, JobType, BoundType, Refused, Expiring, env, bounds
<1> QED
  BY <1>3, <1>4 DEF Save

\* The end of an organisation.
LEMMA DeleteKeeps ==
  ASSUME IInv, DeleteExpired
  PROVE  IInv'
<1> USE DEF IInv, TypeOK
<1>1. run \in Mailing
  BY DEF DeleteExpired, RunType, NoRun, Between, Checking
<1>2. run' \in Between
  BY <1>1 DEF DeleteExpired, NextOrg, Between, Mailing
<1>3. RunType' /\ Expiring'
  BY <1>2 DEF RunType, Expiring, Between
<1>4. TableType'
  BY DEF DeleteExpired, TableType, env
<1> QED
  BY <1>3, <1>4 DEF DeleteExpired, JobType, BoundType, HistoryType, Refused, env, bounds

\* Time, and the other services.
LEMMA OutsideKeeps ==
  ASSUME IInv, Exclude \/ TimePasses \/ StandingChanges \/ SystemsChange
  PROVE  IInv'
<1> USE DEF IInv, TypeOK
<1>1. CASE Exclude
  <2>1. BoundType'
    BY <1>1, WeeklyReportsAssumption DEF WeeklyReportsAssumption, Exclude, Asked, BoundType
  <2> QED
    BY <1>1, <2>1 DEF Exclude, TableType, RunType, JobType, HistoryType, Refused, Expiring
<1>2. CASE TimePasses
  <2>1. TableType' /\ BoundType' /\ JobType' /\ UNCHANGED standing
    <3>1. ASSUME NEW u \in Users, subs[u] # NoSub
          PROVE  [subs[u] EXCEPT !.age = Older(@)] \in Subscription
      <4>1. subs[u] \in Subscription
        BY <3>1 DEF TableType
      <4>2. Older(subs[u].age) \in {Never} \cup 0..MaxAge
        BY <4>1, OlderType DEF Subscription
      <4> QED
        BY <4>1, <4>2 DEF Subscription
    <3> QED
      BY <1>2, <3>1 DEF TimePasses, TableType, BoundType, JobType, env, bounds
  <2>2. HistoryType' /\ \A u \in Users : history'[u].fell = history[u].fell
    <3>1. ASSUME NEW u \in Users
          PROVE  /\ history'[u] \in [late : Nat, since : {Never} \cup 0..MaxAge, doubt : BOOLEAN,
                                     twice : BOOLEAN, fell : BOOLEAN]
                 /\ history'[u].fell = history[u].fell
      <4>1. Older(history[u].since) \in {Never} \cup 0..MaxAge
        BY OlderType DEF HistoryType
      <4>2. history'[u] = [history[u] EXCEPT !.since = Older(@)]
        BY <1>2 DEF TimePasses
      <4> QED
        BY <4>1, <4>2 DEF HistoryType
    <3>2. history' = [u \in Users |-> history'[u]]
      BY <1>2 DEF TimePasses
    <3> QED
      BY <3>1, <3>2 DEF HistoryType
  <2>3. RunType' /\ Expiring'
    <3>1. CASE run = NoRun
      BY <1>2, <3>1, EndType DEF TimePasses
    <3>2. CASE run # NoRun
      <4>1. /\ run \in Between \cup Checking \cup Mailing
            /\ run' = [run EXCEPT !.elapsed = @ + 1]
            /\ run.elapsed < MaxElapsed
        BY <1>2, <3>2, Zenon DEF TimePasses, RunType
      <4> DEFINE n == run.elapsed + 1
      <4>2. n \in 0..MaxElapsed
        BY <4>1, WeeklyReportsAssumption DEF WeeklyReportsAssumption, Between, Checking, Mailing
      <4>3. run' = [run EXCEPT !.elapsed = n]
        BY <4>1
      <4> HIDE DEF n
      <4>4. CASE run \in Between
        <5>1. run' \in Between
          BY <4>4, <4>2, <4>3 DEF Between
        <5> QED
          BY <5>1 DEF RunType, Expiring, Between
      <4>5. CASE run \in Checking
        <5>1. run' \in Checking
          BY <4>5, <4>2, <4>3 DEF Checking
        <5> QED
          BY <5>1 DEF RunType, Expiring, Checking
      <4>6. CASE run \in Mailing
        <5>1. run' \in Mailing /\ run'.expired = run.expired
          BY <4>6, <4>2, <4>3 DEF Mailing
        <5> QED
          BY <2>2, <4>6, <5>1 DEF RunType, Expiring, Mailing
      <4> QED
        BY <4>1, <4>4, <4>5, <4>6
    <3> QED
      BY <3>1, <3>2
  <2> QED
    BY <2>1, <2>2, <2>3 DEF Refused
<1>3. CASE StandingChanges
  <2>1. PICK u \in Users, q \in Unsteady :
          /\ Change
          /\ standing' = [standing EXCEPT ![u] = IF q \in @ THEN @ \ {q} ELSE @ \cup {q}]
          /\ history' = [history EXCEPT ![u].fell = TRUE]
          /\ UNCHANGED <<subs, excluded, hosts, run, job, requests, faults>>
    BY <1>3 DEF StandingChanges
  <2>2. HistoryType' /\ \A v \in Users : history'[v].fell <=> history[v].fell \/ v = u
    BY <2>1 DEF HistoryType
  <2>3. TableType' /\ BoundType'
    BY <2>1, WeeklyReportsAssumption DEF WeeklyReportsAssumption, TableType, BoundType, Change
  <2>4. Refused' /\ Expiring'
    BY <2>1, <2>2 DEF Refused, Expiring, TableType
  <2> QED
    BY <2>1, <2>2, <2>3, <2>4 DEF RunType, JobType
<1>4. CASE SystemsChange
  <2>1. PICK o \in Orgs :
          /\ Change /\ hosts' = IF o \in hosts THEN hosts \ {o} ELSE hosts \cup {o}
          /\ UNCHANGED <<subs, excluded, standing, run, job, requests, faults, history>>
    BY <1>4 DEF SystemsChange
  <2>2. BoundType'
    BY <2>1, WeeklyReportsAssumption DEF WeeklyReportsAssumption, Change, BoundType
  <2>3. TableType'
    BY <2>1 DEF TableType
  <2> QED
    BY <2>1, <2>2, <2>3 DEF RunType, JobType, HistoryType, Refused, Expiring
<1> QED
  BY <1>1, <1>2, <1>3, <1>4

LEMMA InitHolds == Init => IInv
<1> SUFFICES ASSUME Init PROVE IInv
  OBVIOUS
<1>1. TableType /\ BoundType /\ JobType
  BY WeeklyReportsAssumption DEF WeeklyReportsAssumption, Init, TableType, BoundType, JobType
<1>2. HistoryType
  BY WeeklyReportsAssumption DEF WeeklyReportsAssumption, Init, HistoryType, MaxAge
<1>3. RunType /\ Refused /\ Expiring
  BY DEF Init, RunType, Refused, Expiring, NoRun
<1> QED
  BY <1>1, <1>2, <1>3 DEF IInv, TypeOK

\* What a step of the command, or one that starts it, does to the counters.
LEMMA BoundKept ==
  ASSUME BoundType, Next, ~ \E w \in Workers : Ask(w) \/ Write(w)
  PROVE  BoundType'
<1>1. CASE UNCHANGED bounds
  BY <1>1 DEF BoundType, bounds
<1>2. CASE Asked /\ UNCHANGED <<changes, faults>>
  BY <1>2, WeeklyReportsAssumption DEF WeeklyReportsAssumption, BoundType, Asked
<1>3. CASE Change /\ UNCHANGED <<requests, faults>>
  BY <1>3, WeeklyReportsAssumption DEF WeeklyReportsAssumption, BoundType, Change
<1>4. CASE Fault /\ UNCHANGED <<requests, changes>>
  BY <1>4, WeeklyReportsAssumption DEF WeeklyReportsAssumption, BoundType, Fault
<1>5. CASE StartAll \/ StartByHand
  BY <1>1, <1>2, <1>5 DEF StartAll, StartByHand, StartRun, bounds
<1>6. CASE Step
  BY <1>1, <1>4, <1>6
     DEF Step, ReadSubscriptions, CheckUsers, GetReports, Save, DeleteExpired, Send, bounds
<1>7. CASE MiddlewareFails \/ Crash \/ \E u \in Users : SendFails(u)
  BY <1>4, <1>7 DEF MiddlewareFails, Crash, SendFails
<1>8. CASE Exclude \/ TimePasses \/ StandingChanges \/ SystemsChange
  BY <1>1, <1>2, <1>3, <1>8 DEF Exclude, TimePasses, StandingChanges, SystemsChange, bounds
<1> QED
  BY <1>5, <1>6, <1>7, <1>8 DEF Next

LEMMA NextKeeps == IInv /\ [Next]_vars => IInv'
<1> SUFFICES ASSUME IInv, [Next]_vars PROVE IInv'
  OBVIOUS
<1>1. CASE UNCHANGED vars
  BY <1>1 DEF IInv, TypeOK, TableType, RunType, JobType, BoundType, HistoryType, Refused, Expiring,
              vars, env, bounds
<1>2. CASE \E w \in Workers : Ask(w) \/ Write(w)
  BY <1>2, RequestKeeps
<1>3. CASE Next /\ ~ \E w \in Workers : Ask(w) \/ Write(w)
  <2>1. BoundType'
    BY <1>3, BoundKept DEF IInv, TypeOK
  <2>2. CASE StartAll \/ StartByHand
    <3>1. \E filter \in SUBSET Orgs : StartRun(filter)
      BY <2>2, WeeklyReportsAssumption DEF WeeklyReportsAssumption, StartAll, StartByHand
    <3> QED
      BY <2>1, <3>1, ReadingKeeps
  <2>3. CASE Step
    BY <2>1, <2>3, ReadingKeeps, CheckKeeps, SaveKeeps, DeleteKeeps, SendingKeeps DEF Step
  <2>4. CASE MiddlewareFails \/ Crash \/ \E u \in Users : SendFails(u)
    BY <2>1, <2>4, ReadingKeeps, SendingKeeps
  <2>5. CASE Exclude \/ TimePasses \/ StandingChanges \/ SystemsChange
    BY <2>5, OutsideKeeps
  <2> QED
    BY <1>3, <2>2, <2>3, <2>4, <2>5 DEF Next
<1> QED
  BY <1>1, <1>2, <1>3

LEMMA InvariantHolds == Spec => []IInv
<1> QED
  BY InitHolds, NextKeeps, PTL DEF Spec

\* Every variable of the weekly reports has its type in every state: the
\* subscriptions, the requests being answered, and what the command holds of
\* the organisation it is at.
THEOREM TypeCorrect == Spec => []TypeOK
<1>1. IInv => TypeOK
  BY DEF IInv
<1> QED
  BY <1>1, InvariantHolds, PTL

\* A step of the command, or of time, that removes a subscription: it is one
\* of a user who was refused before.
LEMMA RemovesTheRefused ==
  ASSUME IInv, [Next]_vars, NEW u \in Users, run.pc = "send", subs[u] # NoSub, subs'[u] = NoSub, job' = job
  PROVE  history[u].fell
<1>1. CASE UNCHANGED subs
  BY <1>1
<1>2. ASSUME NEW w \in Workers, Write(w) PROVE FALSE
  <2>1. job[w].step = "write" /\ job'[w] = NoJob
    BY <1>2 DEF Write, IInv, TypeOK, JobType
  <2> QED
    BY <2>1 DEF NoJob
<1>3. ASSUME Save PROVE FALSE
  BY <1>3 DEF Save
<1>4. CASE DeleteExpired
  BY <1>4 DEF DeleteExpired, IInv, Expiring
<1>5. ASSUME TimePasses PROVE FALSE
  <2>1. subs[u] \in Subscription /\ subs'[u] = [subs[u] EXCEPT !.age = Older(@)]
    BY <1>5 DEF TimePasses, IInv, TypeOK, TableType
  <2>2. subs'[u].org \in Nat
    BY <2>1, WeeklyReportsAssumption DEF WeeklyReportsAssumption, Subscription
  <2> QED
    BY <2>2 DEF NoSub, Never
<1> QED
  <2>1. UNCHANGED vars => UNCHANGED subs
    BY DEF vars
  <2>2. StartAll \/ StartByHand => UNCHANGED subs
    BY DEF StartAll, StartByHand, StartRun
  <2>3. Step => Save \/ DeleteExpired \/ UNCHANGED subs
    BY DEF Step, ReadSubscriptions, CheckUsers, GetReports, Send
  <2>4. MiddlewareFails \/ Crash \/ (\E v \in Users : SendFails(v)) => UNCHANGED subs
    BY DEF MiddlewareFails, Crash, SendFails
  <2>5. ASSUME NEW w \in Workers, Ask(w) PROVE UNCHANGED subs
    BY <2>5 DEF Ask
  <2>6. Exclude \/ StandingChanges \/ SystemsChange => UNCHANGED subs
    BY DEF Exclude, StandingChanges, SystemsChange
  <2> QED
    BY <1>1, <1>2, <1>3, <1>4, <1>5, <2>1, <2>2, <2>3, <2>4, <2>5, <2>6 DEF Next

\* With the deletion of expired users, the command deletes the subscriptions
\* of an organisation's users who were not granted the report, and of nobody
\* to whom the other services have always granted it (delete_expired_users).
THEOREM EntitledKept == Spec => KeepsTheEntitled
<1>1. IInv /\ [Next]_vars =>
        [\A u \in Users : run.pc = "send" /\ subs[u] # NoSub /\ subs'[u] = NoSub /\ job' = job
                           => history[u].fell]_vars
  BY RemovesTheRefused
<1> QED
  BY <1>1, InvariantHolds, PTL DEF Spec, KeepsTheEntitled
-----------------------------------------------------------------------------
(* Nobody has two reports within the minimum of hours.  A subscription whose *)
(* last report is not in doubt is at most as old as that report, so that who *)
(* is due for a report had none in these hours; and whom the command is to   *)
(* mail has had none since.                                                  *)

Marked ==
  \A u \in Users : ~ history[u].doubt =>
    /\ history[u].since # Never
    /\ subs[u] # NoSub => subs[u].age # Never /\ subs[u].age <= history[u].since
Ripe(u) == history[u].doubt \/ history[u].since > MailMinimumHours
Fresh ==
  /\ run.pc = "check" => \A u \in DOMAIN run.rows : Ripe(u)
  /\ run.pc \in {"reports", "send", "save"} => \A u \in run.users : Ripe(u)
  /\ run.pc = "save" => \A u \in run.user : history[u].since # Never
Spaced == Marked /\ Fresh /\ NotTwice

\* What a step leaves alone that changes of a user's history at most the rest.
Same(u) == /\ history'[u].doubt = history[u].doubt /\ history'[u].since = history[u].since
           /\ history'[u].twice = history[u].twice

LEMMA SameKeeps ==
  ASSUME Marked, NotTwice, \A u \in Users : Same(u) /\ subs'[u] \in {subs[u], NoSub}
  PROVE  Marked' /\ NotTwice' /\ \A u \in Users : Ripe(u)' <=> Ripe(u)
BY DEF Marked, NotTwice, Same, Ripe

LEMMA SpacedInit == Init => Spaced
BY DEF Init, NoRun, Never, Spaced, Marked, Fresh, NotTwice

LEMMA WriteSpaced ==
  ASSUME IInv, Spaced, NEW w \in Workers, Write(w)
  PROVE  Spaced'
<1> DEFINE j == job[w]
<1>1. j \in Writing /\ run' = run
  BY DEF Write, IInv, TypeOK, JobType, Writing, NoJob
<1>2. TableType /\ HistoryType /\ RunType
  BY DEF IInv, TypeOK
<1>3. \A u \in Users : \/ Same(u) /\ subs'[u] \in {subs[u], NoSub}
                       \/ /\ history'[u].doubt /\ history'[u].since = history[u].since
                          /\ history'[u].twice = history[u].twice
  <2>1. CASE subs' = [subs EXCEPT ![j.user] = IF @.org = j.org THEN NoSub ELSE @] /\ UNCHANGED history
    BY <1>2, <2>1 DEF TableType, Same
  <2>2. CASE /\ subs' = [subs EXCEPT ![j.user] = NewSub(j)]
             /\ history' = [history EXCEPT ![j.user].late = 0, ![j.user].doubt = TRUE]
    BY <1>2, <2>2 DEF TableType, HistoryType, Same
  <2>3. CASE UNCHANGED <<subs, history>>
    BY <2>3 DEF Same
  <2> QED
    BY <2>1, <2>2, <2>3 DEF Write
<1>4. \A u \in Users : Ripe(u) => Ripe(u)'
  BY <1>3 DEF Ripe, Same
<1>5. Marked' /\ NotTwice'
  BY <1>3 DEF Spaced, Marked, NotTwice, Same
<1>6. /\ run.pc = "check" => DOMAIN run.rows \subseteq Users
      /\ run.pc \in {"reports", "send", "save"} => run.users \subseteq Users /\ run.user \subseteq Users
  BY <1>2 DEF RunType, NoRun, Between, Checking, Mailing, Rows
<1>7. Fresh'
  BY <1>1, <1>3, <1>4, <1>6 DEF Spaced, Fresh, Same
<1> QED
  BY <1>5, <1>7 DEF Spaced

\* Steps that send nothing, and mark nothing.
LEMMA QuietSpaced ==
  ASSUME IInv, IInv', Spaced, \A u \in Users : Same(u), UNCHANGED subs,
         \/ UNCHANGED run \/ run' = NoRun \/ run'.pc = "next"
         \/ ReadSubscriptions \/ CheckUsers \/ GetReports
  PROVE  Spaced'
<1>1. Marked' /\ NotTwice' /\ \A u \in Users : Ripe(u)' <=> Ripe(u)
  BY SameKeeps DEF Spaced
<1>2. RunType /\ TableType /\ HistoryType
  BY DEF IInv, TypeOK
<1>3. /\ run.pc = "check" => DOMAIN run.rows \subseteq Users
      /\ run.pc \in {"reports", "send", "save"} => run.users \subseteq Users /\ run.user \subseteq Users
  BY <1>2 DEF RunType, NoRun, Between, Checking, Mailing, Rows
<1>4. CASE UNCHANGED run
  BY <1>1, <1>3, <1>4 DEF Spaced, Fresh, Same
<1>5. CASE run' = NoRun \/ run'.pc = "next"
  BY <1>1, <1>5 DEF NoRun, Spaced, Fresh
<1>6. CASE ReadSubscriptions
  <2>1. ASSUME NEW o \in run.todo, NEW due,
               due = {u \in Users : subs[u].org = o /\ Due(subs[u], run.elapsed)},
               run' = [ pc |-> "check", todo |-> run.todo \ {o}, elapsed |-> run.elapsed, org |-> o,
                        rows |-> [u \in due |-> subs[u].id] ]
        PROVE  Spaced'
    <3>1. run \in Between
      BY <1>2, <1>6 DEF ReadSubscriptions, RunType, NoRun, Checking, Mailing
    <3>2. ASSUME NEW u \in due PROVE Ripe(u)
      <4>1. subs[u] \in Subscription /\ history[u].since \in {Never} \cup 0..MaxAge
        BY <1>2, <2>1 DEF TableType, HistoryType, Due
      <4>2. run.elapsed \in 0..MaxElapsed
        BY <3>1 DEF Between
      <4> QED
        BY <2>1, <4>1, <4>2, WeeklyReportsAssumption
           DEF WeeklyReportsAssumption, Spaced, Marked, Due, Ripe, Subscription, Never, MaxAge
    <3> QED
      BY <1>1, <2>1, <3>2 DEF Spaced, Fresh
  <2> QED
    <3>1. run' = NoRun \/ \E o \in run.todo :
            LET due == {u \in Users : subs[u].org = o /\ Due(subs[u], run.elapsed)}
            IN  run' = [ pc |-> "check", todo |-> run.todo \ {o}, elapsed |-> run.elapsed, org |-> o,
                         rows |-> [u \in due |-> subs[u].id] ]
      BY <1>6, Zenon DEF ReadSubscriptions
    <3> QED
      BY <1>5, <2>1, <3>1
<1>7. CASE CheckUsers
  <2>1. run.pc = "check"
    BY <1>7 DEF CheckUsers
  <2>2. \/ run' = NextOrg(run.todo)
        \/ run'.pc = "reports" /\ run'.users \subseteq DOMAIN run.rows
    BY <1>7 DEF CheckUsers
  <2> QED
    BY <1>1, <1>3, <1>5, <2>1, <2>2 DEF NextOrg, Spaced, Fresh
<1>8. CASE GetReports
  <2>1. run \in Mailing /\ run.pc = "reports"
    BY <1>2, <1>8 DEF GetReports, RunType, NoRun, Between, Checking
  <2>2. run' = NextOrg(run.todo) \/ (run'.pc = "send" /\ run'.users = run.users)
    BY <1>8, <2>1 DEF GetReports, WithoutSystems, Mailing
  <2> QED
    BY <1>1, <1>3, <1>5, <2>1, <2>2 DEF NextOrg, Spaced, Fresh
<1> QED
  BY <1>4, <1>5, <1>6, <1>7, <1>8

\* A report to whom is ripe for it comes after the minimum of hours.
LEMMA SendingSpaced ==
  ASSUME IInv, Spaced, NEW u \in Users, Send(u) \/ SendFails(u)
  PROVE  Spaced'
<1>1. run \in Mailing /\ run.pc = "send" /\ u \in run.users
  <2>1. Sending(u)
    BY Zenon DEF Send, SendFails
  <2> QED
    BY <2>1 DEF Sending, IInv, TypeOK, RunType, NoRun, Between, Checking
<1>2. UNCHANGED subs
  BY DEF Send, SendFails
<1>3. ASSUME Arrives(u)
      PROVE  /\ history'[u].doubt = TRUE /\ history'[u].since = 0 /\ ~ history'[u].twice
             /\ \A v \in Users : v # u => Same(v)
  <2> DEFINE again == history[u].twice \/ (~ history[u].doubt /\ history[u].since \in 0..MailMinimumHours)
             late  == IF subs[u] = NoSub THEN history[u].late + 1 ELSE history[u].late
             new   == [history[u] EXCEPT !.late = late, !.since = 0, !.doubt = TRUE, !.twice = again]
  <2>1. ~ again
    <3>1. Ripe(u) /\ ~ history[u].twice /\ history[u].since \in {Never} \cup 0..MaxAge
      BY <1>1 DEF Spaced, Fresh, NotTwice, IInv, TypeOK, HistoryType
    <3> QED
      BY <3>1, WeeklyReportsAssumption DEF WeeklyReportsAssumption, Ripe
  <2>2. history' = [history EXCEPT ![u] = new]
    BY <1>3, Zenon DEF Arrives
  <2> HIDE DEF again, late
  <2>3. new.doubt = TRUE /\ new.since = 0 /\ new.twice = again
    BY DEF IInv, TypeOK, HistoryType
  <2> HIDE DEF new
  <2> QED
    BY <2>1, <2>2, <2>3 DEF IInv, TypeOK, HistoryType, Same
<1>4. \/ Arrives(u) \/ (UNCHANGED history /\ SendFails(u))
  BY DEF Send, SendFails
<1>5. Marked' /\ NotTwice' /\ \A v \in Users : Ripe(v) => Ripe(v)'
  <2>1. CASE Arrives(u)
    BY <1>2, <1>3, <2>1 DEF Spaced, Marked, NotTwice, Ripe, Same
  <2>2. CASE UNCHANGED history
    BY <1>2, <2>2 DEF Spaced, Marked, NotTwice, Ripe
  <2> QED
    BY <1>4, <2>1, <2>2
<1>6. /\ run'.users \subseteq run.users /\ run'.pc \in {"send", "save"}
      /\ run'.pc = "save" => run'.user = {u} /\ Arrives(u)
  <2>1. CASE Send(u)
    BY <1>1, <2>1 DEF Send, Mailing
  <2>2. CASE SendFails(u)
    BY <1>1, <2>2 DEF SendFails, Mailing
  <2> QED
    BY <2>1, <2>2
<1>7. Fresh'
  <2>1. \A v \in run'.users : Ripe(v)'
    BY <1>1, <1>5, <1>6 DEF Spaced, Fresh, Mailing
  <2>2. run'.pc = "save" => \A v \in run'.user : history'[v].since # Never
    BY <1>3, <1>6 DEF Never
  <2> QED
    BY <1>6, <2>1, <2>2 DEF Fresh
<1> QED
  BY <1>5, <1>7 DEF Spaced

\* Who is marked is not among those to be mailed any more.
LEMMA SaveSpaced ==
  ASSUME IInv, IInv', Spaced, Save
  PROVE  Spaced'
<1>1. run \in Mailing /\ run.pc = "save"
  BY DEF Save, IInv, TypeOK, RunType, NoRun, Between, Checking
<1>2. CASE run' = NoRun /\ UNCHANGED <<subs, history>>
  <2>1. \A u \in Users : Same(u)
    BY <1>2 DEF Same
  <2> QED
    BY <1>2, <2>1, QuietSpaced
<1>3. ASSUME NEW u \in run.user,
             subs' = [subs EXCEPT ![u] = [org |-> run.org, age |-> 0,
                                          autosub |-> @ # NoSub /\ @.autosub, id |-> run.rows[u]]],
             history' = [history EXCEPT ![u].doubt = FALSE],
             run' = [run EXCEPT !.pc = "send", !.user = {}, !.attempt = 1, !.users = @ \ {u}]
      PROVE  Spaced'
  <2>1. u \in Users /\ history[u].since # Never
    BY <1>1 DEF Mailing, Spaced, Fresh
  <2>2. /\ \A v \in Users : v # u => Same(v) /\ subs'[v] = subs[v]
        /\ history'[u].since = history[u].since /\ history'[u].twice = history[u].twice
        /\ history[u].since \in {Never} \cup 0..MaxAge
    BY <1>3, <2>1 DEF Same, IInv, TypeOK, HistoryType, TableType
  <2>3. subs'[u].age = 0
    <3> DEFINE autosub == subs[u] # NoSub /\ subs[u].autosub
    <3>1. subs' = [subs EXCEPT ![u] = [org |-> run.org, age |-> 0, autosub |-> autosub, id |-> run.rows[u]]]
      BY <1>3, Zenon
    <3> HIDE DEF autosub
    <3> QED
      BY <2>1, <3>1 DEF IInv, TypeOK, TableType
  <2>4. Marked' /\ NotTwice'
    BY <2>1, <2>2, <2>3 DEF Spaced, Marked, NotTwice, Same, Never
  <2>5. run'.pc = "send" /\ run'.users = run.users \ {u}
    BY <1>1, <1>3 DEF Mailing
  <2>6. Fresh'
    BY <1>1, <2>2, <2>5 DEF Spaced, Fresh, Ripe, Same, Mailing
  <2> QED
    BY <2>4, <2>6 DEF Spaced
<1> QED
  BY <1>2, <1>3 DEF Save

\* Time makes nobody less ripe.
LEMMA OlderSpaced ==
  ASSUME NEW age \in {Never} \cup 0..MaxAge, NEW since \in {Never} \cup 0..MaxAge
  PROVE  /\ age # Never => Older(age) # Never /\ Older(age) >= age
         /\ age # Never /\ since # Never /\ age <= since => Older(age) <= Older(since)
         /\ since > MailMinimumHours => Older(since) > MailMinimumHours
BY WeeklyReportsAssumption DEF WeeklyReportsAssumption, Older, Never, MaxAge

LEMMA TimeSpaced ==
  ASSUME IInv, Spaced, TimePasses
  PROVE  Spaced'
<1>1. TableType /\ HistoryType /\ RunType
  BY DEF IInv, TypeOK
<1>2. ASSUME NEW u \in Users
      PROVE  /\ history'[u].doubt = history[u].doubt /\ history'[u].twice = history[u].twice
             /\ history'[u].since = Older(history[u].since)
             /\ history[u].since \in {Never} \cup 0..MaxAge
             /\ subs[u] = NoSub => subs'[u] = NoSub
             /\ subs[u] # NoSub => subs[u].age \in {Never} \cup 0..MaxAge /\ subs'[u].age = Older(subs[u].age)
  BY <1>1 DEF TimePasses, TableType, HistoryType, Subscription
<1>3. Marked' /\ NotTwice' /\ \A u \in Users : Ripe(u) => Ripe(u)'
  BY <1>2, OlderSpaced DEF Spaced, Marked, NotTwice, Ripe
<1>4. \A u \in Users : history[u].since # Never => history'[u].since # Never
  BY <1>2, OlderSpaced
<1>5. /\ run.pc = "check" => DOMAIN run.rows \subseteq Users
      /\ run.pc \in {"reports", "send", "save"} => run.users \subseteq Users /\ run.user \subseteq Users
  BY <1>1 DEF RunType, NoRun, Between, Checking, Mailing, Rows
<1>6. CASE run = NoRun
  BY <1>3, <1>6 DEF TimePasses, NoRun, Spaced, Fresh
<1>7. CASE run # NoRun
  <2>1. run' = [run EXCEPT !.elapsed = @ + 1] /\ run \in Between \cup Checking \cup Mailing
    BY <1>1, <1>7, Zenon DEF TimePasses, RunType
  <2>2. /\ run'.pc = run.pc
        /\ run.pc = "check" => run'.rows = run.rows
        /\ run.pc \in {"reports", "send", "save"} => run'.users = run.users /\ run'.user = run.user
    BY <2>1 DEF Between, Checking, Mailing
  <2> QED
    BY <1>3, <1>4, <1>5, <2>2 DEF Spaced, Fresh
<1> QED
  BY <1>6, <1>7

LEMMA SpacedKept == IInv /\ Spaced /\ [Next]_vars => Spaced'
<1> SUFFICES ASSUME IInv, Spaced, [Next]_vars PROVE Spaced'
  OBVIOUS
<1>1. IInv'
  BY NextKeeps
<1>2. ASSUME UNCHANGED <<subs, history>>,
             UNCHANGED run \/ run' = NoRun \/ run'.pc = "next" \/ ReadSubscriptions \/ GetReports
      PROVE  Spaced'
  <2>1. \A u \in Users : Same(u)
    BY <1>2 DEF Same
  <2> QED
    BY <1>1, <1>2, <2>1, QuietSpaced
<1>3. CASE UNCHANGED vars
  BY <1>2, <1>3 DEF vars
<1>4. CASE StartAll \/ StartByHand
  BY <1>2, <1>4 DEF StartAll, StartByHand, StartRun
<1>5. CASE Step
  <2>1. CASE ReadSubscriptions \/ GetReports
    BY <1>2, <2>1 DEF ReadSubscriptions, GetReports
  <2>2. CASE CheckUsers
    <3>1. \A u \in Users : Same(u)
      BY <2>2 DEF CheckUsers, Same, IInv, TypeOK, HistoryType
    <3>2. UNCHANGED subs
      BY <2>2 DEF CheckUsers
    <3> QED
      BY <1>1, <2>2, <3>1, <3>2, QuietSpaced
  <2>3. CASE DeleteExpired
    <3>1. \A u \in Users : Same(u) /\ subs'[u] \in {subs[u], NoSub}
      BY <2>3 DEF DeleteExpired, Same
    <3>2. run'.pc = "next"
      BY <2>3 DEF DeleteExpired, NextOrg
    <3> QED
      BY <3>1, <3>2, SameKeeps DEF Spaced, Fresh
  <2> QED
    BY <1>1, <1>5, <2>1, <2>2, <2>3, SendingSpaced, SaveSpaced DEF Step
<1>6. CASE MiddlewareFails \/ Crash \/ \E u \in Users : SendFails(u)
  <2>1. MiddlewareFails \/ Crash => run' = NoRun /\ UNCHANGED <<subs, history>>
    BY DEF MiddlewareFails, Crash
  <2> QED
    BY <1>2, <1>6, <2>1, SendingSpaced
<1>7. ASSUME NEW w \in Workers, Ask(w) PROVE Spaced'
  BY <1>2, <1>7 DEF Ask
<1>8. CASE Exclude \/ SystemsChange
  BY <1>2, <1>8 DEF Exclude, SystemsChange
<1>9. CASE StandingChanges
  <2>1. /\ \A u \in Users : Same(u)
        /\ UNCHANGED <<subs, run>>
    BY <1>9 DEF StandingChanges, Same, IInv, TypeOK, HistoryType
  <2> QED
    BY <1>1, <2>1, QuietSpaced
<1> QED
  BY <1>3, <1>4, <1>5, <1>6, <1>7, <1>8, <1>9, WriteSpaced, TimeSpaced DEF Next

\* The mark that the command makes after a send, and its query for those who
\* are due, keep two reports to one user apart by more than the minimum of
\* hours, in any number of runs, unless a report's arrival was in doubt, by a
\* crash or a late failure, or the subscription is new (handle_emails).
THEOREM ReportsAreSpaced == Spec => []NotTwice
<1>1. Spaced => NotTwice
  BY DEF Spaced
<1> QED
  BY <1>1, InitHolds, NextKeeps, SpacedInit, SpacedKept, PTL DEF Spec
-----------------------------------------------------------------------------
(* Who has unsubscribed has at most the reports of one run's attempts.  Who *)
(* is subscribed has none of those, so that a run begins with receivers that *)
(* have none, and its attempts count what comes to the one at hand.          *)

LateReports(u) == history[u].late
SubscribedNone == \A u \in Users : subs[u] # NoSub => LateReports(u) = 0
AttemptsCount ==
  /\ run.pc = "check" => \A u \in DOMAIN run.rows : LateReports(u) = 0
  /\ run.pc \in {"reports", "send", "save"} =>
       /\ \A u \in run.users \ run.user : LateReports(u) = 0
       /\ \A u \in run.user : LateReports(u) <= IF run.pc = "save" THEN run.attempt ELSE run.attempt - 1
       /\ run.user = {} => run.attempt = 1
       /\ \A u, v \in run.user : u = v
Stopping == SubscribedNone /\ AttemptsCount /\ StopsAfterUnsubscribing

LEMMA StoppingInit == Init => Stopping
BY WeeklyReportsAssumption
   DEF WeeklyReportsAssumption, Init, NoRun, Stopping, SubscribedNone, AttemptsCount, StopsAfterUnsubscribing, LateReports

\* Whom the run's state names are users.
LEMMA RunNamesUsers ==
  ASSUME IInv
  PROVE  /\ run.pc = "check" => DOMAIN run.rows \subseteq Users
         /\ run.pc \in {"reports", "send", "save"} => run.users \subseteq Users /\ run.user \subseteq Users
BY DEF IInv, TypeOK, RunType, NoRun, Between, Checking, Mailing, Rows

\* Steps that send nothing, and take away at most subscriptions.
LEMMA QuietStopping ==
  ASSUME IInv, IInv', Stopping,
         \A u \in Users : /\ LateReports(u)' \in {LateReports(u), 0}
                          /\ subs'[u] # NoSub => subs[u] # NoSub \/ LateReports(u)' = 0,
         \/ UNCHANGED run \/ run' = NoRun \/ run'.pc = "next"
         \/ ReadSubscriptions \/ CheckUsers \/ GetReports
  PROVE  Stopping'
<1>1. RunType /\ TableType /\ HistoryType
  BY DEF IInv, TypeOK
<1>2. /\ \A u \in Users : LateReports(u) = 0 => LateReports(u)' = 0
      /\ \A u \in Users, n \in Nat : LateReports(u) <= n => LateReports(u)' <= n
  OBVIOUS
<1>3. SubscribedNone' /\ StopsAfterUnsubscribing'
  BY <1>2, WeeklyReportsAssumption
     DEF WeeklyReportsAssumption, Stopping, SubscribedNone, StopsAfterUnsubscribing, LateReports
<1>4. CASE UNCHANGED run
  <2>1. CASE run.pc \in {"reports", "send", "save"}
    <3>1. run \in Mailing
      BY <1>1, <2>1 DEF RunType, NoRun, Between, Checking
    <3>2. run.attempt \in Nat /\ run.attempt - 1 \in Nat
      BY <3>1, WeeklyReportsAssumption DEF WeeklyReportsAssumption, Mailing
    <3>3. (IF run.pc = "save" THEN run.attempt ELSE run.attempt - 1) \in Nat
      BY <3>2
    <3> QED
      BY <1>2, <1>3, <1>4, <2>1, <3>3, RunNamesUsers DEF Stopping, AttemptsCount
  <2>2. CASE run.pc \notin {"reports", "send", "save"}
    BY <1>2, <1>3, <1>4, <2>2, RunNamesUsers DEF Stopping, AttemptsCount
  <2> QED
    BY <2>1, <2>2
<1>5. CASE run' = NoRun \/ run'.pc = "next"
  BY <1>3, <1>5 DEF NoRun, Stopping, AttemptsCount
<1>6. CASE ReadSubscriptions
  <2>1. ASSUME NEW o \in run.todo, NEW due,
               due = {u \in Users : subs[u].org = o /\ Due(subs[u], run.elapsed)},
               run' = [ pc |-> "check", todo |-> run.todo \ {o}, elapsed |-> run.elapsed, org |-> o,
                        rows |-> [u \in due |-> subs[u].id] ]
        PROVE  Stopping'
    <3>1. \A u \in due : u \in Users /\ LateReports(u) = 0
      BY <2>1 DEF Due, Stopping, SubscribedNone
    <3> QED
      BY <1>2, <1>3, <2>1, <3>1 DEF Stopping, AttemptsCount
  <2> QED
    <3>1. run' = NoRun \/ \E o \in run.todo :
            LET due == {u \in Users : subs[u].org = o /\ Due(subs[u], run.elapsed)}
            IN  run' = [ pc |-> "check", todo |-> run.todo \ {o}, elapsed |-> run.elapsed, org |-> o,
                         rows |-> [u \in due |-> subs[u].id] ]
      BY <1>6, Zenon DEF ReadSubscriptions
    <3> QED
      BY <1>5, <2>1, <3>1
<1>7. CASE CheckUsers
  <2>1. run.pc = "check"
    BY <1>7 DEF CheckUsers
  <2>2. \/ run' = NextOrg(run.todo)
        \/ /\ run'.pc = "reports" /\ run'.users \subseteq DOMAIN run.rows
           /\ run'.user = {} /\ run'.attempt = 1
    BY <1>7 DEF CheckUsers
  <2> QED
    BY <1>2, <1>3, <1>5, <2>1, <2>2, RunNamesUsers DEF NextOrg, Stopping, AttemptsCount
<1>8. CASE GetReports
  <2>1. run \in Mailing /\ run.pc = "reports"
    BY <1>1, <1>8 DEF GetReports, RunType, NoRun, Between, Checking
  <2>2. \/ run' = NextOrg(run.todo)
        \/ /\ run'.pc = "send" /\ run'.users = run.users
           /\ run'.user = run.user /\ run'.attempt = run.attempt
    BY <1>8, <2>1 DEF GetReports, WithoutSystems, Mailing
  <2>3. run.attempt - 1 \in Nat
    BY <2>1, WeeklyReportsAssumption DEF WeeklyReportsAssumption, Mailing
  <2> QED
    BY <1>2, <1>3, <1>5, <2>1, <2>2, <2>3, RunNamesUsers DEF NextOrg, Stopping, AttemptsCount
<1> QED
  BY <1>4, <1>5, <1>6, <1>7, <1>8

\* An attempt brings at most one report, to the one at hand.
LEMMA SendingStopping ==
  ASSUME IInv, Stopping, NEW u \in Users, Send(u) \/ SendFails(u)
  PROVE  Stopping'
<1>1. run \in Mailing /\ run.pc = "send" /\ u \in run.users /\ (run.user = {} \/ u \in run.user)
  <2>1. Sending(u)
    BY Zenon DEF Send, SendFails
  <2> QED
    BY <2>1 DEF Sending, IInv, TypeOK, RunType, NoRun, Between, Checking
<1>2. UNCHANGED subs
  BY DEF Send, SendFails
<1>3. /\ \A v \in Users : v # u => LateReports(v)' = LateReports(v)
      /\ LateReports(u)' \in {LateReports(u), IF subs[u] = NoSub THEN LateReports(u) + 1 ELSE LateReports(u)}
      /\ LateReports(u) \in Nat
  <2>1. HistoryType
    BY DEF IInv, TypeOK
  <2>2. CASE Arrives(u)
    <3> DEFINE again == history[u].twice \/ (~ history[u].doubt /\ history[u].since \in 0..MailMinimumHours)
               late  == IF subs[u] = NoSub THEN history[u].late + 1 ELSE history[u].late
               new   == [history[u] EXCEPT !.late = late, !.since = 0, !.doubt = TRUE, !.twice = again]
    <3>1. history' = [history EXCEPT ![u] = new]
      BY <2>2, Zenon DEF Arrives
    <3> HIDE DEF again, late
    <3>2. new.late = late
      BY <2>1 DEF HistoryType
    <3> HIDE DEF new
    <3> QED
      BY <2>1, <3>1, <3>2 DEF HistoryType, LateReports, late
  <2>3. CASE UNCHANGED history
    BY <2>1, <2>3 DEF HistoryType, LateReports
  <2> QED
    BY <2>2, <2>3 DEF Send, SendFails
<1>4. /\ LateReports(u) <= run.attempt - 1
      /\ \A v \in run.users \ {u} : LateReports(v) = 0
      /\ run.attempt \in 1..MailRetryAttempts
  BY <1>1, <1>3 DEF Stopping, AttemptsCount, Mailing
<1>5. LateReports(u)' <= run.attempt /\ LateReports(u)' \in Nat
  BY <1>3, <1>4, WeeklyReportsAssumption DEF WeeklyReportsAssumption
<1>6. SubscribedNone'
  BY <1>2, <1>3 DEF Stopping, SubscribedNone
<1>7. StopsAfterUnsubscribing'
  <2>1. \A v \in Users : v # u => LateReports(v)' <= MailRetryAttempts
    BY <1>3 DEF Stopping, StopsAfterUnsubscribing, LateReports
  <2>2. LateReports(u)' <= MailRetryAttempts
    BY <1>4, <1>5, WeeklyReportsAssumption DEF WeeklyReportsAssumption
  <2> QED
    BY <2>1, <2>2 DEF StopsAfterUnsubscribing, LateReports
<1>8. AttemptsCount'
  <2>1. ASSUME run'.users = run.users, run'.user = {u},
               \/ run'.pc = "save" /\ run'.attempt = run.attempt
               \/ run'.pc = "send" /\ run'.attempt = run.attempt + 1
        PROVE  AttemptsCount'
    <3>1. run'.user # {} /\ \A v, w \in run'.user : v = w
      BY <2>1
    <3>2. \A v \in run'.users \ run'.user : LateReports(v)' = 0
      BY <1>1, <1>3, <1>4, <2>1 DEF Mailing
    <3>3. \A v \in run'.user : LateReports(v)' <= IF run'.pc = "save" THEN run'.attempt ELSE run'.attempt - 1
      BY <1>4, <1>5, <2>1, WeeklyReportsAssumption DEF WeeklyReportsAssumption
    <3>4. run'.pc # "check"
      BY <2>1
    <3> QED
      BY <3>1, <3>2, <3>3, <3>4 DEF AttemptsCount
  <2>2. ASSUME run'.pc = "send", run'.user = {}, run'.attempt = 1, run'.users = run.users \ {u}
        PROVE  AttemptsCount'
    BY <1>1, <1>3, <1>4, <2>2 DEF AttemptsCount, Mailing
  <2>3. CASE Send(u)
    <3>1. /\ run'.users = run.users /\ run'.user = {u}
          /\ run'.pc = "save" /\ run'.attempt = run.attempt
      BY <1>1, <2>3 DEF Send, Mailing
    <3> QED
      BY <2>1, <3>1
  <2>4. CASE SendFails(u)
    <3>1. CASE run' = [run EXCEPT !.user = {u}, !.attempt = @ + 1]
      BY <1>1, <2>1, <3>1 DEF Mailing
    <3>2. CASE run' = [run EXCEPT !.user = {}, !.attempt = 1, !.users = @ \ {u}]
      BY <1>1, <2>2, <3>2 DEF Mailing
    <3> QED
      BY <2>4, <3>1, <3>2 DEF SendFails
  <2> QED
    BY <2>3, <2>4
<1> QED
  BY <1>6, <1>7, <1>8 DEF Stopping

\* Who is marked is still subscribed, and is at hand no more.
LEMMA SaveStopping ==
  ASSUME IInv, IInv', Stopping, Save
  PROVE  Stopping'
<1>1. run \in Mailing /\ run.pc = "save"
  BY DEF Save, IInv, TypeOK, RunType, NoRun, Between, Checking
<1>2. CASE run' = NoRun /\ UNCHANGED <<subs, history>>
  BY <1>2, QuietStopping DEF LateReports
<1>3. ASSUME NEW u \in run.user, SavedRow(u, run.rows[u]),
             subs' = [subs EXCEPT ![u] = [org |-> run.org, age |-> 0,
                                          autosub |-> @ # NoSub /\ @.autosub, id |-> run.rows[u]]],
             history' = [history EXCEPT ![u].doubt = FALSE],
             run' = [run EXCEPT !.pc = "send", !.user = {}, !.attempt = 1, !.users = @ \ {u}]
      PROVE  Stopping'
  <2>1. u \in Users /\ subs[u] # NoSub
    BY <1>1, <1>3 DEF Mailing, SavedRow
  <2>2. \A v \in Users : LateReports(v)' = LateReports(v)
    BY <1>3, <2>1 DEF LateReports, IInv, TypeOK, HistoryType
  <2>3. \A v \in Users : v # u => subs'[v] = subs[v]
    BY <1>3, <2>1 DEF IInv, TypeOK, TableType
  <2>4. SubscribedNone' /\ StopsAfterUnsubscribing'
    BY <2>1, <2>2, <2>3 DEF Stopping, SubscribedNone, StopsAfterUnsubscribing, LateReports
  <2>5. run'.pc = "send" /\ run'.users = run.users \ {u} /\ run'.user = {} /\ run'.attempt = 1
    BY <1>1, <1>3 DEF Mailing
  <2>6. \A v \in run.users \ {u} : v \in Users /\ LateReports(v) = 0
    BY <1>1, <1>3 DEF Stopping, AttemptsCount, Mailing
  <2>7. AttemptsCount'
    BY <2>2, <2>5, <2>6 DEF AttemptsCount
  <2> QED
    BY <2>4, <2>7 DEF Stopping
<1> QED
  BY <1>2, <1>3 DEF Save

LEMMA WriteStopping ==
  ASSUME IInv, IInv', Stopping, NEW w \in Workers, Write(w)
  PROVE  Stopping'
<1> DEFINE j == job[w]
<1>1. j \in Writing /\ run' = run /\ TableType /\ HistoryType
  BY DEF Write, IInv, TypeOK, JobType, Writing, NoJob
<1>2. \A u \in Users : /\ LateReports(u)' \in {LateReports(u), 0}
                       /\ subs'[u] # NoSub => subs[u] # NoSub \/ LateReports(u)' = 0
  <2>1. CASE subs' = [subs EXCEPT ![j.user] = IF @.org = j.org THEN NoSub ELSE @] /\ UNCHANGED history
    BY <1>1, <2>1 DEF TableType, LateReports
  <2>2. CASE /\ subs' = [subs EXCEPT ![j.user] = NewSub(j)]
             /\ history' = [history EXCEPT ![j.user].late = 0, ![j.user].doubt = TRUE]
    BY <1>1, <2>2 DEF TableType, HistoryType, LateReports
  <2>3. CASE UNCHANGED <<subs, history>>
    BY <2>3 DEF LateReports
  <2> QED
    BY <2>1, <2>2, <2>3 DEF Write
<1> QED
  BY <1>1, <1>2, QuietStopping

LEMMA TimeStopping ==
  ASSUME IInv, IInv', Stopping, TimePasses
  PROVE  Stopping'
<1>1. TableType /\ HistoryType /\ RunType
  BY DEF IInv, TypeOK
<1>2. \A u \in Users : LateReports(u)' = LateReports(u) /\ (subs'[u] # NoSub => subs[u] # NoSub)
  BY <1>1 DEF TimePasses, TableType, HistoryType, LateReports
<1>3. CASE run = NoRun
  BY <1>2, <1>3, QuietStopping DEF TimePasses
<1>4. CASE run # NoRun
  <2>1. run' = [run EXCEPT !.elapsed = @ + 1] /\ run \in Between \cup Checking \cup Mailing
    BY <1>1, <1>4, Zenon DEF TimePasses, RunType
  <2>2. /\ run'.pc = run.pc
        /\ run.pc = "check" => run'.rows = run.rows
        /\ run.pc \in {"reports", "send", "save"} =>
             run'.users = run.users /\ run'.user = run.user /\ run'.attempt = run.attempt
    BY <2>1 DEF Between, Checking, Mailing
  <2>3. SubscribedNone' /\ StopsAfterUnsubscribing'
    BY <1>2 DEF Stopping, SubscribedNone, StopsAfterUnsubscribing, LateReports
  <2>4. AttemptsCount'
    BY <1>2, <2>2, RunNamesUsers DEF Stopping, AttemptsCount
  <2> QED
    BY <2>3, <2>4 DEF Stopping
<1> QED
  BY <1>3, <1>4

LEMMA StoppingKept == IInv /\ Stopping /\ [Next]_vars => Stopping'
<1> SUFFICES ASSUME IInv, Stopping, [Next]_vars PROVE Stopping'
  OBVIOUS
<1>1. IInv'
  BY NextKeeps
<1>2. ASSUME UNCHANGED <<subs, history>>,
             UNCHANGED run \/ run' = NoRun \/ run'.pc = "next" \/ ReadSubscriptions \/ GetReports
      PROVE  Stopping'
  BY <1>1, <1>2, QuietStopping DEF LateReports
<1>3. CASE UNCHANGED vars
  BY <1>2, <1>3 DEF vars
<1>4. CASE StartAll \/ StartByHand
  BY <1>2, <1>4 DEF StartAll, StartByHand, StartRun
<1>5. CASE Step
  <2>1. CASE ReadSubscriptions \/ GetReports
    BY <1>2, <2>1 DEF ReadSubscriptions, GetReports
  <2>2. CASE CheckUsers
    <3>1. \A u \in Users : LateReports(u)' = LateReports(u)
      BY <2>2 DEF CheckUsers, LateReports, IInv, TypeOK, HistoryType
    <3>2. UNCHANGED subs
      BY <2>2 DEF CheckUsers
    <3> QED
      BY <1>1, <2>2, <3>1, <3>2, QuietStopping
  <2>3. CASE DeleteExpired
    <3>1. \A u \in Users : LateReports(u)' = LateReports(u) /\ subs'[u] \in {subs[u], NoSub}
      BY <2>3 DEF DeleteExpired, LateReports
    <3>2. run'.pc = "next"
      BY <2>3 DEF DeleteExpired, NextOrg
    <3> QED
      BY <1>1, <3>1, <3>2, QuietStopping
  <2> QED
    BY <1>1, <1>5, <2>1, <2>2, <2>3, SendingStopping, SaveStopping DEF Step
<1>6. CASE MiddlewareFails \/ Crash \/ \E u \in Users : SendFails(u)
  <2>1. MiddlewareFails \/ Crash => run' = NoRun /\ UNCHANGED <<subs, history>>
    BY DEF MiddlewareFails, Crash
  <2> QED
    BY <1>2, <1>6, <2>1, SendingStopping
<1>7. ASSUME NEW w \in Workers, Ask(w) PROVE Stopping'
  BY <1>2, <1>7 DEF Ask
<1>8. CASE Exclude \/ SystemsChange
  BY <1>2, <1>8 DEF Exclude, SystemsChange
<1>9. CASE StandingChanges
  <2>1. /\ \A u \in Users : LateReports(u)' = LateReports(u)
        /\ UNCHANGED <<subs, run>>
    BY <1>9 DEF StandingChanges, LateReports, IInv, TypeOK, HistoryType
  <2> QED
    BY <1>1, <2>1, QuietStopping
<1> QED
  BY <1>1, <1>3, <1>4, <1>5, <1>6, <1>7, <1>8, <1>9, WriteStopping, TimeStopping DEF Next

\* Who unsubscribes while the command runs has the reports of one run's
\* attempts at most, however often the command runs, since every run reads
\* the subscriptions anew (get_users_to_email, send_emails).
THEOREM Stops == Spec => []StopsAfterUnsubscribing
<1>1. Stopping => StopsAfterUnsubscribing
  BY DEF Stopping
<1> QED
  BY <1>1, InitHolds, NextKeeps, StoppingInit, StoppingKept, PTL DEF Spec
=============================================================================
