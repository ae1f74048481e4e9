---------------------------- MODULE HostReports ----------------------------
(***************************************************************************)
(* What the Advisor Service promises of a host's current reports, without  *)
(* threads, locks or statements: a message replaces them in one step, a    *)
(* delete empties them in one step, and a message is settled once.         *)
(*                                                                         *)
(* Three things of the implementation show.  An upload that is under way   *)
(* while a delete erases reports it has already seen may leave those out,  *)
(* since it takes them for stored: `doubt` is the set of such rules.  A    *)
(* message to which a filter of system types applies spares the reports of *)
(* the filter's other rules.  And a report with another account than the   *)
(* message's is neither renewed nor replaced by a new one.  Reports that a *)
(* message may leave like this a delete may take by themselves, or leave.  *)
(***************************************************************************)
EXTENDS Integers

CONSTANTS
  Hosts,
  Results     \* the last payload statuses, "none" and "success" among them

VARIABLES
  messages,   \* of each message: its host, its account, the rules it has to
              \* report, and those it spares
  current,    \* of each host: its reports
  doubt,      \* of each host: rules that an upload under way may leave out
  result      \* of each message: the status it was settled with

vars == <<messages, current, doubt, result>>

RulesOf(h) == {r.rule : r \in current[h]}

\* Message m leaves the report as it is: it spares the report's rule, or would
\* renew it and does not find it by its account.
Leaves(m, r) ==
  \/ r.rule \in messages[m].spared
  \/ r.rule \in messages[m].rules /\ r.account # messages[m].account

\* Reports of the host that each of its messages would renew or resolve.
Firm(h) ==
  {r \in current[h] : \A m \in DOMAIN messages : messages[m].host = h => ~ Leaves(m, r)}

Init ==
  /\ current = [h \in Hosts |-> {}]
  /\ doubt = [h \in Hosts |-> {}]
  /\ result = [m \in DOMAIN messages |-> "none"]

Settle(m, s) ==
  /\ result[m] = "none"
  /\ result' = [result EXCEPT ![m] = s]

\* The reports of message m for the rules R, each with its rule, its account,
\* the messages its content and its upload row come from, and the message that
\* reported the rule first.
Renewed(m, R) ==
  LET old == current[messages[m].host]
  IN  {[rule |-> r, account |-> messages[m].account, from |-> {m},
        since |-> IF \E o \in old : o.rule = r
                    THEN (CHOOSE o \in old : o.rule = r).since ELSE m] : r \in R}

\* The message's reports take the place of the host's, all of them but the
\* doubtful; those it leaves stay, and may now be of its upload row.
Store(m) ==
  LET h    == messages[m].host
      left == {r \in current[h] : Leaves(m, r)}
      new  == (messages[m].rules \ doubt[h]) \ {r.rule : r \in left}
  IN  /\ Settle(m, "success")
      /\ \E from \in [left -> SUBSET DOMAIN messages] :
           /\ \A r \in left : from[r] \subseteq r.from \union {m}
           /\ current' = [current EXCEPT ![h] =
                            Renewed(m, new) \union {[r EXCEPT !.from = from[r]] : r \in left}]
      /\ doubt' = [doubt EXCEPT ![h] = {}]
      /\ UNCHANGED messages

\* The message is settled and stores nothing: it fails, or is a delete, or an
\* upload whose 'success' went out before PostgreSQL rolled it back.
Drop(m) ==
  /\ \E s \in Results \ {"none"} : Settle(m, s)
  /\ doubt' \in {doubt, [doubt EXCEPT ![messages[m].host] = {}]}
  /\ UNCHANGED <<messages, current>>

\* All firm reports of the host go or none does, and any of the others.
\* An upload under way may have seen those that go.
Erase(h) ==
  \E left \in SUBSET current[h] :
    /\ left \intersect Firm(h) \in {{}, Firm(h)}
    /\ current' = [current EXCEPT ![h] = left]
    /\ doubt' \in {doubt, [doubt EXCEPT ![h] = @ \union {r.rule : r \in current[h] \ left}]}
    /\ UNCHANGED <<messages, result>>

Next ==
  \/ \E m \in DOMAIN messages : Store(m) \/ Drop(m)
  \/ \E h \in Hosts : Erase(h)

Spec == Init /\ [][Next]_vars
=============================================================================
