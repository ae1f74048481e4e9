-------------------------- MODULE MCContentImport --------------------------
(***************************************************************************)
(* Small instances of ContentImport for TLC: two init containers, three    *)
(* versions of the content over two rules.                                 *)
(***************************************************************************)
EXTENDS ContentImport

CONSTANTS r1, r2, o1, o2, i1, i2

Row(rule, sys, active, risk, tags) ==
  [ rule |-> rule, sys |-> sys, active |-> active, likelihood |-> 3,
    impact |-> "crash", risk |-> risk, tags |-> tags ]
Book(rule, version) == [rule |-> rule, type |-> "fix", version |-> version]

Base == [ impacts |-> [n \in {"crash"} |-> 4], risks |-> [n \in {"reboot", "none"} |-> IF n = "none" THEN 1 ELSE 3],
          tags |-> {"autoack", "net"}, rows |-> <<>>, playbooks |-> {}, hasPlaybooks |-> TRUE ]

\* A rule with two resolutions that is acked for everyone, a playbook for it
\* and one for a rule that does not exist.
First == [Base EXCEPT
  !.rows = <<Row(r1, 1, TRUE, "reboot", {"autoack"}), Row(r1, 2, TRUE, "none", {"net"})>>,
  !.playbooks = {Book(r1, "a"), Book(r2, "a")}]
\* The rule is deactivated, loses a resolution and the tag; a second rule.
Second == [Base EXCEPT
  !.risks = [n \in {"reboot", "none"} |-> 2],
  !.rows = <<Row(r1, 2, FALSE, "reboot", {"net"}), Row(r2, 1, TRUE, "none", {"autoack"})>>,
  !.playbooks = {Book(r1, "b"), Book(r2, "b")}]
\* A tag that the configuration does not list; no playbooks.
Third == [Base EXCEPT
  !.tags = {"net"}, !.hasPlaybooks = FALSE,
  !.rows = <<Row(r1, 1, TRUE, "reboot", {"autoack"})>>]
\* An impact that the configuration does not list.
Broken == [First EXCEPT !.impacts = [n \in {"none"} |-> 1]]

AllContents == {First, Second, Third, Broken}

Load(c1, c2, one, two, crashes, requests, newOrgs) ==
  [ content |-> [i \in Importers |-> IF i = i1 THEN c1 ELSE c2],
    imports |-> [i \in Importers |-> IF i = i1 THEN one ELSE two],
    crashes |-> crashes, requests |-> requests, orgs |-> newOrgs ]
\* Two imports in a row beside a third, of the same and of another version;
\* users beside the imports of two versions; a killed container and a new
\* organisation; content that cannot be imported, in part or at all.
ImportLoads ==
  { Load(First, First, 2, 1, 0, 0, 0), Load(First, Second, 2, 1, 0, 0, 0),
    Load(Second, First, 1, 1, 0, 1, 0),  Load(First, First, 2, 0, 0, 2, 0),
    Load(First, First, 2, 0, 1, 1, 1),   Load(Third, Broken, 1, 1, 0, 0, 0) }

\* One container imports the same content twice.
LoneLoads == {Load(First, First, 2, 0, 0, 0, 0)}

ImportPathways == [n \in {"reboot"} |-> "p1"]
=============================================================================
