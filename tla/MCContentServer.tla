-------------------------- MODULE MCContentServer --------------------------
(***************************************************************************)
(* Small instances of ContentServer for TLC: two gunicorn workers, two     *)
(* organisations, sequences of two or three contents over two rules.       *)
(***************************************************************************)
EXTENDS ContentServer

CONSTANTS r1, r2, o1, o2, w1, w2

Rule(rule, sys, active, notif, tagNames) ==
  [ rule |-> rule, sys |-> sys, active |-> active, notif |-> notif, tags |-> tagNames, ruleset |-> TRUE,
    likelihood |-> 3, impact |-> "crash", risk |-> "reboot", component |-> "net",
    published |-> 2, playbooks |-> [ty \in {"fix"} |-> "a"] ]
Content(rows) ==
  [ valid |-> TRUE, rows |-> rows, impacts |-> [n \in {"crash"} |-> 4],
    risks |-> [n \in {"reboot"} |-> 3], tags |-> {"autoack", "cve"} ]

\* Active rules, one of them acked for everyone; ...
First   == Content(<<Rule(r1, 1, TRUE, "none", {"autoack"}),
                     [Rule(r2, 1, TRUE, "none", {"cve"}) EXCEPT !.risk = "null"]>>)
\* ... the first deactivated, to be enhanced, in two resolutions; ...
Second  == Content(<<Rule(r1, 1, FALSE, "enhance", {}),
                     [Rule(r1, 2, FALSE, "enhance", {}) EXCEPT
                        !.playbooks = [ty \in {"fix", "broken"} |-> IF ty = "fix" THEN "b" ELSE "incomplete"]]>>)
\* ... enhanced, without playbooks, with a tag that nobody lists, and a row
\* of another ruleset; ...
Third   == Content(<<[Rule(r1, 1, TRUE, "enhance", {"new"}) EXCEPT !.playbooks = <<>>, !.component = "null"],
                     [Rule(r2, 1, TRUE, "none", {}) EXCEPT !.ruleset = FALSE]>>)
\* ... with an older date, and a configuration that has dropped and changed
\* values; content that does not fit its configuration; and none at all.
Fourth  == [Content(<<[Rule(r1, 1, TRUE, "none", {"autoack"}) EXCEPT !.impact = "hang", !.risk = "none", !.published = 1]>>)
             EXCEPT !.impacts = [n \in {"hang"} |-> 1], !.risks = [n \in {"none"} |-> 1]]
NoImpact == [Second EXCEPT !.impacts = [n \in {"hang"} |-> 1]]
NoRisk   == [First EXCEPT !.risks = [n \in {"none"} |-> 1]]
Invalid  == [First EXCEPT !.valid = FALSE]

Run(posts, kills, requests) == [posts |-> posts, kills |-> kills, requests |-> requests]
ServerPosts ==
  { Run(<<First, Second, Third>>, 0, 3),  Run(<<First, Second, Third, Fourth>>, 1, 1),
    Run(<<First, NoImpact, Second>>, 0, 2), Run(<<NoRisk, First, Second>>, 1, 2),
    Run(<<Invalid, First, Fourth>>, 0, 1) }

ServerPathways == [k \in {<<"net", "reboot">>} |-> "p1"]
=============================================================================
