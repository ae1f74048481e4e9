------------------------- MODULE MCMaintenancePlans -------------------------
(***************************************************************************)
(* A small instance of MaintenancePlans for TLC: two organisations whose   *)
(* hosts share an Insights identifier, and one host more of the first,     *)
(* which is without an account, like the second organisation; two rules,   *)
(* one with a playbook, and two workers.                                   *)
(***************************************************************************)
EXTENDS MaintenancePlans

CONSTANTS w1, w2   \* the workers, which are interchangeable

Host == [ org |-> "o1", account |-> "o1", insights |-> "i1", system |-> "rhel", name |-> "web", group |-> "g1", groupName |-> "prod", ungrouped |-> FALSE,
          tags |-> {}, type |-> None, bootc |-> FALSE, method |-> "dnf", workloads |-> {},
          owner |-> "sat", branch |-> "b1", profile |-> [sids |-> {}] ]
MCHosts == {"h1", "h2", "h3"}
MCHostOf ==
  "h1" :> Host @@ "h2" :> [Host EXCEPT !.org = "o2", !.account = None, !.branch = "b2"] @@
  "h3" :> [Host EXCEPT !.account = None, !.insights = "i3", !.system = "other"]

MCRules == {"r1", "r2"}
MCRuleOf ==
  "r1" :> [risk |-> 4, category |-> 1, pathway |-> None, tags |-> {"incident", "t1"}, playbooks |-> 1, reboot |-> TRUE,
           books |-> {[system |-> "rhel", type |-> "fix"]}] @@
  "r2" :> [risk |-> 2, category |-> 2, pathway |-> None, tags |-> {"t1"}, playbooks |-> 0, reboot |-> FALSE, books |-> {}]
MCTopicTags == "t" :> "t1"
MCLists == {{[rule |-> "r1", system |-> None]},
            {[rule |-> "r1", system |-> "i1"], [rule |-> "r2", system |-> "i1"], [rule |-> "r1", system |-> "i3"]}}
MCFirstPlans == "p1" :> [org |-> "o1", branch |-> "b1"]
MCFirstActions == {{[id |-> 1, plan |-> "p1", rule |-> "r1", host |-> "h1", book |-> {}]}}

Ask == [ org |-> "o1", account |-> "o1", allowed |-> {}, owner |-> {}, tags |-> {}, type |-> {}, profile |-> {}, category |-> {},
         branch |-> {"b1"}, methods |-> {}, workloads |-> {}, groups |-> {}, name |-> {}, offline |-> {}, reportCount |-> {},
         rule |-> {}, ignored |-> {}, ansible |-> {}, risk |-> {}, ruleIncident |-> {} ]
MCWorkers == {w1, w2}
WorkersAlike == Permutations(MCWorkers)
MCRequests == {Ask, [Ask EXCEPT !.org = "o2", !.account = None, !.branch = {"b2"}]}
=============================================================================
