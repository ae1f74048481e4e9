---------------------------- MODULE MCUserViews -----------------------------
(***************************************************************************)
(* A small instance of UserViews for TLC: two organisations, three hosts   *)
(* that differ in every column a filter looks at, three rules of two       *)
(* pathways, and one request for each filter.                              *)
(***************************************************************************)
EXTENDS UserViews

Host == [ org |-> "o1", name |-> "web", group |-> "g1", groupName |-> "prod", ungrouped |-> FALSE,
          tags |-> {"a"}, type |-> None, bootc |-> FALSE, method |-> "dnf", workloads |-> {"sap_system"},
          os |-> <<8, 4>>, owner |-> "sat", branch |-> "b1", profile |-> [sids |-> {"ABC"}] ]
MCHosts == {"h1", "h2", "h3"}
MCHostOf ==
  "h1" :> Host @@
  "h2" :> [Host EXCEPT !.name = "db", !.group = "g2", !.groupName = "test", !.tags = {"a", "b"}, !.type = "edge",
                       !.method = "rpm-ostree", !.workloads = {"mssql"}, !.os = <<9>>, !.owner = "self",
                       !.branch = "b2", !.profile = [sids |-> {}]] @@
  "h3" :> [Host EXCEPT !.org = "o2", !.bootc = TRUE, !.group = None, !.ungrouped = TRUE]

MCRules == {"r1", "r2", "r3"}
MCRuleOf ==
  "r1" :> [risk |-> 4, category |-> 1, pathway |-> "p1", tags |-> {"incident", "t1"}, playbooks |-> 1, reboot |-> TRUE] @@
  "r2" :> [risk |-> 2, category |-> 2, pathway |-> "p2", tags |-> {"t1"}, playbooks |-> 0, reboot |-> FALSE] @@
  "r3" :> [risk |-> 0, category |-> 2, pathway |-> "p2", tags |-> {}, playbooks |-> 0, reboot |-> FALSE]
MCPathways == {"p1", "p2"}
MCUploaded == {{}, {"r1", "r2"}, {"r2", "r3"}}
MCAckedFirst == {{<<"o1", "h1", "r2">>}}
MCBatches == {{"h1"}, {"h1", "h2"}, {"h3"}}
MCTopicTags == "t" :> "t1"

Ask == [ org |-> "o1", allowed |-> {}, owner |-> {}, tags |-> {}, type |-> {}, profile |-> {}, category |-> {},
         branch |-> {}, methods |-> {}, workloads |-> {}, groups |-> {}, pathway |-> {}, name |-> {},
         versions |-> {}, hits |-> {}, incident |-> {}, disabled |-> {}, ruleTags |-> {}, impacting |-> {},
         ruleIncident |-> {}, playbook |-> {}, status |-> {}, reboot |-> {}, shown |-> {}, risk |-> {}, topic |-> {} ]
MCRequests ==
  { Ask, [Ask EXCEPT !.org = "o2", !.groups = {""}, !.type = {"bootc"}],
    [Ask EXCEPT !.allowed = {"g1"}, !.groups = {"prod", ""}, !.type = {"conventional"}, !.workloads = {"sap"},
                !.owner = {"sat"}, !.branch = {"b1"}, !.methods = {"ostree", "dnfyum"}],
    [Ask EXCEPT !.tags = {"a", "b"}, !.methods = {"ostree"}, !.type = {"edge"}, !.workloads = {"mssql", "sap"},
                !.profile = {[field |-> "sids", op |-> "ne", value |-> "ABC"]}],
    [Ask EXCEPT !.category = {2}, !.name = {"web"}, !.versions = {<<8, 4>>}],
    [Ask EXCEPT !.pathway = {"p1"}, !.disabled = {TRUE}, !.hits = {"no", "4"}] }
=============================================================================
