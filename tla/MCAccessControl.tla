-------------------------- MODULE MCAccessControl --------------------------
(***************************************************************************)
(* A small instance of AccessControl for TLC: two organisations, users     *)
(* with different roles, a system, an associate, headers that are broken,  *)
(* and one view of each kind that the URL configurations have.             *)
(***************************************************************************)
EXTENDS AccessControl, TLC

User(name) == [name |-> name, named |-> TRUE, id |-> TRUE, internal |-> FALSE]
Header == [ header |-> "ok", org |-> "o1", type |-> "User", user |-> User("reader"), serviceAccount |-> Nobody, auth |-> "jwt-auth",
            associate |-> FALSE, cn |-> None, psk |-> None ]
MCIdentities ==
  { Header, [Header EXCEPT !.user = User("writer")], [Header EXCEPT !.user = User("limited")],
    [Header EXCEPT !.org = "o2", !.user = User("mixed")],
    [Header EXCEPT !.user = [User("reader") EXCEPT !.internal = TRUE, !.id = FALSE]],
    [Header EXCEPT !.user = [User("limited") EXCEPT !.internal = TRUE]],
    [Header EXCEPT !.user = [User("writer") EXCEPT !.internal = TRUE]],
    [Header EXCEPT !.type = "ServiceAccount", !.user = Nobody, !.serviceAccount = [User("writer") EXCEPT !.internal = TRUE]],
    [Header EXCEPT !.type = "System", !.user = Nobody, !.cn = "uuid"],
    [Header EXCEPT !.type = "System", !.user = Nobody, !.cn = "name"],
    [Header EXCEPT !.org = None, !.type = "Associate", !.user = Nobody, !.auth = "saml-auth", !.associate = TRUE],
    [Header EXCEPT !.header = "garbled"], [Header EXCEPT !.header = None, !.psk = "right"],
    [Header EXCEPT !.org = "too long"], [Header EXCEPT !.user = [User("reader") EXCEPT !.named = FALSE]] }

View(name, classes) ==
  [ name |-> name, classes |-> classes, combine |-> "any", auth |-> "rh", app |-> "advisor",
    resource |-> "recommendation-results", plural |-> "rules", scope |-> "ORG", listed |-> {},
    methods |-> [a \in {} |-> None] ]
MCViews ==
  { View("stats", <<"rbac">>),
    [View("systems", <<"rbac">>) EXCEPT !.scope = "WORKSPACE"],
    [View("acks", <<"rbac", "cert", "redhat">>) EXCEPT
       !.resource = "disable-recommendations", !.listed = {<<"other", "GET">>},
       !.methods = "other" :> [resource |-> "denied"]],
    [View("reports", <<"rbac", "cert">>) EXCEPT !.resource = None, !.methods = "other" :> [scope |-> "ORG"]],
    [View("jobs", <<"org", "rbac">>) EXCEPT !.app = "tasks", !.resource = "task", !.combine = "all"],
    [View("ratings", <<"rbac", "redhat">>) EXCEPT !.scope = "WORKSPACE"],
    [View("internal", <<"associate">>) EXCEPT !.auth = "turnpike"],
    [View("import", <<>>) EXCEPT !.auth = "psk"], [View("ping", <<>>) EXCEPT !.auth = None],
    [View("read", <<"read", "rbac">>) EXCEPT !.combine = "all"] }

Limited(permission, ids) == [permission |-> permission, form |-> "definitions", groups |-> ids]
Other(permission, form) == [permission |-> permission, form |-> form, groups |-> {}]
MCRoles ==
  "reader" :> << Limited(<<"malformed">>, {"g1"}), Limited(<<"advisor", "*", "read">>, {}),
                 Other(<<"inventory", "hosts", "read">>, "no definitions") >> @@
  "writer" :> << Other(<<"advisor", "recommendation-results", "write">>, "no list"),
                 Limited(<<"inventory", "*", "*">>, {"g1"}), Limited(<<"inventory", "hosts", "write">>, {"g2"}) >> @@
  "limited" :> << Limited(<<"inventory", "hosts", "read">>, {"g1"}), Other(<<"*", "*", "*">>, "no definitions") >> @@
  "mixed"  :> << Limited(<<"tasks", "*", "*">>, {}), Limited(<<"advisor", "rules", "read">>, {"g1"}) >>
MCWorkspaces == "o1" :> "ws1" @@ "o2" :> "ws2"
MCRelations ==
  { <<"reader", "ws1", <<"advisor", "recommendation-results", "view", TRUE>>>>,
    <<"mixed", "ws1", <<"advisor", "recommendation-results", "view", TRUE>>>>,
    <<"mixed", "ws2", <<"tasks", "task", "edit", FALSE>>>> }
PageOf(ids, token) == [ids |-> ids, token |-> token]
MCHostGroups ==
  "reader"  :> <<PageOf({"g1"}, TRUE), PageOf({"g2"}, FALSE)>> @@
  "writer"  :> <<PageOf({"g1", "g3"}, TRUE)>> @@
  "limited" :> <<>> @@ "mixed" :> <<PageOf({"g2"}, FALSE)>>
MCSettings == {[rbac |-> TRUE, kessel |-> TRUE, psk |-> TRUE], [rbac |-> FALSE, kessel |-> FALSE, psk |-> FALSE]}
=============================================================================
