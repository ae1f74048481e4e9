--------------------------- MODULE AccessControl ---------------------------
(***************************************************************************)
(* What a worker of the API does with a request before the view runs       *)
(* (permissions.py, kessel.py, feature_flags.py, utils.retry_request): it  *)
(* authenticates the request by its identity header, then asks the         *)
(* permission classes of the view one after another.  Most say at once;    *)
(* InsightsRBACPermission asks RBAC, with retries, or, while the feature   *)
(* flag is on, Kessel, by way of the organisation's default workspace,     *)
(* which the worker remembers, or by pages of host groups.                 *)
(*                                                                         *)
(* A worker handles one request at a time; it shares only its cache and    *)
(* the flag, which is refreshed at any time, with the requests after it.   *)
(* No view has the scope HOST, which is left out.                          *)
(***************************************************************************)
EXTENDS Integers, Sequences, SequencesExt

CONSTANTS
  Identities,    \* identity headers, as the gateways send them
  Views,         \* the views: classes, resource, scope and methods
  Settings,      \* values of RBAC_ENABLED, KESSEL_ENABLED and the PSK
  Roles,         \* fixture: RBAC's list of roles for a username
  Workspaces,    \* fixture: the default workspace of each organisation
  Relations,     \* fixture: <<user, workspace, permission>> that Kessel allows
  HostGroups,    \* fixture: the pages of host groups Kessel has for a user
  MaxRetries,    \* max_retries of retry_request
  MaxRequests    \* bound: requests a worker handles

Role == [permission : (STRING \X STRING \X STRING) \cup {<<"malformed">>},
         form : {"definitions", "no definitions", "no list"}, groups : SUBSET STRING]
Page == [ids : SUBSET STRING, token : BOOLEAN]

\* No view has InsightsRBACPermission twice; RBAC and Kessel know each user;
\* a page of Kessel's that is not the last has host groups and a token.
ASSUME AccessAssumption ==
  /\ MaxRetries \in Nat \ {0} /\ MaxRequests \in Nat
  /\ \A v \in Views :
       /\ v.classes \in Seq({"read", "org", "cert", "redhat", "associate", "rbac"})
       /\ \A m, n \in DOMAIN v.classes : v.classes[m] = "rbac" /\ v.classes[n] = "rbac" => m = n
  /\ \A i \in Identities : \A u \in {i.user, i.serviceAccount} :
       u.named => u.name \in DOMAIN Roles \cap DOMAIN HostGroups
  /\ \A u \in DOMAIN Roles : Roles[u] \in Seq(Role)
  /\ \A u \in DOMAIN HostGroups :
       /\ HostGroups[u] \in Seq(Page)
       /\ \A n \in 1..(Len(HostGroups[u]) - 1) : HostGroups[u][n].ids # {} /\ HostGroups[u][n].token

VARIABLES
  settings, flag,     \* the process' settings, the feature flag
  phase,              \* where the request is
  identity, view, action, method,   \* the request
  asked,              \* the permission class that is asked
  tries, response,    \* retry_request: attempts made, its response object
  groups, scanned,    \* request.host_groups ({"all"}: not set), pages read
  workspace,          \* kessel.workspace_cache
  served              \* bound: requests handled

request == <<identity, view, action, method>>
remote  == <<tries, response, scanned>>
vars    == <<settings, flag, phase, request, asked, remote, groups, workspace, served>>

Phases == {"idle", "authenticate", "ask", "rbac", "answer", "workspace", "check", "pages",
           "granted", "denied", "unauthenticated"}
None   == "none"
All    == {"all"}
Nobody == [name |-> None, named |-> FALSE, id |-> FALSE, internal |-> FALSE]
-----------------------------------------------------------------------------
(* Permissions are <<app, resource, method>>. *)

\* Variant: who may write may not read.
CoversNoImplied(role, sought) ==
  /\ role[1] \in {sought[1], "*"} /\ role[2] \in {sought[2], "*"} /\ role[3] \in {sought[3], "*"}

\* RBACPermission.__contains__: a role's permission includes the one sought.
Covers(role, sought) ==
  \/ role = sought
  \/ /\ role[1] \in {sought[1], "*"}
     /\ role[2] \in {sought[2], "*"}
     /\ \/ role[3] \in {sought[3], "*"}
        \/ sought[3] = "read" /\ role[3] = "write"

\* as_kessel_permission, and '_assigned' for the resources checked so.
KesselPermission(p) ==
  <<p[1], p[2], IF p[3] = "write" THEN "edit" ELSE "view", p[2] = "recommendation-results">>

SafeMethods == {"GET", "HEAD", "OPTIONS"}
Access == IF method \in SafeMethods THEN "read" ELSE "write"

\* InsightsRBACPermission._get_resource: what the view's method says, else
\* the view, else the view's base name in the plural.
OfMethod(field, default) ==
  IF action \in DOMAIN view.methods /\ field \in DOMAIN view.methods[action]
  THEN view.methods[action][field] ELSE default
Resource == OfMethod("resource", IF view.resource = None THEN view.plural ELSE view.resource)
Scope    == OfMethod("scope", view.scope)
Sought   == <<view.app, Resource, Access>>

\* Variant: one role with groups is enough to see only these.
GroupsOfRolesAny(roles) ==
  LET named == UNION {x.groups : x \in {x \in ToSet(roles) :
                   /\ x.permission # <<"malformed">> /\ x.form = "definitions"
                   /\ Covers(x.permission, <<"inventory", "hosts", "read">>)}}
  IN  IF named = {} THEN All ELSE named

\* find_host_groups: of the roles that let one read hosts, one without
\* resource definitions opens all hosts, otherwise the groups are those that
\* any of them names; naming none leaves the request without a filter.  A
\* role whose definitions are no list is passed over.
GroupsOfRoles(roles) ==
  LET mine  == {r \in ToSet(roles) : r.permission # <<"malformed">>
                  /\ Covers(r.permission, <<"inventory", "hosts", "read">>) /\ r.form # "no list"}
      named == UNION {x.groups : x \in {x \in mine : x.form = "definitions"}}
  IN  IF named = {} \/ \E r \in mine : r.form = "no definitions" THEN All ELSE named

\* request_to_user_data: from the part of the identity that its type names.
UserData == IF identity.type = "ServiceAccount" THEN identity.serviceAccount ELSE identity.user
HasUser  == identity.type \in {"User", "ServiceAccount"} /\ UserData # Nobody
-----------------------------------------------------------------------------
Init ==
  /\ settings \in Settings /\ flag \in BOOLEAN
  /\ phase = "idle" /\ asked = 0 /\ tries = 0 /\ response = None
  /\ identity \in Identities /\ view \in Views /\ action = "list" /\ method = "GET"
  /\ groups = All /\ scanned = 0 /\ workspace = [o \in {} |-> None] /\ served = 0

\* A request arrives.
Arrive ==
  /\ phase = "idle" /\ served < MaxRequests
  /\ served' = served + 1
  /\ identity' \in Identities /\ view' \in Views
  /\ action' \in {"list", "other"} /\ method' \in {"GET", "POST"}
  /\ phase' = "authenticate" /\ asked' = 0 /\ groups' = All
  /\ tries' = 0 /\ response' = None /\ scanned' = 0
  /\ UNCHANGED <<settings, flag, workspace>>

\* Unleash is refreshed; when it cannot be reached custom_fallback takes the
\* flag from the settings.
FlagChanges ==
  /\ flag' = ~ flag
  /\ UNCHANGED <<settings, phase, request, asked, remote, groups, workspace, served>>

To(p) ==
  phase' = p /\ UNCHANGED <<settings, flag, request, asked, remote, groups, workspace, served>>
-----------------------------------------------------------------------------
(* Authentication. *)

\* get_identity_header: decoded, with an identity that is a structure.
HasIdentity == identity.header = "ok"

\* RHIdentityAuthentication asks for an organisation of at most 50
\* characters and a type.
RHIdentity == HasIdentity /\ identity.org \notin {None, "too long"} /\ identity.type # None
\* TurnpikeIdentityAuthentication.
Turnpike   == HasIdentity /\ identity.auth = "saml-auth" /\ identity.type = "Associate" /\ identity.associate
\* ImportContentPSKAuthentication: anybody, when no key is set.
PreShared  == settings.psk => identity.psk = "right"

Authenticates ==
  CASE view.auth = "rh"       -> RHIdentity
    [] view.auth = "turnpike" -> Turnpike
    [] view.auth = "psk"      -> PreShared
    [] view.auth = None       -> TRUE

Authenticate == phase = "authenticate" /\ To(IF Authenticates THEN "ask" ELSE "unauthenticated")
-----------------------------------------------------------------------------
(* The permission classes, combined by | or in a list. *)

\* Where the request goes when the n-th class has said yes or no.
After(n, yes) ==
  IF yes = (view.combine = "any") \/ n = Len(view.classes)
  THEN (IF yes THEN "granted" ELSE "denied") ELSE "ask"
Says(yes) == phase' = After(asked, yes)
\* The services change nothing else.
Settled == UNCHANGED <<settings, flag, request, asked, workspace, served>>

\* ReadOnlyUser.
ReadOnlyOk == method \in SafeMethods
\* OrgPermission.
OrgOk == identity.org # None
\* CertAuthPermission: a system whose name is a UUID.
CertOk == identity.cn = "uuid"
\* BaseRedHatUserPermission and BaseAssociatePermission: the view's name and
\* method are listed (or nothing is), then IsRedHatInternalUser,
\* AssociatePermission. A service account has no 'user' to be internal.
Listed == view.listed # {} => <<action, method>> \in view.listed
RedHatOk    == identity.user # Nobody /\ Listed /\ identity.user.internal
AssociateOk == Listed /\ identity.associate

\* InsightsRBACPermission, before it asks anybody: the view is not denied to
\* it, and the identity has an organisation and a user with a name.
RbacAsks == Resource # "denied" /\ identity.org # None /\ HasUser /\ UserData.named
Kessel   == settings.kessel /\ flag

\* has_permission of the next class.
Ask ==
  /\ phase = "ask"
  /\ IF view.classes = <<>>
     THEN phase' = "granted" /\ UNCHANGED asked
     ELSE /\ asked' = asked + 1
          /\ LET class == view.classes[asked + 1]
                 ok == CASE class = "read"      -> ReadOnlyOk
                         [] class = "org"       -> OrgOk
                         [] class = "cert"      -> CertOk
                         [] class = "redhat"    -> RedHatOk
                         [] class = "associate" -> AssociateOk
                         [] class = "rbac"      -> FALSE
                 said(yes) == phase' = After(asked + 1, yes)
             IN  IF class # "rbac" THEN said(ok)
                 ELSE IF ~ RbacAsks THEN said(FALSE)
                 ELSE IF ~ settings.rbac THEN said(TRUE)
                 ELSE IF ~ Kessel THEN phase' = "rbac"
                 ELSE IF ~ UserData.id THEN said(FALSE)
                 ELSE phase' = IF Scope = "WORKSPACE" THEN "pages" ELSE "workspace"
  /\ UNCHANGED <<settings, flag, request, remote, groups, workspace, served>>
-----------------------------------------------------------------------------
(* has_rbac_permission. *)

TriesLeft == tries < MaxRetries
\* What retry_request tries again: answers from 500 on and refused connections.
TriedAgain == {"server", "refused"}

\* One attempt.  After an exception the response object is still that of the
\* attempt before, or the one made up at the start.
Attempt(outcome) ==
  /\ phase = "rbac" /\ TriesLeft
  /\ tries' = tries + 1
  /\ response' = IF outcome \in {"refused", "timeout"} THEN response ELSE outcome
  /\ phase' = IF outcome \in TriedAgain THEN "rbac" ELSE "answer"
  /\ UNCHANGED <<settings, flag, request, asked, groups, scanned, workspace, served>>

\* The attempts are used up.
GiveUp == phase = "rbac" /\ ~ TriesLeft /\ To("answer")

\* The roles are read: host groups first, then the first role that covers
\* the permission.  No answer, a failure, or an answer without a list of
\* data is a no.
Answer ==
  /\ phase = "answer"
  /\ IF response = "ok"
     THEN LET roles == Roles[UserData.name] IN
          /\ groups' = IF GroupsOfRoles(roles) = All THEN groups ELSE GroupsOfRoles(roles)
          /\ Says(\E r \in ToSet(roles) : r.permission # <<"malformed">> /\ Covers(r.permission, Sought))
     ELSE Says(FALSE) /\ UNCHANGED groups
  /\ UNCHANGED remote /\ Settled
-----------------------------------------------------------------------------
(* has_kessel_permission. *)

\* Variant: one workspace is remembered, whatever the organisation.
CacheKeyOne == "o1"
\* get_workspace_id: by organisation.
CacheKey == identity.org

\* The workspace of the organisation, from the cache or from RBAC.
GetWorkspace ==
  /\ phase = "workspace"
  /\ \/ /\ CacheKey \in DOMAIN workspace
        /\ phase' = "check" /\ UNCHANGED workspace
     \/ /\ CacheKey \notin DOMAIN workspace
        /\ workspace' = [o \in DOMAIN workspace \cup {CacheKey} |->
                           IF o = CacheKey THEN Workspaces[identity.org] ELSE workspace[o]]
        /\ phase' = "check"
     \/ /\ CacheKey \notin DOMAIN workspace \* RBAC cannot be reached
        /\ Says(FALSE) /\ UNCHANGED workspace
  /\ UNCHANGED <<settings, flag, request, asked, remote, groups, served>>

\* kessel.client.check; anything but ALLOWED is a no, and so is an exception.
Check ==
  /\ phase = "check"
  /\ \/ Says(<<UserData.name, workspace[CacheKey], KesselPermission(Sought)>> \in Relations)
     \/ Says(FALSE)
  /\ UNCHANGED <<remote, groups>> /\ Settled

\* Variant: the first page is all that is read.
GoesOnNever(page) == FALSE
GoesOn(page) == page.ids # {} /\ page.token

\* host_groups_for: a page of get_resources, until one is empty or has no
\* token to continue with.  The request sees these groups, and without any
\* it is denied.
ReadPage ==
  /\ phase = "pages"
  /\ LET pages == HostGroups[UserData.name]
         read  == IF scanned = 0 THEN {} ELSE groups
         page  == IF scanned < Len(pages) THEN pages[scanned + 1] ELSE [ids |-> {}, token |-> FALSE]
     IN  \/ /\ groups' = read \cup page.ids /\ scanned' = scanned + 1
            /\ IF GoesOn(page) THEN UNCHANGED phase ELSE Says(groups' # {})
         \/ Says(FALSE) /\ groups' = All /\ UNCHANGED scanned
  /\ UNCHANGED <<tries, response>> /\ Settled

\* The view runs, or the refusal is sent.
Finish == phase \in {"granted", "denied", "unauthenticated"} /\ To("idle")
-----------------------------------------------------------------------------
Outcomes == {"ok", "client", "server", "refused", "timeout"}
Handle ==
  \/ Authenticate \/ Ask \/ (\E outcome \in Outcomes : Attempt(outcome)) \/ GiveUp \/ Answer
  \/ GetWorkspace \/ Check \/ ReadPage \/ Finish
Next == Arrive \/ FlagChanges \/ Handle
Spec == Init /\ [][Next]_vars
-----------------------------------------------------------------------------
(* Properties. *)

Authorising == {"rbac", "answer", "workspace", "check", "pages"}

\* A request is where its view's classes have led it, and asks a service only
\* for InsightsRBACPermission; the worker remembers organisations by name.
TypeOK ==
  /\ settings \in Settings /\ flag \in BOOLEAN /\ phase \in Phases
  /\ identity \in Identities /\ view \in Views
  /\ tries \in 0..MaxRetries /\ response \in Outcomes \cup {None} /\ scanned \in Nat
  /\ phase # "idle" => asked \in 0..Len(view.classes)
  /\ phase \in {"authenticate", "ask"} => asked < Len(view.classes) \/ view.classes = <<>>
  /\ phase \in Authorising => asked > 0 /\ view.classes[asked] = "rbac" /\ RbacAsks /\ settings.rbac
  /\ served \in 0..MaxRequests

\* What the documentation of InsightsRBACPermission and RBACPermission says
\* one needs: a role for the app (or all), the resource (or all) and the
\* method (or all, or write where reading is sought).
Wide(part) == {part, "*"}
Entitled(user) ==
  \E r \in ToSet(Roles[user]) :
    r.permission \in Wide(view.app) \X Wide(Resource)
                     \X (Wide(Access) \cup (IF Access = "read" THEN {"write"} ELSE {}))

\* A view behind RBAC alone runs if RBAC says that the user is entitled to
\* it, and never otherwise; unless RBAC gave its answer nothing runs.
GrantedIfEntitled ==
  /\ view.classes = <<"rbac">> /\ settings.rbac /\ tries > 0 /\ phase \in {"granted", "denied"}
  => (phase = "granted") = (response = "ok" /\ Resource # "denied" /\ Entitled(UserData.name))

\* A request whose roles RBAC gave sees every host when one of the roles is
\* not limited to groups, and otherwise exactly the groups of all roles, in
\* whatever order RBAC lists them and whichever role or class granted it.
\* ("all" is also what no usable group at all comes to.)
GroupsExact ==
  phase = "granted" /\ response = "ok" =>
    LET reads == {r \in ToSet(Roles[UserData.name]) :
                    /\ r.permission \in Wide("inventory") \X Wide("hosts") \X {"read", "write", "*"}
                    /\ r.form # "no list"}
        limited == {r \in reads : r.form = "definitions"}
        open    == reads # limited
    IN  groups = IF open \/ UNION {r.groups : r \in limited} = {}
                 THEN All ELSE UNION {r.groups : r \in limited}

\* A user whom Kessel let through has the permission in the workspace of
\* the request's own organisation, whichever requests of others the worker
\* handled and remembered before, or at least one group of hosts.
KesselGrants ==
  /\ view.classes = <<"rbac">> /\ settings.rbac /\ tries = 0 /\ phase = "granted"
  => \/ scanned > 0 /\ groups # {}
     \/ <<UserData.name, Workspaces[identity.org], KesselPermission(Sought)>> \in Relations

\* Every page of host groups is read before a request goes on with them,
\* also when another class grants it in the end.
PagesComplete ==
  phase = "granted" /\ scanned > 0 /\ groups # All =>
    groups = UNION {HostGroups[UserData.name][n].ids : n \in DOMAIN HostGroups[UserData.name]}
=============================================================================
