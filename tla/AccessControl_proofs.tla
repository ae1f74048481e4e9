------------------------ MODULE AccessControl_proofs ------------------------
(***************************************************************************)
(* What the permission classes grant, for all identities, views, roles,    *)
(* organisations and numbers of requests.                                  *)
(***************************************************************************)
EXTENDS AccessControl, TLAPS

USE DEF UserData

\* InsightsRBACPermission, which a view has at most once, was not asked yet;
\* until then the request is as it arrived.
Unasked == \A n \in 1..asked : view.classes[n] # "rbac"
Clean   == groups = All /\ tries = 0 /\ response = None /\ scanned = 0

\* The worker remembers no other workspace for an organisation than its own.
Remembers == \A o \in DOMAIN workspace : workspace[o] = Workspaces[o]

PagesOf == HostGroups[UserData.name]
Ids(n)  == UNION {PagesOf[k].ids : k \in 1..n}

\* What each phase of a request knows.
Stages ==
  /\ phase = "authenticate" => asked = 0
  /\ phase \in {"authenticate", "ask"} /\ Unasked => Clean
  /\ phase \in {"rbac", "answer"} => groups = All /\ scanned = 0
  /\ phase = "answer" \/ (phase = "rbac" /\ response # None) => tries > 0
  /\ phase \in {"workspace", "check", "pages"} => tries = 0 /\ response = None
  /\ phase = "check" => identity.org \in DOMAIN workspace
  /\ phase \in {"workspace", "check"} => scanned = 0
  /\ phase = "pages" => scanned <= Len(PagesOf) /\ (scanned > 0 => groups = Ids(scanned))

\* What the request has when a class after this one is asked, or none is.
Answered ==
  phase \in {"ask", "granted"} /\ response = "ok" =>
    UserData.named /\ groups = GroupsOfRoles(Roles[UserData.name])
Listing ==
  phase \in {"ask", "granted"} /\ scanned > 0 /\ groups # All =>
    UserData.named /\ groups = Ids(Len(PagesOf))

IInv == TypeOK /\ Remembers /\ Stages /\ Answered /\ Listing /\ GrantedIfEntitled /\ KesselGrants

\* A role covers the permission sought exactly if each part is the same, or
\* all of them, or writes where reading is sought (RBACPermission).
LEMMA CoversWide ==
  ASSUME NEW role \in (STRING \X STRING \X STRING) \cup {<<"malformed">>},
         NEW a, NEW r, NEW m \in {"read", "write"}
  PROVE  (role # <<"malformed">> /\ Covers(role, <<a, r, m>>))
           <=> role \in Wide(a) \X Wide(r) \X (Wide(m) \cup (IF m = "read" THEN {"write"} ELSE {}))
<1>1. CASE role \in STRING \X STRING \X STRING
  <2>1. role = <<role[1], role[2], role[3]>> /\ role # <<"malformed">>
    BY <1>1
  <2> QED
    BY <2>1 DEF Covers, Wide
<1>2. CASE role = <<"malformed">>
  BY <1>2 DEF Wide
<1> QED
  BY <1>1, <1>2

LEMMA RolesTyped ==
  ASSUME NEW u \in DOMAIN Roles, NEW r \in ToSet(Roles[u])
  PROVE  r \in Role
BY AccessAssumption DEF AccessAssumption, ToSet

\* Who has a role that covers what the request seeks is entitled to it.
LEMMA CoveredIsEntitled ==
  ASSUME NEW u \in DOMAIN Roles
  PROVE  (\E r \in ToSet(Roles[u]) : r.permission # <<"malformed">> /\ Covers(r.permission, Sought))
           <=> Entitled(u)
<1>1. Access \in {"read", "write"}
  BY DEF Access
<1>2. \A r \in ToSet(Roles[u]) : r.permission \in (STRING \X STRING \X STRING) \cup {<<"malformed">>}
  BY RolesTyped DEF Role
<1> QED
  BY <1>1, <1>2, CoversWide, ZenonT(60) DEF Entitled, Sought

\* The groups read from the roles are those of all roles that let one read
\* hosts, or all hosts when one of these is not limited.
LEMMA GroupsOfAllRoles ==
  ASSUME NEW u \in DOMAIN Roles
  PROVE  LET reads == {r \in ToSet(Roles[u]) :
                    /\ r.permission \in Wide("inventory") \X Wide("hosts") \X {"read", "write", "*"}
                    /\ r.form # "no list"}
             limited == {r \in reads : r.form = "definitions"}
             open    == reads # limited
         IN  GroupsOfRoles(Roles[u]) = IF open \/ UNION {r.groups : r \in limited} = {}
                                       THEN All ELSE UNION {r.groups : r \in limited}
<1> DEFINE mine == {r \in ToSet(Roles[u]) : r.permission # <<"malformed">>
                      /\ Covers(r.permission, <<"inventory", "hosts", "read">>) /\ r.form # "no list"}
           reads == {r \in ToSet(Roles[u]) :
                    /\ r.permission \in Wide("inventory") \X Wide("hosts") \X {"read", "write", "*"}
                    /\ r.form # "no list"}
           limited == {r \in reads : r.form = "definitions"}
<1>1. Wide("read") \cup {"write"} = {"read", "write", "*"}
  BY DEF Wide
<1>2. \A r \in ToSet(Roles[u]) :
        (r.permission # <<"malformed">> /\ Covers(r.permission, <<"inventory", "hosts", "read">>))
          <=> r.permission \in Wide("inventory") \X Wide("hosts") \X {"read", "write", "*"}
  BY <1>1, RolesTyped, CoversWide DEF Role
<1>3. mine = reads
  BY <1>2
<1>4. (reads # limited) <=> \E r \in mine : r.form = "no definitions"
  <2>1. \A r \in reads : r.form \in {"definitions", "no definitions"}
    BY RolesTyped DEF Role
  <2> QED
    BY <1>3, <2>1
<1> HIDE DEF mine, reads
<1>5. {x \in mine : x.form = "definitions"} = limited
  BY <1>3
<1>6. GroupsOfRoles(Roles[u]) =
        IF UNION {x.groups : x \in {x \in mine : x.form = "definitions"}} = {}
           \/ \E r \in mine : r.form = "no definitions"
        THEN All ELSE UNION {x.groups : x \in {x \in mine : x.form = "definitions"}}
  BY DEF GroupsOfRoles, mine
<1> QED
  BY <1>4, <1>5, <1>6 DEF reads
-----------------------------------------------------------------------------
(* One lemma for each action. *)

\* Where a class' answer leads; with a single class it is the view's.
LEMMA AfterLeads ==
  ASSUME NEW n, NEW yes \in BOOLEAN
  PROVE  /\ After(n, yes) \in {"ask", "granted", "denied"}
         /\ After(n, yes) = "ask" => n # Len(view.classes)
         /\ view.classes = <<"rbac">> /\ n = 1 =>
              (After(n, yes) = "granted" <=> yes) /\ After(n, yes) # "ask"
BY DEF After

\* After a service has answered, the request goes on as somebody's who was asked.
LEMMA SaysKeeps ==
  ASSUME IInv, phase \in Authorising, NEW yes \in BOOLEAN, Says(yes), Settled \/ UNCHANGED <<settings, flag, request, asked, served>>,
         tries' = tries, response' = response, scanned' \in Nat
  PROVE  TypeOK' /\ Stages' /\ phase' \in {"ask", "granted", "denied"}
         /\ (view.classes = <<"rbac">> => (phase' = "granted" <=> yes) /\ asked = 1)
<1>1. UNCHANGED <<settings, flag, request, asked, served>> /\ phase' = After(asked, yes)
  BY DEF Settled, Says
<1>2. /\ asked \in 1..Len(view.classes) /\ view.classes[asked] = "rbac"
      /\ view \in Views /\ phase # "idle"
  BY DEF IInv, TypeOK, Authorising
<1>3. phase' \in {"ask", "granted", "denied"} /\ (phase' = "ask" => asked < Len(view.classes))
  BY <1>1, <1>2, AfterLeads, AccessAssumption DEF AccessAssumption
<1>4. ~ Unasked'
  BY <1>1, <1>2 DEF Unasked, request
<1>5. TypeOK'
  BY <1>1, <1>2, <1>3 DEF IInv, TypeOK, request, Phases, Authorising
<1>6. Stages'
  BY <1>3, <1>4 DEF Stages
<1>7. view.classes = <<"rbac">> => (phase' = "granted" <=> yes) /\ asked = 1
  BY <1>1, <1>2, AfterLeads
<1> QED
  BY <1>3, <1>5, <1>6, <1>7

LEMMA InitHolds == Init => IInv
BY AccessAssumption
DEF Init, IInv, TypeOK, Remembers, Stages, Answered, Listing, GrantedIfEntitled, KesselGrants, Phases,
    Authorising, AccessAssumption, None

LEMMA ArriveKeeps ==
  ASSUME IInv, Arrive
  PROVE  IInv'
<1>1. TypeOK'
  <2>1. view' \in Views /\ view'.classes \in Seq({"read", "org", "cert", "redhat", "associate", "rbac"})
    BY AccessAssumption DEF Arrive, AccessAssumption
  <2>2. Len(view'.classes) \in Nat /\ (Len(view'.classes) = 0 => view'.classes = <<>>)
    BY <2>1
  <2> QED
    BY <2>1, <2>2, AccessAssumption DEF IInv, TypeOK, Arrive, Phases, Authorising, AccessAssumption
<1> QED
  BY <1>1 DEF IInv, Arrive, Remembers, Stages, Clean, Answered, Listing, GrantedIfEntitled, KesselGrants

\* The flag decides at the next question alone.
LEMMA FlagKeeps ==
  ASSUME IInv, FlagChanges
  PROVE  IInv'
<1>1. TypeOK'
  BY DEF IInv, TypeOK, FlagChanges, request, remote, RbacAsks, Resource, OfMethod, HasUser
<1>2. Stages' /\ Answered' /\ Listing' /\ Remembers'
  BY DEF IInv, FlagChanges, request, remote, Stages, Answered, Listing, Remembers, Unasked, Clean, Ids, PagesOf
<1>3. GrantedIfEntitled' /\ KesselGrants'
  BY DEF IInv, FlagChanges, request, remote, GrantedIfEntitled, KesselGrants, Resource, OfMethod, Entitled,
         Access, Sought, Scope
<1> QED
  BY <1>1, <1>2, <1>3 DEF IInv

LEMMA AuthenticateKeeps ==
  ASSUME IInv, Authenticate
  PROVE  IInv'
<1>1. /\ phase = "authenticate" /\ phase' \in {"ask", "unauthenticated"}
      /\ UNCHANGED <<settings, flag, request, asked, remote, groups, workspace, served>>
  BY DEF Authenticate, To
<1>2. Unasked /\ Clean
  BY <1>1 DEF IInv, Stages, Unasked
<1>3. TypeOK'
  BY <1>1 DEF IInv, TypeOK, request, remote, Phases, Authorising
<1>4. Stages' /\ Remembers'
  BY <1>1, <1>2 DEF IInv, Stages, Remembers, Clean, remote, request
<1> QED
  BY <1>1, <1>2, <1>3, <1>4 DEF IInv, Answered, Listing, GrantedIfEntitled, KesselGrants, Clean, remote, None

LEMMA FinishKeeps ==
  ASSUME IInv, Finish
  PROVE  IInv'
<1>1. /\ phase' = "idle"
      /\ UNCHANGED <<settings, flag, request, asked, remote, groups, workspace, served>>
  BY DEF Finish, To
<1>2. TypeOK'
  BY <1>1 DEF IInv, TypeOK, request, remote, Phases, Authorising
<1> QED
  BY <1>1, <1>2 DEF IInv, Stages, Remembers, Answered, Listing, GrantedIfEntitled, KesselGrants

\* The attempts at RBAC.
LEMMA AttemptKeeps ==
  ASSUME IInv, (\E outcome \in Outcomes : Attempt(outcome)) \/ GiveUp
  PROVE  IInv'
<1>1. /\ phase = "rbac" /\ phase' \in {"rbac", "answer"} /\ tries \in 0..MaxRetries
      /\ UNCHANGED <<settings, flag, request, asked, groups, scanned, workspace, served>>
  BY DEF Attempt, GiveUp, To, remote, IInv, TypeOK
<1>2. tries' \in 0..MaxRetries /\ tries' > 0 /\ response' \in Outcomes \cup {None}
  BY AccessAssumption DEF AccessAssumption, Attempt, GiveUp, To, TriesLeft, remote, IInv, TypeOK, Outcomes
<1>3. TypeOK'
  BY <1>1, <1>2 DEF IInv, TypeOK, request, Phases, Authorising, RbacAsks, Resource, OfMethod, HasUser
<1>4. Stages' /\ Remembers'
  BY <1>1, <1>2 DEF IInv, Stages, Remembers
<1> QED
  BY <1>1, <1>3, <1>4 DEF IInv, Answered, Listing, GrantedIfEntitled, KesselGrants

LEMMA AnswerKeeps ==
  ASSUME IInv, Answer
  PROVE  IInv'
<1> DEFINE user == UserData.name
           yes == response = "ok" /\ \E r \in ToSet(Roles[user]) :
                                      r.permission # <<"malformed">> /\ Covers(r.permission, Sought)
<1>1. /\ phase = "answer" /\ phase \in Authorising /\ Says(yes) /\ Settled
      /\ UNCHANGED remote
  BY DEF Answer, Authorising
<1>2. /\ tries' = tries /\ response' = response /\ scanned' = scanned /\ scanned = 0 /\ tries > 0
      /\ groups = All /\ workspace' = workspace /\ UNCHANGED request /\ settings' = settings
  BY <1>1 DEF remote, Settled, IInv, Stages, TypeOK
<1>3. RbacAsks /\ settings.rbac /\ user \in DOMAIN Roles
  BY <1>1, AccessAssumption DEF IInv, TypeOK, RbacAsks, AccessAssumption
<1>4. /\ TypeOK' /\ Stages' /\ phase' \in {"ask", "granted", "denied"}
      /\ view.classes = <<"rbac">> => (phase' = "granted" <=> yes)
  <2> HIDE DEF yes
  <2>1. yes \in BOOLEAN
    BY DEF yes
  <2> QED
    BY <1>1, <1>2, <2>1, SaysKeeps DEF IInv, TypeOK
<1>5. Answered'
  <2>1. response = "ok" => groups' = GroupsOfRoles(Roles[user])
    BY <1>2 DEF Answer
  <2> QED
    BY <1>2, <1>3, <2>1 DEF Answered, RbacAsks, request
<1>6. GrantedIfEntitled'
  <2>1. yes <=> response = "ok" /\ Entitled(user)
    BY <1>3, CoveredIsEntitled
  <2>2. (Entitled(user))' <=> Entitled(user)
    BY <1>2 DEF Entitled, request, Resource, OfMethod, Access
  <2>3. Resource' = Resource /\ Resource # "denied" /\ identity' = identity /\ view' = view
    BY <1>2, <1>3 DEF request, Resource, OfMethod, RbacAsks
  <2>4. user' = user /\ (Entitled(UserData.name))' = (Entitled(user))'
    BY <2>3
  <2> HIDE DEF yes
  <2>5. view.classes = <<"rbac">> /\ phase' \in {"granted", "denied"} =>
          (phase' = "granted") = (response = "ok" /\ Entitled(user))
    BY <1>4, <2>1
  <2> QED
    BY <1>2, <2>2, <2>3, <2>4, <2>5 DEF GrantedIfEntitled
<1>7. Listing' /\ KesselGrants' /\ Remembers'
  BY <1>2 DEF IInv, Listing, KesselGrants, Remembers
<1> QED
  BY <1>4, <1>5, <1>6, <1>7 DEF IInv

LEMMA WorkspaceKeeps ==
  ASSUME IInv, GetWorkspace
  PROVE  IInv'
<1>1. /\ phase = "workspace" /\ phase \in Authorising /\ tries = 0 /\ response = None /\ scanned = 0
      /\ UNCHANGED <<settings, flag, request, asked, remote, groups, served>>
  BY DEF GetWorkspace, Authorising, IInv, Stages
<1>2. Remembers'
  BY DEF GetWorkspace, IInv, Remembers, CacheKey
<1>3. CASE phase' = "check" /\ identity.org \in DOMAIN workspace'
  <2>1. TypeOK'
    BY <1>1, <1>3 DEF IInv, TypeOK, request, remote, Phases, Authorising, RbacAsks, Resource, OfMethod, HasUser
  <2>2. Stages'
    BY <1>1, <1>3 DEF Stages, remote, request
  <2> QED
    BY <1>2, <1>3, <2>1, <2>2 DEF IInv, Answered, Listing, GrantedIfEntitled, KesselGrants
<1>4. CASE Says(FALSE)
  <2>1. TypeOK' /\ Stages' /\ (view.classes = <<"rbac">> => phase' # "granted")
    BY <1>1, <1>4, SaysKeeps DEF remote, IInv, TypeOK
  <2> QED
    BY <1>1, <1>2, <2>1 DEF IInv, Answered, Listing, GrantedIfEntitled, KesselGrants, remote, request, None
<1> QED
  BY <1>3, <1>4 DEF GetWorkspace, CacheKey

LEMMA CheckKeeps ==
  ASSUME IInv, Check
  PROVE  IInv'
<1>1. /\ phase = "check" /\ phase \in Authorising /\ tries = 0 /\ response = None /\ scanned = 0
      /\ UNCHANGED <<remote, groups>> /\ Settled /\ identity.org \in DOMAIN workspace
  BY DEF Check, Authorising, IInv, Stages
<1> DEFINE allowed == <<UserData.name, Workspaces[identity.org], KesselPermission(Sought)>> \in Relations
<1>2. PICK yes \in BOOLEAN : Says(yes) /\ (yes => allowed)
  <2>1. workspace[CacheKey] = Workspaces[identity.org]
    BY <1>1 DEF IInv, Remembers, CacheKey
  <2>2. CASE Says(allowed)
    <3>1. CASE allowed
      BY <2>2, <3>1 DEF Says, After
    <3>2. CASE ~ allowed
      <4>1. allowed = FALSE
        BY <3>2
      <4>2. Says(FALSE)
        <5> HIDE DEF allowed
        <5> QED
          BY <2>2, <4>1
      <4> QED
        BY <4>2
    <3> QED
      BY <3>1, <3>2
  <2>3. CASE Says(FALSE)
    BY <2>3
  <2>4. Says(allowed) \/ Says(FALSE)
    BY <2>1 DEF Check
  <2> QED
    BY <2>2, <2>3, <2>4
<1>3. TypeOK' /\ Stages' /\ (view.classes = <<"rbac">> => (phase' = "granted" <=> yes))
  BY <1>1, <1>2, SaysKeeps DEF remote, IInv, TypeOK
<1>4. /\ UNCHANGED <<identity, view, action, method, settings, workspace>>
      /\ tries' = 0 /\ response' = None /\ scanned' = 0
  BY <1>1 DEF Settled, request, remote
<1>5. allowed' <=> allowed
  BY <1>4 DEF Sought, Resource, OfMethod, Access
<1>6. KesselGrants'
  BY <1>2, <1>3, <1>4, <1>5 DEF KesselGrants
<1> QED
  BY <1>3, <1>4, <1>6 DEF IInv, Remembers, Answered, Listing, GrantedIfEntitled, None

\* Each page adds its groups; only the last has no token or no groups.
LEMMA PageKeeps ==
  ASSUME IInv, ReadPage
  PROVE  IInv'
<1> DEFINE page == IF scanned < Len(PagesOf) THEN PagesOf[scanned + 1] ELSE [ids |-> {}, token |-> FALSE]
           read == IF scanned = 0 THEN {} ELSE groups
<1>1. /\ phase = "pages" /\ phase \in Authorising /\ tries = 0 /\ response = None
      /\ UNCHANGED <<tries, response>> /\ Settled /\ scanned \in Nat /\ scanned <= Len(PagesOf)
  BY DEF ReadPage, Authorising, IInv, Stages, TypeOK
<1>2. UNCHANGED <<identity, view, action, method, settings, flag, workspace, asked, served>>
  BY <1>1 DEF Settled, request
<1>3. /\ RbacAsks /\ UserData.named /\ Len(PagesOf) \in Nat
      /\ \A n \in 1..(Len(PagesOf) - 1) : PagesOf[n].ids # {} /\ PagesOf[n].token
  <2>1. RbacAsks /\ UserData.named /\ UserData.name \in DOMAIN HostGroups
    BY <1>1, AccessAssumption DEF IInv, TypeOK, RbacAsks, AccessAssumption
  <2> QED
    BY <2>1, AccessAssumption DEF AccessAssumption, PagesOf
<1>4. Ids(scanned) = read /\ PagesOf' = PagesOf /\ \A n : Ids(n)' = Ids(n)
  <2>1. scanned = 0 => Ids(scanned) = {}
    BY DEF Ids
  <2>2. PagesOf' = PagesOf
    BY <1>2 DEF PagesOf
  <2> QED
    BY <1>1, <2>1, <2>2 DEF IInv, Stages, Ids
<1>5. CASE groups' = read \cup page.ids /\ scanned' = scanned + 1 /\ GoesOn(page) /\ UNCHANGED phase
  <2>1. scanned < Len(PagesOf) /\ page = PagesOf[scanned + 1]
    BY <1>5, <1>1 DEF GoesOn
  <2>2. groups' = Ids(scanned + 1)
    BY <1>1, <1>4, <1>5, <2>1 DEF Ids
  <2>3. TypeOK'
    BY <1>1, <1>2, <1>5 DEF IInv, TypeOK, request, Phases, Authorising, RbacAsks, Resource, OfMethod, HasUser
  <2>4. Stages'
    BY <1>1, <1>2, <1>3, <1>4, <1>5, <2>1, <2>2 DEF Stages
  <2> QED
    BY <1>1, <1>2, <1>5, <2>3, <2>4 DEF IInv, Remembers, Answered, Listing, GrantedIfEntitled, KesselGrants
<1>6. CASE groups' = read \cup page.ids /\ scanned' = scanned + 1 /\ ~ GoesOn(page) /\ Says(groups' # {})
  <2>1. groups' = Ids(Len(PagesOf))
    <3>1. CASE scanned < Len(PagesOf)
      <4>1. scanned + 1 = Len(PagesOf)
        BY <1>1, <1>3, <1>6, <3>1 DEF GoesOn
      <4> QED
        BY <1>1, <1>4, <1>6, <3>1, <4>1 DEF Ids
    <3>2. CASE scanned = Len(PagesOf)
      BY <1>4, <1>6, <3>2
    <3> QED
      BY <1>1, <1>3, <3>1, <3>2
  <2>0. PICK yes \in BOOLEAN : (yes <=> groups' # {}) /\ Says(yes)
    <3>1. groups' # {} \/ groups' = {}
      OBVIOUS
    <3> QED
      BY <1>6, <3>1 DEF Says, After
  <2>2. TypeOK' /\ Stages' /\ (view.classes = <<"rbac">> => (phase' = "granted" <=> groups' # {}))
    BY <1>1, <1>6, <2>0, SaysKeeps
  <2>3. Listing'
    BY <1>2, <1>3, <1>4, <2>1 DEF Listing
  <2>4. KesselGrants'
    BY <1>1, <1>2, <1>6, <2>2 DEF KesselGrants
  <2> QED
    BY <1>1, <1>2, <2>2, <2>3, <2>4 DEF IInv, Remembers, Answered, GrantedIfEntitled, None
<1>7. CASE Says(FALSE) /\ groups' = All /\ UNCHANGED scanned
  <2>1. TypeOK' /\ Stages' /\ (view.classes = <<"rbac">> => phase' # "granted")
    BY <1>1, <1>7, SaysKeeps
  <2> QED
    BY <1>1, <1>2, <1>7, <2>1 DEF IInv, Remembers, Answered, Listing, GrantedIfEntitled, KesselGrants, None
<1> QED
  BY <1>5, <1>6, <1>7 DEF ReadPage, PagesOf

\* A class that needs no service says at once; InsightsRBACPermission says so
\* only when it need not ask.
LEMMA AskKeeps ==
  ASSUME IInv, Ask
  PROVE  IInv'
<1>1. /\ phase = "ask" /\ phase # "idle" /\ asked \in 0..Len(view.classes)
      /\ UNCHANGED <<settings, flag, request, remote, groups, workspace, served>>
      /\ view \in Views /\ view.classes \in Seq({"read", "org", "cert", "redhat", "associate", "rbac"})
  BY AccessAssumption DEF Ask, IInv, TypeOK, AccessAssumption
<1>2. UNCHANGED <<identity, view, action, method, tries, response, scanned>>
  BY <1>1 DEF request, remote
<1>3. Unasked => Clean
  BY <1>1 DEF IInv, Stages
<1>4. CASE view.classes = <<>>
  <2>1. phase' = "granted" /\ asked' = asked
    BY <1>4 DEF Ask
  <2>2. TypeOK'
    BY <1>1, <1>2, <2>1 DEF IInv, TypeOK, Phases, Authorising
  <2>3. Unasked /\ Clean
    BY <1>1, <1>3, <1>4 DEF Unasked
  <2>4. Stages' /\ Remembers' /\ Answered' /\ Listing'
    BY <1>1, <1>2, <2>1, <2>3 DEF IInv, Stages, Remembers, Answered, Listing, Clean, None
  <2> QED
    BY <1>2, <1>4, <2>2, <2>4 DEF IInv, GrantedIfEntitled, KesselGrants
<1> DEFINE class == view.classes[asked + 1]
<1>5. CASE view.classes # <<>>
  <2>1. asked' = asked + 1 /\ asked + 1 \in 1..Len(view.classes)
    BY <1>1, <1>5 DEF Ask, IInv, TypeOK
  <2>2. view.classes = <<"rbac">> => asked = 0 /\ class = "rbac"
    BY <2>1, <1>1
  <2>3. \/ /\ phase' \in {"ask", "granted", "denied"}
           /\ phase' = "ask" => asked + 1 # Len(view.classes)
           /\ view.classes = <<"rbac">> /\ settings.rbac => phase' # "granted"
        \/ /\ phase' \in {"rbac", "pages", "workspace"}
           /\ class = "rbac" /\ RbacAsks /\ settings.rbac
    <3>1. CASE class # "rbac"
      BY <1>5, <2>2, <3>1 DEF Ask, After
    <3>2. CASE class = "rbac" /\ (~ RbacAsks \/ (settings.rbac /\ Kessel /\ ~ UserData.id))
      <4>1. phase' = After(asked + 1, FALSE)
        <5>1. CASE ~ RbacAsks
          BY <1>5, <3>2, <5>1 DEF Ask
        <5>2. CASE RbacAsks /\ settings.rbac /\ Kessel /\ ~ UserData.id
          BY <1>5, <3>2, <5>2 DEF Ask
        <5> QED
          BY <3>2, <5>1, <5>2
      <4> QED
        BY <2>1, <2>2, <4>1 DEF After
    <3>3. CASE class = "rbac" /\ RbacAsks /\ ~ settings.rbac
      BY <1>5, <3>3, AfterLeads DEF Ask
    <3>4. CASE class = "rbac" /\ RbacAsks /\ settings.rbac /\ (~ Kessel \/ UserData.id)
      BY <1>5, <3>4 DEF Ask
    <3> QED
      BY <3>1, <3>2, <3>3, <3>4
  <2>4. TypeOK'
    BY <1>1, <1>2, <2>1, <2>3 DEF IInv, TypeOK, Phases, Authorising, RbacAsks, Resource, OfMethod, HasUser
  <2>5. Unasked' => Clean
    BY <1>1, <1>2, <1>3, <2>1 DEF Unasked
  <2>6. class = "rbac" => Clean
    <3>1. class = "rbac" => Unasked
      BY <1>1, <2>1, AccessAssumption DEF Unasked, AccessAssumption
    <3> QED
      BY <1>3, <3>1
  <2>7. Stages' /\ Remembers' /\ Answered' /\ Listing'
    <3>1. Stages'
      BY <1>1, <1>2, <2>3, <2>5, <2>6 DEF Stages, Clean, None
    <3> QED
      BY <1>1, <1>2, <2>3, <3>1 DEF IInv, Remembers, Answered, Listing, Ids, PagesOf
  <2>8. GrantedIfEntitled' /\ KesselGrants'
    <3>1. view.classes = <<"rbac">> => tries' = 0
      BY <1>2, <2>2, <2>6 DEF Clean
    <3> QED
      BY <1>1, <1>2, <2>3, <3>1 DEF GrantedIfEntitled, KesselGrants
  <2> QED
    BY <2>4, <2>7, <2>8 DEF IInv
<1> QED
  BY <1>4, <1>5

LEMMA NextKeeps == IInv /\ [Next]_vars => IInv'
<1> SUFFICES ASSUME IInv, [Next]_vars PROVE IInv'
  OBVIOUS
<1>1. CASE UNCHANGED vars
  <2>1. TypeOK' /\ Stages' /\ Answered' /\ Listing' /\ Remembers'
    BY <1>1 DEF vars, request, remote, IInv, TypeOK, Stages, Answered, Listing, Remembers, Unasked, Clean,
                Ids, PagesOf, RbacAsks, Resource, OfMethod, HasUser
  <2>2. GrantedIfEntitled' /\ KesselGrants'
    BY <1>1 DEF vars, request, remote, IInv, GrantedIfEntitled, KesselGrants, Resource, OfMethod, Entitled,
                Access, Sought
  <2> QED
    BY <2>1, <2>2 DEF IInv
<1>2. CASE Arrive
  BY <1>2, ArriveKeeps
<1>3. CASE FlagChanges
  BY <1>3, FlagKeeps
<1>4. CASE Authenticate
  BY <1>4, AuthenticateKeeps
<1>5. CASE Ask
  BY <1>5, AskKeeps
<1>6. CASE (\E outcome \in Outcomes : Attempt(outcome)) \/ GiveUp
  BY <1>6, AttemptKeeps
<1>7. CASE Answer
  BY <1>7, AnswerKeeps
<1>8. CASE GetWorkspace
  BY <1>8, WorkspaceKeeps
<1>9. CASE Check
  BY <1>9, CheckKeeps
<1>10. CASE ReadPage
  BY <1>10, PageKeeps
<1>11. CASE Finish
  BY <1>11, FinishKeeps
<1> QED
  BY <1>1, <1>2, <1>3, <1>4, <1>5, <1>6, <1>7, <1>8, <1>9, <1>10, <1>11 DEF Next, Handle

LEMMA InvariantHolds == Spec => []IInv
<1> QED
  BY InitHolds, NextKeeps, PTL DEF Spec
-----------------------------------------------------------------------------
(* What a reader should know of. *)

\* A request goes through its view's permission classes in their order, and
\* only InsightsRBACPermission asks a service, for a user with a name.
THEOREM TypeCorrect == Spec => []TypeOK
<1> QED
  BY InvariantHolds, PTL DEF IInv

\* A view behind RBAC alone runs if and only if RBAC has answered that the
\* user is entitled to it (InsightsRBACPermission, has_rbac_permission).
THEOREM GrantedWhenEntitled == Spec => []GrantedIfEntitled
<1> QED
  BY InvariantHolds, PTL DEF IInv

\* What Kessel grants was granted in the user's own organisation's workspace,
\* whatever requests the worker has handled before (get_workspace_id).
THEOREM KesselGrantsOwn == Spec => []KesselGrants
<1> QED
  BY InvariantHolds, PTL DEF IInv

LEMMA InvariantGroups == IInv => GroupsExact /\ PagesComplete
<1> SUFFICES ASSUME IInv PROVE GroupsExact /\ PagesComplete
  OBVIOUS
<1>1. GroupsExact
  <2> SUFFICES ASSUME phase = "granted", response = "ok" PROVE GroupsExact
    BY DEF GroupsExact
  <2>1. groups = GroupsOfRoles(Roles[UserData.name]) /\ UserData.name \in DOMAIN Roles
    BY AccessAssumption DEF IInv, Answered, TypeOK, AccessAssumption
  <2> QED
    BY <2>1, GroupsOfAllRoles DEF GroupsExact
<1>2. PagesComplete
  <2> SUFFICES ASSUME phase = "granted", scanned > 0, groups # All PROVE PagesComplete
    BY DEF PagesComplete
  <2>1. groups = Ids(Len(PagesOf)) /\ UserData.name \in DOMAIN HostGroups
    BY AccessAssumption DEF IInv, Listing, TypeOK, AccessAssumption
  <2>2. DOMAIN PagesOf = 1..Len(PagesOf)
    BY <2>1, AccessAssumption DEF AccessAssumption, PagesOf
  <2> QED
    BY <2>1, <2>2 DEF PagesComplete, Ids, PagesOf
<1> QED
  BY <1>1, <1>2

\* A request sees exactly the host groups of all the user's roles, or every
\* host when one role is not limited (find_host_groups).
THEOREM GroupsAreExact == Spec => []GroupsExact
<1> QED
  BY InvariantHolds, InvariantGroups, PTL

\* No page of host groups is left out (Kessel.host_groups_for).
THEOREM AllPagesRead == Spec => []PagesComplete
<1> QED
  BY InvariantHolds, InvariantGroups, PTL
=============================================================================
