---------------------------- MODULE AccessRules ----------------------------
(***************************************************************************)
(* Who may use the web application, as rules without state: the roles of   *)
(* zebra_day/rbac.py, the identities that zebra_day/web/auth.py builds     *)
(* from the claims of Cognito and of the external broker, the tokens of    *)
(* zebra_day/web/ai_agent_access.py, and the gate that                     *)
(* CognitoAuthMiddleware.dispatch puts before every handler.  A route is   *)
(* the sequence of the segments of its path.                               *)
(***************************************************************************)
EXTENDS Paths

CONSTANTS
  AllowedDomains,   \* email domains of the settings
  GroupRoleMap,     \* the configured map of groups to roles, as written
  AdminGroups,      \* groups of the broker that stand for ADMIN
  AgentsEnabled,    \* LSMC_AI_AGENT_ACCESS_ENABLED
  HasInternalKey    \* an internal API key is configured

AppRoles == {"OPERATOR", "ADMIN"}

\* normalize_group_role_map drops blank groups and unknown roles.
NormalizedMap ==
  [g \in {h \in DOMAIN GroupRoleMap : h # "" /\ GroupRoleMap[h] \in AppRoles}
     |-> GroupRoleMap[g]]

WithOperator(roles) == IF "ADMIN" \in roles THEN roles \cup {"OPERATOR"} ELSE roles

RolesFromGroups(groups) ==
  WithOperator({NormalizedMap[g] : g \in groups \cap DOMAIN NormalizedMap})

HasAnyRole(roles, allowed) == roles \cap allowed # {}

-----------------------------------------------------------------------------
(* Identities.  A claim is [domain, groups, roles, entitled]; the    *)
(* domain of an email that is not there is "".                             *)

CognitoRefusal(c) == IF c.domain \in AllowedDomains THEN "" ELSE "blocked_domain"

CognitoRoles(c) == RolesFromGroups(c.groups)

\* Roles the broker names, ADMIN for its admin groups, and what the user's
\* entitlements to this service add.
BrokerRoles(c) ==
  WithOperator(c.roles \cup c.entitled
                 \cup IF c.groups \cap AdminGroups # {} THEN {"ADMIN"} ELSE {})

BrokerRefusal(c) ==
  IF c.domain = "" THEN "auth_error"
  ELSE IF c.domain \notin AllowedDomains THEN "blocked_domain"
  ELSE IF BrokerRoles(c) = {} THEN "not_authorized" ELSE ""

Refusal(mode, c) == IF mode = "cognito" THEN CognitoRefusal(c) ELSE BrokerRefusal(c)
RolesOf(mode, c) == IF mode = "cognito" THEN CognitoRoles(c) ELSE BrokerRoles(c)

-----------------------------------------------------------------------------
(* The gate.  A visit v is a GET [route, json, loopback, bearer].          *)

Heads(names) == {<<n>> : n \in names}

IsPublic(v) ==
  \/ v.route \in Heads({"healthz", "readyz", "login"})
  \/ v.route \in {<<"auth", n>> : n \in {"login", "callback", "logout", "error"}}
  \/ v.route = <<"auth", "lsmc", "callback">>
  \/ /\ v.route # <<>>
     /\ \E name \in {"static", "files", "generated", "etc"} : Begins(Head(v.route), name)

LocalDocs == Heads({"openapi.json", "docs", "redoc"})
               \cup {<<"api", "docs">>, <<"api", "redoc">>}

Structured == LocalDocs \cup Heads({"health", "obs_services", "api_health",
                "endpoint_health", "db_health", "my_health", "auth_health"})

NeedsJson(v) ==
  v.route \in Structured \/ v.json \/ (Len(v.route) > 1 /\ Head(v.route) = "api")

Open(mode, v) == mode = "none" \/ IsPublic(v) \/ (v.route \in LocalDocs /\ v.loopback)

\* A session principal counts in the server process that has stored it.
Live(who, instance) == who.user # "" /\ who.instance = instance
Stale(who, instance) == who.user # "" /\ who.instance # instance

BySession(mode, v, who, instance) == ~Open(mode, v) /\ Live(who, instance)

Expired(mode, v, who, instance) ==
  ~Open(mode, v) /\ Stale(who, instance) /\ ~NeedsJson(v)

\* What an agent token may be granted at all.
EndpointCatalog == {<<"api", "v1", "labs">>, <<"api", "v1", "config">>}

\* The status that validate_ai_agent_request ends with; 200 is a grant.  An
\* expiry that cannot be parsed ends it with an exception of another kind.
AgentRaises(v, grant) ==
  /\ AgentsEnabled /\ v.bearer = "agent" /\ v.route \in EndpointCatalog
  /\ grant.file = "read" /\ grant.token = "undated"

AgentStatus(v, grant) ==
  IF ~AgentsEnabled THEN 503
  ELSE IF grant.file = "unset" THEN 500
  ELSE IF v.route \notin EndpointCatalog THEN 403
  ELSE IF grant.file = "broken" THEN 500
  ELSE IF grant.token # "active" THEN 401
  ELSE IF v.route \notin grant.endpoints THEN 403 ELSE 200

\* The credential that a request without a session passes with; the claims
\* of a bearer token count in Cognito's mode only.
WithoutSession(mode, v, grant, c) ==
  IF v.bearer = "key" /\ HasInternalKey THEN "service"
  ELSE IF v.bearer = "agent" /\ AgentStatus(v, grant) = 200 THEN "agent"
  ELSE IF v.bearer = "token" /\ mode = "cognito" /\ CognitoRefusal(c) = "" THEN "token"
  ELSE "refused"

LoginStatus(v) == IF NeedsJson(v) THEN 401 ELSE 302

RefusalStatus(v, grant) ==
  IF v.bearer = "agent" THEN AgentStatus(v, grant) ELSE LoginStatus(v)

=============================================================================
