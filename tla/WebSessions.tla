---------------------------- MODULE WebSessions ----------------------------
(***************************************************************************)
(* Signing in and out of the web application: the requests of one browser, *)
(* the session cookie that Starlette keeps on the browser's side, the      *)
(* login, callback and logout handlers of zebra_day/web/app.py, the gate   *)
(* before every other handler, and the rollups that count the answers.     *)
(* A request carries a copy of the cookie as it is sent, and its answer    *)
(* rewrites the whole cookie when the browser receives it, so overlapping  *)
(* requests overwrite each other's sessions.  The server may be restarted  *)
(* between any two steps.                                                  *)
(***************************************************************************)
EXTENDS AccessRules, RequestRollups

CONSTANTS
  MaxRequests,   \* bound: requests that the browser sends
  MaxParallel,   \* bound: requests in flight at once
  MaxRestarts,   \* bound: restarts of the server
  Visits,        \* requests other than those that sign in and out
  Statuses,      \* what the other handlers answer with
  Targets,       \* paths a login asks to return to
  Claims         \* by user: what Cognito or the broker say of him

ASSUME SessionsAssumption ==
  /\ MaxRequests \in Nat /\ MaxRestarts \in Nat
  /\ RecentLimit \in Nat /\ Statuses \subseteq Nat

Requests == 1..MaxRequests
Users == DOMAIN Claims
Roles == UNION {Claims[u].roles \cup Claims[u].entitled : u \in Users}
Modes == {"none", "cognito", "external_broker"}
Callbacks == {"callback", "brokercallback"}
Callback(m) == IF m = "cognito" THEN "callback" ELSE "brokercallback"

Nobody == [user |-> "", roles |-> {}, instance |-> 0]
NoSession == [state |-> 0, next |-> "", who |-> Nobody]

VARIABLES
  mode,        \* auth_mode of the settings
  instance,    \* SERVER_INSTANCE_ID
  cookie,      \* the session in the browser's jar
  sent,        \* requests sent so far
  req,         \* the requests
  counts,      \* the rollups
  answers,     \* the answers that RequestLoggingMiddleware has seen
  recent,      \* users of the recent authentication events
  events       \* how many such events there were

vars == <<mode, instance, cookie, sent, req, counts, answers, recent, events>>
rollups == <<counts, answers, recent, events>>

Asks ==
  [kind : {"login"}, target : Targets]
    \cup [kind : Callbacks, code : {TRUE}, state : 0..MaxRequests]
    \cup [kind : Callbacks, code : {FALSE}, state : {0}]
    \cup [kind : {"logout"}] \cup [kind : {"visit"}, visit : Visits]

\* A request that has neither a reply nor an answer.
Request(at, ask, jar, had, won, crossed) ==
  [at |-> at, ask |-> ask, jar |-> jar, had |-> had, reply |-> "", to |-> "",
   pass |-> "", won |-> won, crossed |-> crossed, by |-> 0]

Idle == Request("idle", [kind |-> "none"], NoSession, FALSE, Nobody, FALSE)

InFlight(r) == req[r].at \in {"sent", "exchanging", "answered", "raised"}

Route(ask) ==
  IF ask.kind = "visit" THEN ask.visit.route
  ELSE IF ask.kind = "brokercallback" THEN <<"auth", "lsmc", "callback">>
  ELSE <<"auth", ask.kind>>

Init ==
  /\ mode \in Modes
  /\ instance = 1 /\ cookie = NoSession /\ sent = 0
  /\ req = [r \in Requests |-> Idle]
  /\ counts = NoCounts /\ answers = {} /\ recent = <<>> /\ events = 0

-----------------------------------------------------------------------------
(* The browser.                                                            *)

\* A callback brings a state that the server has handed out, or none.
Send(ask) ==
  /\ sent < MaxRequests /\ sent' = sent + 1
  /\ Cardinality({o \in Requests : InFlight(o)}) < MaxParallel
  /\ ask.kind \in Callbacks =>
       \/ ask.state = 0
       \/ ask.state \in 1..sent /\ ask.kind = Callback(mode) /\ req[ask.state].ask.kind = "login"
  /\ req' = [r \in Requests |->
       IF r = sent + 1
       THEN Request("sent", ask, cookie, cookie # NoSession, Nobody,
                    \E o \in Requests : InFlight(o))
       ELSE [req[r] EXCEPT !.crossed = @ \/ InFlight(r)]]
  /\ UNCHANGED <<mode, instance, cookie, rollups>>

\* Of a request that is over only what the properties ask for is kept.
Over(q, at) ==
  Request(at, IF q.ask.kind = "login" THEN q.ask ELSE [kind |-> q.ask.kind],
          NoSession, FALSE, q.won, q.crossed /\ q.ask.kind = "logout")

\* SessionMiddleware sets the cookie to a session that is not empty and
\* clears one that was sent and is empty now; an exception passes it by.
Receive(r) ==
  /\ req[r].at \in {"answered", "raised"}
  /\ req' = [req EXCEPT ![r] = Over(req[r], "done")]
  /\ cookie' = IF req[r].at = "answered" /\ (req[r].jar # NoSession \/ req[r].had)
               THEN req[r].jar ELSE cookie
  /\ UNCHANGED <<mode, instance, sent, rollups>>

-----------------------------------------------------------------------------
(* The server's answers.                                                   *)

\* The end of a handler and of the middleware around it: the answer goes
\* out with the session jar and is counted.
Answer(r, status, to, jar, pass, won) ==
  /\ req' = [req EXCEPT ![r] =
       [at |-> "answered", ask |-> @.ask, jar |-> jar, had |-> @.had, reply |-> @.reply,
        to |-> to, pass |-> pass, won |-> won, crossed |-> @.crossed, by |-> instance]]
  /\ counts' = Recorded(counts, Route(req[r].ask), status)
  /\ answers' = answers \cup
       {[request |-> r, route |-> Route(req[r].ask), status |-> status]}
  /\ UNCHANGED <<mode, instance, cookie, sent>>

Redirect(r, to, jar) ==
  Answer(r, 302, to, jar, "open", Nobody) /\ UNCHANGED <<recent, events>>

\* _auth_error_reason: the name of a failure on the page that reports it.
Reason(raised) ==
  IF raised = "invalid_state" THEN "state_mismatch"
  ELSE IF raised = "token_exchange_failed" THEN "token_validation_failed"
  ELSE IF raised = "missing_code" THEN "auth_failed" ELSE raised

\* An exception is logged and raised again; it reaches no rollup.
Raise(r) ==
  /\ req' = [req EXCEPT ![r].at = "raised"]
  /\ UNCHANGED <<mode, instance, cookie, sent, rollups>>

Asked(r, kind) == req[r].at = "sent" /\ req[r].ask.kind = kind

\* Mutant: the path of an unfinished login stays.
LoginStartOnce(r) ==
  /\ Asked(r, "login")
  /\ LET old == req[r].jar.next
     IN IF mode = "none" THEN Redirect(r, req[r].ask.target, req[r].jar)
        ELSE Redirect(r, mode, [state |-> r, who |-> req[r].jar.who,
               next |-> IF old # "" THEN old ELSE req[r].ask.target])

\* The state is a fresh token: the number of the request.
LoginStart(r) ==
  /\ Asked(r, "login")
  /\ IF mode = "none" THEN Redirect(r, req[r].ask.target, req[r].jar)
     ELSE Redirect(r, mode, [state |-> r, next |-> req[r].ask.target, who |-> req[r].jar.who])

\* Before the exchange: a callback of another mode, no code, another state.
\* Cognito's route cannot do without the code and answers 422.
CallbackRefuse(r) ==
  LET ask == req[r].ask
      refused == ~ask.code \/ req[r].jar.state = 0 \/ ask.state # req[r].jar.state
  IN /\ req[r].at = "sent" /\ ask.kind \in Callbacks
     /\ \/ /\ ask.kind = "callback" /\ ~ask.code
           /\ Answer(r, 422, "", req[r].jar, "open", Nobody)
           /\ UNCHANGED <<recent, events>>
        \/ /\ ask.kind = "callback" /\ ask.code /\ mode = "none"
           /\ Redirect(r, "/", req[r].jar)
        \/ /\ ask.kind = "callback" /\ ask.code /\ mode = "external_broker"
           /\ Raise(r)
        \/ /\ ask.kind = "brokercallback" /\ mode # "external_broker"
           /\ Redirect(r, "auth_error", req[r].jar)
        \/ /\ ask.kind = Callback(mode) /\ mode # "none" /\ refused
           /\ (ask.kind = "callback" => ask.code)
           /\ Redirect(r, Reason(IF ask.code THEN "invalid_state" ELSE "missing_code"),
                       req[r].jar)

\* The code goes to the token endpoint, and the handler awaits the reply.
CallbackBegin(r) ==
  LET ask == req[r].ask
  IN /\ req[r].at = "sent" /\ ask.kind = Callback(mode) /\ mode # "none"
     /\ ask.code /\ req[r].jar.state # 0 /\ ask.state = req[r].jar.state
     /\ \E reply \in Users \cup {"refused", "silence"} :
          req' = [req EXCEPT ![r] =
            [at |-> "exchanging", ask |-> ask, jar |-> @.jar, had |-> @.had, reply |-> reply,
             to |-> "", pass |-> "", won |-> Nobody, crossed |-> @.crossed, by |-> 0]]
     /\ UNCHANGED <<mode, instance, cookie, sent, rollups>>

\* Mutant: the groups are taken for roles.
PrincipalOfGroups(u) == [user |-> u, roles |-> Claims[u].groups, instance |-> instance]

Principal(u) ==
  [user |-> u, roles |-> RolesOf(mode, Claims[u]), instance |-> instance]

ExchangeRefused(r) ==
  /\ req[r].at = "exchanging"
  /\ \/ /\ req[r].reply = "refused"
        /\ Redirect(r, Reason(IF mode = "cognito" THEN "token_exchange_failed"
                              ELSE "auth_error"), req[r].jar)
     \/ /\ req[r].reply \in Users /\ Refusal(mode, Claims[req[r].reply]) # ""
        /\ Redirect(r, Reason(Refusal(mode, Claims[req[r].reply])), req[r].jar)

\* Mutant: the broker is asked without a timeout.
ExchangeWaits(r) ==
  /\ req[r].at = "exchanging" /\ req[r].reply = "silence" /\ mode = "cognito"
  /\ Redirect(r, "token_validation_failed", req[r].jar)

\* After ten seconds httpx raises; the broker's callback does not catch it.
ExchangeTimesOut(r) ==
  /\ req[r].at = "exchanging" /\ req[r].reply = "silence"
  /\ IF mode = "external_broker" THEN Raise(r)
     ELSE Redirect(r, "token_validation_failed", req[r].jar)

\* Mutant: whoever the provider names is signed in.
ExchangeUnchecked(r) ==
  /\ req[r].at = "exchanging" /\ req[r].reply \in Users
  /\ LET who == Principal(req[r].reply)
     IN Answer(r, 302, req[r].jar.next, [NoSession EXCEPT !.who = who], "open", who)
  /\ UNCHANGED <<recent, events>>

\* The principal is stored, and the state and the path of the login go.
ExchangeDone(r) ==
  /\ req[r].at = "exchanging"
  /\ req[r].reply \in Users /\ Refusal(mode, Claims[req[r].reply]) = ""
  /\ LET who == Principal(req[r].reply)
     IN Answer(r, 302, req[r].jar.next, [NoSession EXCEPT !.who = who], "open", who)
  /\ UNCHANGED <<recent, events>>

\* Mutant: only the login in progress is forgotten.
LogoutOfLogin(r) ==
  /\ Asked(r, "logout")
  /\ Redirect(r, IF mode = "none" THEN "/login" ELSE mode,
              [NoSession EXCEPT !.who = req[r].jar.who])

Logout(r) ==
  /\ Asked(r, "logout")
  /\ Redirect(r, IF mode = "none" THEN "/login" ELSE mode, NoSession)

-----------------------------------------------------------------------------
(* Every other request.                                                    *)

\* The roles that request.state.user has, and its email.
RolesAt(r, pass, u) ==
  IF pass = "session" THEN req[r].jar.who.roles
  ELSE IF pass = "token" THEN RolesOf(mode, Claims[u])
  ELSE IF pass = "agent" THEN {"viewer"} ELSE {}

EmailAt(r, pass, u) ==
  IF pass = "session" THEN req[r].jar.who.user
  ELSE IF pass = "token" THEN u
  ELSE IF pass = "agent" THEN "issuer" ELSE ""

AdminPage(r, pass, u) ==
  /\ req[r].ask.visit.route = <<"admin">>
  /\ ~HasAnyRole(RolesAt(r, pass, u), {"ADMIN"})
  /\ Answer(r, 302, "not_authorized", req[r].jar, pass, Nobody)
  /\ UNCHANGED <<recent, events>>

\* The two pages about authentication record an event; the one about the
\* user is there only with authentication.
AuthPages(r, pass, u) ==
  LET route == req[r].ask.visit.route
  IN \/ /\ route = <<"my_health">> /\ mode = "none"
        /\ Answer(r, 404, "", req[r].jar, pass, Nobody) /\ UNCHANGED <<recent, events>>
     \/ /\ route = <<"auth_health">> \/ (route = <<"my_health">> /\ mode # "none")
        /\ Answer(r, 200, "", req[r].jar, pass, Nobody)
        /\ recent' = AuthEvent(recent, EmailAt(r, pass, u)) /\ events' = events + 1

\* Any other handler may raise an exception.  For a bearer token the gate
\* calls it inside the try that verifies the token, and takes its exception
\* for a bad token.
OtherPage(r, pass, u) ==
  LET route == req[r].ask.visit.route
  IN /\ route \notin {<<"my_health">>, <<"auth_health">>}
     /\ route = <<"admin">> => HasAnyRole(RolesAt(r, pass, u), {"ADMIN"})
     /\ \/ /\ \E status \in Statuses : Answer(r, status, "", req[r].jar, pass, Nobody)
           /\ UNCHANGED <<recent, events>>
        \/ pass # "token" /\ Raise(r)
        \/ /\ pass = "token"
           /\ Answer(r, LoginStatus(req[r].ask.visit), "/login", req[r].jar, pass, Nobody)
           /\ UNCHANGED <<recent, events>>

Handle(r, pass, u) == AdminPage(r, pass, u) \/ AuthPages(r, pass, u) \/ OtherPage(r, pass, u)

VisitOpen(r) ==
  /\ Asked(r, "visit") /\ Open(mode, req[r].ask.visit)
  /\ \E u \in Users : Handle(r, "open", u)

VisitBySession(r) ==
  /\ Asked(r, "visit")
  /\ BySession(mode, req[r].ask.visit, req[r].jar.who, instance)
  /\ \E u \in Users : Handle(r, "session", u)

\* The session package may drop the principal of an old server process.
VisitExpired(r) ==
  /\ Asked(r, "visit")
  /\ Expired(mode, req[r].ask.visit, req[r].jar.who, instance)
  /\ \E who \in {req[r].jar.who, Nobody} :
       Redirect(r, "session_expired", [req[r].jar EXCEPT !.who = who])

\* What an agent's token meets: a grants file that cannot be used, or the
\* token's record in it.
Grants ==
  [file : {"unset", "broken"}, token : {"revoked"}, endpoints : {{}}]
    \cup [file : {"read"}, token : {"active", "revoked", "undated"},
          endpoints : {{}, EndpointCatalog}]

VisitWithoutSession(r) ==
  LET v == req[r].ask.visit
  IN /\ Asked(r, "visit") /\ ~Open(mode, v)
     /\ ~BySession(mode, v, req[r].jar.who, instance)
     /\ ~Expired(mode, v, req[r].jar.who, instance)
     /\ \E u \in Users, grant \in Grants :
          LET pass == WithoutSession(mode, v, grant, Claims[u])
          IN IF AgentRaises(v, grant) THEN Raise(r)
             ELSE IF pass = "refused"
             THEN /\ Answer(r, RefusalStatus(v, grant), "/login", req[r].jar, pass, Nobody)
                  /\ UNCHANGED <<recent, events>>
             ELSE Handle(r, pass, u)

\* A new process: a new instance, empty rollups, and no request survives.
Restart ==
  /\ instance <= MaxRestarts /\ instance' = instance + 1
  /\ req' = [r \in Requests |->
               IF InFlight(r) THEN Over(req[r], "lost") ELSE req[r]]
  /\ counts' = NoCounts /\ answers' = {} /\ recent' = <<>> /\ events' = 0
  /\ UNCHANGED <<mode, cookie, sent>>

Serve(r) ==
  \/ LoginStart(r) \/ CallbackRefuse(r) \/ CallbackBegin(r) \/ ExchangeRefused(r)
  \/ ExchangeTimesOut(r) \/ ExchangeDone(r) \/ Logout(r) \/ VisitOpen(r)
  \/ VisitBySession(r) \/ VisitExpired(r) \/ VisitWithoutSession(r)

Next ==
  \/ \E ask \in Asks : Send(ask)
  \/ \E r \in Requests : Serve(r) \/ Receive(r)
  \/ Restart

\* The event loop runs every handler, an exchange ends by its timeout at the
\* latest, and an answer reaches the browser.
Fairness == \A r \in Requests : WF_vars(Serve(r)) /\ WF_vars(Receive(r))

Spec == Init /\ [][Next]_vars /\ Fairness

-----------------------------------------------------------------------------

Instances == 0..MaxRestarts + 1
Principals == [user : Users \cup {""}, roles : SUBSET (AppRoles \cup Roles), instance : Instances]
SessionType == [state : 0..MaxRequests, next : Targets \cup {""}, who : Principals]

Destinations == Targets \cup Modes \cup {"", "/", "/login", "auth_error", "auth_failed",
  "state_mismatch", "token_validation_failed", "blocked_domain", "not_authorized",
  "session_expired"}

Stages == {"idle", "sent", "exchanging", "answered", "raised", "done", "lost"}
AskType == Asks \cup [kind : Callbacks \cup {"none", "logout", "visit"}]
Replies == Users \cup {"", "refused", "silence"}
Passes == {"", "open", "session", "token", "agent", "service", "refused"}

RequestType ==
  [at : Stages, ask : AskType, jar : SessionType, had : BOOLEAN, reply : Replies,
   to : Destinations, pass : Passes, won : Principals, crossed : BOOLEAN, by : Instances]

TypeOK ==
  /\ mode \in Modes /\ instance \in 1..MaxRestarts + 1 /\ sent \in 0..MaxRequests
  /\ cookie \in SessionType
  /\ req \in [Requests -> RequestType]
  /\ \A r \in Requests :
       /\ (req[r].at = "idle") = (r > sent)
       /\ InFlight(r) => req[r].ask \in Asks
  /\ answers \in SUBSET [request : Requests, route : {Route(ask) : ask \in Asks}, status : Nat]
  /\ events \in 0..Cardinality(answers)

\* The principals that completed callbacks have stored.
Earned == {req[r].won : r \in Requests} \ {Nobody}

\* A session is earned.  Whoever is in the browser's cookie, or in a request
\* on its way, was stored there by a callback that exchanged a code for a
\* user of an allowed domain, with exactly the roles the claims confer; and a
\* request is let in by its session only if the server process that stored
\* the principal is the one that handles the request, so a restart signs
\* everybody out.  The recent events name such users only.
SessionIsEarned ==
  /\ cookie.who \in Earned \cup {Nobody}
  /\ \A r \in Requests : req[r].jar.who \in Earned \cup {Nobody}
  /\ \A who \in Earned : who.user \in Users /\ Refusal(mode, Claims[who.user]) = ""
                          /\ who.roles = RolesOf(mode, Claims[who.user])
  /\ \A r \in Requests :
       req[r].pass = "session" => req[r].jar.who.instance = req[r].by
  /\ RecentUsers(recent) \subseteq {u \in Users : Refusal(mode, Claims[u]) = ""}

\* A login returns where it was asked to.  However logins, callbacks and other
\* requests of the browser overlap, a callback that completes redirects to
\* the path of the very login whose state it brought back, since the session
\* keeps the two together.
LandsWhereAsked ==
  \A r \in Requests :
    req[r].at = "answered" /\ req[r].won # Nobody =>
      /\ req[req[r].ask.state].ask.kind = "login"
      /\ req[r].to = req[req[r].ask.state].ask.target

\* Signed out stays out.  After the answer to a logout that overlapped no
\* other request, no cookie and no request carries a principal until another
\* callback is sent.  (A request that overlaps the logout may bring the old
\* session back with its answer.)
SignedOutStaysOut ==
  \A l \in Requests :
    /\ req[l].at = "done" /\ req[l].ask.kind = "logout" /\ ~req[l].crossed
    /\ \A r \in l+1..sent : req[r].ask.kind \notin Callbacks
    => /\ cookie.who = Nobody
       /\ \A r \in l+1..sent : req[r].jar.who = Nobody

\* The rollups balance.  The counts of the endpoints and their status classes,
\* those of the families and the families' errors are the numbers of the
\* answers of that kind that this server process has given, each counted once;
\* the list of recent events has not lost one early.
RollupsBalance ==
  /\ Balanced(counts, answers)
  /\ Len(recent) = IF events < RecentLimit THEN events ELSE RecentLimit

\* Every request ends: whatever the broker does, the browser has an answer or
\* has lost its server.
RequestsEnd ==
  \A r \in Requests : []<>~InFlight(r)

=============================================================================
