--------------------------- MODULE MCWebSessions ---------------------------
EXTENDS WebSessions

MCGroupRoleMap == [g \in {"ops", "boss", "odd"} |->
  IF g = "boss" THEN "ADMIN" ELSE IF g = "ops" THEN "OPERATOR" ELSE "KING"]

\* An administrator, an operator by entitlement only, and a user of another
\* domain.
MCClaims ==
  [u \in {"ann", "bob", "eve"} |->
    IF u = "ann"
    THEN [domain |-> "lab", groups |-> {"boss", "odd"}, roles |-> {}, entitled |-> {}]
    ELSE IF u = "bob"
    THEN [domain |-> "lab", groups |-> {"ops"}, roles |-> {}, entitled |-> {"OPERATOR"}]
    ELSE [domain |-> "elsewhere", groups |-> {}, roles |-> {"OPERATOR"}, entitled |-> {}]]

MCVisits ==
  {[route |-> <<"admin">>, json |-> FALSE, loopback |-> FALSE, bearer |-> "token"],
   [route |-> <<"my_health">>, json |-> FALSE, loopback |-> FALSE, bearer |-> "key"],
   [route |-> <<"api", "v1", "labs">>, json |-> TRUE, loopback |-> FALSE, bearer |-> "agent"]}

MCLonger == [segment \in {"statics", "labs-b", "v10"} |->
  IF segment = "statics" THEN "static" ELSE IF segment = "labs-b" THEN "labs" ELSE "v1"]

\* Where the prefix tests of the code end within a segment.
ASSUME
  /\ \A name \in {"static", "statics"}, rest \in {<<>>, <<"x">>} :
       IsPublic([route |-> <<name>> \o rest])
  /\ ~IsPublic([route |-> <<"login", "x">>]) /\ ~IsPublic([route |-> <<>>])
  /\ \A name \in {"labs", "labs-b"} : Family(<<"api", "v1", name>>) = "labs"
  /\ \A name \in {"v1", "v10"} : Family(<<"api", name, "x">>) = "api"
  /\ Family(<<"api", "v10", "labs">>) = "api" /\ Family(<<"api">>) = "ui"
  /\ Family(<<"healthz", "x">>) = "ui" /\ Family(<<"my_health">>) = "observability"

=============================================================================
