-------------------------- MODULE RequestRollups --------------------------
(***************************************************************************)
(* The in-process counts of zebra_day/observability.py, fed by             *)
(* RequestLoggingMiddleware (zebra_day/web/middleware.py): one rollup per  *)
(* endpoint, one per family of endpoints, and the last events of           *)
(* authentication.  A route is the sequence of its path's segments.        *)
(***************************************************************************)
EXTENDS Paths, FiniteSets, Bags, SequencesExt

CONSTANT RecentLimit    \* length of the deque of authentication events (25)

Observed == {"health", "healthz", "readyz", "obs_services", "api_health",
             "endpoint_health", "db_health", "auth_health", "my_health"}

ApiFamilies == {"labs", "templates", "render", "print", "config"}

\* No path begins with two of the names.
Family(route) ==
  IF Under(route, <<"api", "v1">>)
  THEN LET names == {name \in ApiFamilies : Under(route, <<"api", "v1", name>>)}
       IN IF names = {} THEN "api" ELSE CHOOSE name \in names : TRUE
  ELSE IF Len(route) = 1 /\ route[1] \in Observed THEN "observability" ELSE "ui"

\* Bags: of endpoints with the class of the answer's status, of families, and
\* of families again for the answers that count as errors.
NoCounts == [endpoint |-> EmptyBag, family |-> EmptyBag, errors |-> EmptyBag]

One(value) == SetToBag({value})

\* EndpointRollup.record and FamilyRollup.record.
EndpointRecord(counts, route, status) ==
  [counts EXCEPT !.endpoint = @ (+) One(<<route, status \div 100>>)]

\* Mutant: refusals do not count as errors of the family.
FamilyRecordFailures(counts, family, status) ==
  [endpoint |-> counts.endpoint, family |-> counts.family (+) One(family),
   errors |-> IF status >= 500 THEN counts.errors (+) One(family) ELSE counts.errors]

FamilyRecord(counts, family, status) ==
  [endpoint |-> counts.endpoint, family |-> counts.family (+) One(family),
   errors |-> IF status >= 400 THEN counts.errors (+) One(family) ELSE counts.errors]

\* record_http_request: the endpoint's rollup, then its family's.
Recorded(counts, route, status) ==
  FamilyRecord(EndpointRecord(counts, route, status), Family(route), status)

\* record_auth_event: appendleft on a bounded deque.
AuthEvent(recent, event) ==
  SubSeq(<<event>> \o recent, 1, IF Len(recent) < RecentLimit THEN Len(recent) + 1
                                 ELSE RecentLimit)

RecentUsers(recent) == {recent[i] : i \in DOMAIN recent} \ {""}

-----------------------------------------------------------------------------

\* How often each value stands in a set of pairs <<request, value>>.
Tally(pairs) ==
  [v \in {p[2] : p \in pairs} |-> Cardinality({p \in pairs : p[2] = v})]

\* What the tables have to show of the answers that were given.
ByEndpoint(answers) == {<<a.request, <<a.route, a.status \div 100>>>> : a \in answers}
ByFamily(answers) == {<<a.request, Family(a.route)>> : a \in answers}
Failures(answers) == {a \in answers : a.status >= 400}

Balanced(counts, answers) ==
  counts = [endpoint |-> Tally(ByEndpoint(answers)),
            family   |-> Tally(ByFamily(answers)),
            errors   |-> Tally(ByFamily(Failures(answers)))]

=============================================================================
