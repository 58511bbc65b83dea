------------------------- MODULE WebSessionsProofs -------------------------
(***************************************************************************)
(* Proofs about WebSessions, for any claims, visits and bounds, and any    *)
(* number of requests in flight: the state is well typed, a session is     *)
(* earned, a login lands where it was asked to, signed out stays out, and  *)
(* the rollups balance.  One invariant, IInv, carries all of them.  What   *)
(* a step does to it is argued once for each kind of step, and the         *)
(* handlers are reduced to these: a request gets its answer (AnswerInv),   *)
(* waits for the broker or raises (WaitingInv), or ends (EndsInv).         *)
(***************************************************************************)
EXTENDS WebSessions, FiniteSetTheorems, TLAPS

-----------------------------------------------------------------------------
(* The invariant.                                                          *)

\* A request that has not been answered has no outcome yet.
Unanswered ==
  \A r \in Requests :
    /\ req[r].at # "answered" => req[r].pass = ""
    /\ req[r].at \in {"idle", "sent", "exchanging", "raised"} => req[r].won = Nobody
    /\ req[r].at = "exchanging" =>
         /\ req[r].ask.kind \in Callbacks /\ req[r].jar.state # 0
         /\ req[r].ask.state = req[r].jar.state

\* Whoever is let in is one of them.
Welcome == {u \in Users : Refusal(mode, Claims[u]) = ""}

Conferred(who) == who.user \in Welcome /\ who.roles = RolesOf(mode, Claims[who.user])

Sessions ==
  /\ cookie.who \in Earned \cup {Nobody}
  /\ \A r \in Requests : req[r].jar.who \in Earned \cup {Nobody}
  /\ \A who \in Earned : Conferred(who)
  /\ \A r \in Requests : req[r].pass = "session" => req[r].jar.who.instance = req[r].by

\* The state of a session is that of a login, and its path that login's.
Coherent(session) ==
  session.state # 0 =>
    /\ session.state \in 1..sent /\ req[session.state].ask.kind = "login"
    /\ session.next = req[session.state].ask.target

Logins ==
  /\ Coherent(cookie) /\ \A r \in Requests : Coherent(req[r].jar)
  /\ \A r \in Requests :
       req[r].at = "answered" /\ req[r].won # Nobody => req[r].ask.state \in 1..sent

\* A request that no other has overlapped is the last and alone in flight; a
\* logout of that kind decides the cookie.
Alone ==
  \A l \in Requests : InFlight(l) /\ ~req[l].crossed =>
    /\ l = sent /\ \A r \in Requests : InFlight(r) => r = l
    /\ req[l].ask.kind = "logout" =>
         /\ req[l].at \in {"sent", "answered"} /\ req[l].had = (cookie # NoSession)
         /\ req[l].at = "answered" => req[l].jar = NoSession

\* Nothing that was sent before such a logout comes after it.
Settled ==
  \A l \in Requests :
    req[l].at = "done" /\ req[l].ask.kind = "logout" /\ ~req[l].crossed =>
      \A r \in 1..(l - 1) : ~InFlight(r)

\* Answers are of requests that have been answered, so there is one of each.
Counted ==
  /\ IsFiniteSet(answers)
  /\ \A a \in answers : req[a.request].at \in {"answered", "done"}

Named == Welcome \cup {""}
Events == recent \in Seq(Named)

IInv ==
  /\ TypeOK /\ Unanswered /\ Sessions /\ Logins /\ LandsWhereAsked
  /\ Alone /\ Settled /\ SignedOutStaysOut /\ Counted /\ Events /\ RollupsBalance

-----------------------------------------------------------------------------
(* Counting.                                                               *)

LEMMA TallyEmpty == Tally({}) = EmptyBag
BY DEF Tally, EmptyBag, SetToBag

\* A pair more is a value more in the bag.
LEMMA TallyAdd ==
  ASSUME NEW P, IsFiniteSet(P), NEW r, NEW v, <<r, v>> \notin P
  PROVE  Tally(P \cup {<<r, v>>}) = Tally(P) (+) One(v)
<1> DEFINE Q == P \cup {<<r, v>>}
           At(S, e) == {p \in S : p[2] = e}
           D(S) == {p[2] : p \in S}
<1>1. D(Q) = D(P) \cup {v}
  OBVIOUS
<1>2. ASSUME NEW e, e # v PROVE At(Q, e) = At(P, e)
  BY <1>2
<1>3. Cardinality(At(Q, v)) = Cardinality(At(P, v)) + 1
  <2>1. At(Q, v) = At(P, v) \cup {<<r, v>>} /\ <<r, v>> \notin At(P, v)
    OBVIOUS
  <2>2. IsFiniteSet(At(P, v))
    BY FS_Subset
  <2> HIDE DEF At
  <2> QED BY <2>1, <2>2, FS_AddElement
<1>4. v \notin D(P) => Cardinality(At(P, v)) = 0
  <2>1. v \notin D(P) => At(P, v) = {}
    OBVIOUS
  <2> QED BY <2>1, FS_EmptySet
<1>5. \A e : Cardinality(At(P, e)) \in Nat
  <2>1. \A e : IsFiniteSet(At(P, e))
    BY FS_Subset
  <2> QED BY <2>1, FS_CardinalityType
<1>6. /\ Tally(P) = [e \in D(P) |-> Cardinality(At(P, e))]
      /\ Tally(Q) = [e \in D(Q) |-> Cardinality(At(Q, e))]
  BY DEF Tally
<1> HIDE DEF Q, At, D
<1>7. Tally(P) (+) One(v) =
        [e \in D(P) \cup {v} |-> (IF e \in D(P) THEN Cardinality(At(P, e)) ELSE 0)
                                   + (IF e \in {v} THEN 1 ELSE 0)]
  BY <1>6 DEF (+), One, SetToBag
<1>8. ASSUME NEW e \in D(P) \cup {v}
      PROVE  Cardinality(At(Q, e)) = (IF e \in D(P) THEN Cardinality(At(P, e)) ELSE 0)
                                       + (IF e \in {v} THEN 1 ELSE 0)
  <2>1. CASE e = v
    BY <2>1, <1>3, <1>4, <1>5
  <2>2. CASE e # v
    <3>1. At(Q, e) = At(P, e)
      BY <2>2, <1>2
    <3> QED BY <3>1, <2>2, <1>5
  <2> QED BY <2>1, <2>2
<1>9. Tally(Q) = Tally(P) (+) One(v)
  BY <1>1, <1>6, <1>7, <1>8
<1> QED BY <1>9 DEF Q

LEMMA ImageFinite ==
  ASSUME NEW S, IsFiniteSet(S), NEW f, f = [x \in S |-> f[x]]
  PROVE  IsFiniteSet({f[x] : x \in S})
<1> DEFINE T == {f[x] : x \in S}
<1>1. f \in Surjection(S, T)
  BY DEF Surjection
<1> HIDE DEF T
<1>2. IsFiniteSet(T)
  BY <1>1, FS_Surjection
<1> QED BY <1>2 DEF T

\* An answer of a request that has had none is recorded once in each table.
LEMMA Recording ==
  ASSUME NEW A, IsFiniteSet(A), NEW r, \A a \in A : a.request # r,
         NEW route, NEW status \in Nat, NEW c, Balanced(c, A)
  PROVE  Balanced(Recorded(c, route, status),
                  A \cup {[request |-> r, route |-> route, status |-> status]})
<1> DEFINE new == [request |-> r, route |-> route, status |-> status]
           A2 == A \cup {new}
           class == <<route, status \div 100>>
<1>1. new.request = r /\ new.route = route /\ new.status = status
  OBVIOUS
<1>2. /\ ByEndpoint(A2) = ByEndpoint(A) \cup {<<r, class>>}
      /\ <<r, class>> \notin ByEndpoint(A) /\ IsFiniteSet(ByEndpoint(A))
  <2>1. ByEndpoint(A2) = ByEndpoint(A) \cup {<<r, class>>}
    <3> HIDE DEF new
    <3> QED BY <1>1 DEF ByEndpoint
  <2>2. <<r, class>> \notin ByEndpoint(A)
    BY DEF ByEndpoint
  <2>3. IsFiniteSet(ByEndpoint(A))
    <3> DEFINE f == [a \in A |-> <<a.request, <<a.route, a.status \div 100>>>>]
    <3>1. IsFiniteSet({f[a] : a \in A})
      <4>1. f = [a \in A |-> f[a]]
        OBVIOUS
      <4> HIDE DEF f
      <4> QED BY <4>1, ImageFinite
    <3>2. ByEndpoint(A) = {f[a] : a \in A}
      BY DEF ByEndpoint
    <3> QED BY <3>1, <3>2
  <2> QED BY <2>1, <2>2, <2>3
<1>3. ASSUME NEW B \in SUBSET A
      PROVE  /\ ByFamily(B \cup {new}) = ByFamily(B) \cup {<<r, Family(route)>>}
             /\ <<r, Family(route)>> \notin ByFamily(B) /\ IsFiniteSet(ByFamily(B))
  <2>1. ByFamily(B \cup {new}) = ByFamily(B) \cup {<<r, Family(route)>>}
    <3> HIDE DEF new
    <3> QED BY <1>1 DEF ByFamily
  <2>2. <<r, Family(route)>> \notin ByFamily(B)
    BY DEF ByFamily
  <2>3. IsFiniteSet(ByFamily(B))
    <3> DEFINE f == [a \in B |-> <<a.request, Family(a.route)>>]
    <3>1. IsFiniteSet({f[a] : a \in B})
      <4>1. IsFiniteSet(B) /\ f = [a \in B |-> f[a]]
        BY FS_Subset
      <4> HIDE DEF f
      <4> QED BY <4>1, ImageFinite
    <3>2. ByFamily(B) = {f[a] : a \in B}
      BY DEF ByFamily
    <3> QED BY <3>1, <3>2
  <2> QED BY <2>1, <2>2, <2>3
<1>4. Failures(A2) = IF status >= 400 THEN Failures(A) \cup {new} ELSE Failures(A)
  <2> HIDE DEF new
  <2> QED BY <1>1 DEF Failures
<1>5. Failures(A) \in SUBSET A
  BY DEF Failures
<1>6. Tally(ByEndpoint(A2)) = Tally(ByEndpoint(A)) (+) One(class)
  <2> HIDE DEF A2, class
  <2> QED BY <1>2, TallyAdd
<1>7. Tally(ByFamily(A2)) = Tally(ByFamily(A)) (+) One(Family(route))
  BY <1>3, TallyAdd
<1>8. Tally(ByFamily(Failures(A2))) =
        IF status >= 400 THEN Tally(ByFamily(Failures(A))) (+) One(Family(route))
        ELSE Tally(ByFamily(Failures(A)))
  <2>1. Tally(ByFamily(Failures(A) \cup {new})) = Tally(ByFamily(Failures(A))) (+) One(Family(route))
    BY <1>3, <1>5, TallyAdd
  <2> QED BY <2>1, <1>4
<1> HIDE DEF A2, class
<1>9. /\ c.endpoint = Tally(ByEndpoint(A)) /\ c.family = Tally(ByFamily(A))
      /\ c.errors = Tally(ByFamily(Failures(A)))
      /\ c = [endpoint |-> c.endpoint, family |-> c.family, errors |-> c.errors]
  BY DEF Balanced
<1>10. Recorded(c, route, status) =
         [endpoint |-> c.endpoint (+) One(class),
          family   |-> c.family (+) One(Family(route)),
          errors   |-> IF status >= 400 THEN c.errors (+) One(Family(route)) ELSE c.errors]
  <2>1. EndpointRecord(c, route, status) =
          [endpoint |-> c.endpoint (+) One(class), family |-> c.family, errors |-> c.errors]
    <3>1. EndpointRecord(c, route, status) = [c EXCEPT !.endpoint = c.endpoint (+) One(class)]
      BY DEF EndpointRecord, class
    <3> QED BY <3>1, <1>9
  <2>2. ASSUME NEW d, NEW e, NEW f, NEW g, d = [endpoint |-> e, family |-> f, errors |-> g]
        PROVE  FamilyRecord(d, Family(route), status) =
                 [endpoint |-> e, family |-> f (+) One(Family(route)),
                  errors |-> IF status >= 400 THEN g (+) One(Family(route)) ELSE g]
    BY <2>2 DEF FamilyRecord
  <2> QED BY <2>1, <2>2 DEF Recorded
<1> QED BY <1>6, <1>7, <1>8, <1>9, <1>10 DEF Balanced, A2

\* The list of events grows in front, and up to its limit.
LEMMA EventAdded ==
  ASSUME NEW S, NEW list \in Seq(S), NEW e \in S, Len(list) <= RecentLimit
  PROVE  /\ AuthEvent(list, e) \in Seq(S)
         /\ Len(AuthEvent(list, e)) =
              IF Len(list) < RecentLimit THEN Len(list) + 1 ELSE RecentLimit
<1>1. RecentLimit \in Nat
  BY SessionsAssumption
<1>2. <<e>> \o list \in Seq(S) /\ Len(<<e>> \o list) = Len(list) + 1
  OBVIOUS
<1> DEFINE n == IF Len(list) < RecentLimit THEN Len(list) + 1 ELSE RecentLimit
<1>3. n \in 0..(Len(list) + 1)
  BY <1>1
<1> HIDE DEF n
<1>4. AuthEvent(list, e) = SubSeq(<<e>> \o list, 1, n)
  BY DEF AuthEvent, n
<1>5. \A s \in Seq(S) : n \in 0..Len(s) => SubSeq(s, 1, n) \in Seq(S) /\ Len(SubSeq(s, 1, n)) = n
  OBVIOUS
<1>6. AuthEvent(list, e) \in Seq(S) /\ Len(AuthEvent(list, e)) = n
  BY <1>2, <1>3, <1>4, <1>5
<1> QED BY <1>6 DEF n

-----------------------------------------------------------------------------
(* What the steps do to the requests, field by field.                      *)

LEMMA Constants ==
  /\ Nobody \in Principals /\ Nobody.user = "" /\ NoSession \in SessionType /\ Idle \in RequestType
  /\ NoSession.who = Nobody /\ NoSession.state = 0
  /\ Idle.won = Nobody /\ Idle.jar = NoSession /\ Idle.pass = "" /\ Idle.at = "idle"
  /\ "" \in Destinations /\ "" \in Passes /\ "" \in Replies /\ 0 \in Instances
  /\ MaxRequests \in Nat /\ MaxRestarts \in Nat
<1>1. "" \in Destinations /\ "" \in Passes /\ "" \in Replies
  BY DEF Destinations, Passes, Replies
<1>2. 0 \in Instances /\ 0 \in 0..MaxRequests
  BY SessionsAssumption DEF Instances
<1>3. Nobody \in Principals /\ Nobody.user = ""
  BY <1>2 DEF Nobody, Principals
<1>4. NoSession \in SessionType /\ NoSession.who = Nobody /\ NoSession.state = 0
  BY <1>2, <1>3 DEF NoSession, SessionType
<1>5. [kind |-> "none"] \in AskType
  BY DEF AskType
<1>6. Idle = [at |-> "idle", ask |-> [kind |-> "none"], jar |-> NoSession, had |-> FALSE,
              reply |-> "", to |-> "", pass |-> "", won |-> Nobody, crossed |-> FALSE, by |-> 0]
  BY DEF Idle, Request
<1>7. Idle \in RequestType
  BY <1>1, <1>2, <1>3, <1>4, <1>5, <1>6 DEF RequestType, Stages
<1> QED BY <1>1, <1>2, <1>3, <1>4, <1>6, <1>7, SessionsAssumption

Ended == {"done", "lost"}

LEMMA OverFields ==
  ASSUME NEW q \in RequestType, NEW at \in Ended
  PROVE  /\ Over(q, at) \in RequestType
         /\ Over(q, at).at = at /\ Over(q, at).won = q.won /\ Over(q, at).jar = NoSession
         /\ Over(q, at).pass = "" /\ Over(q, at).ask.kind = q.ask.kind
         /\ q.ask.kind = "login" => Over(q, at).ask = q.ask
         /\ Over(q, at).crossed <=> q.crossed /\ q.ask.kind = "logout"
<1> DEFINE ask == IF q.ask.kind = "login" THEN q.ask ELSE [kind |-> q.ask.kind]
           crossed == q.crossed /\ q.ask.kind = "logout"
<1>1. ask \in AskType /\ ask.kind = q.ask.kind
  BY DEF RequestType, AskType, Asks
<1>2. crossed \in BOOLEAN
  OBVIOUS
<1>3. Over(q, at) = Request(at, ask, NoSession, FALSE, q.won, crossed)
  BY DEF Over
<1>4. q.ask.kind = "login" => ask = q.ask
  OBVIOUS
<1>5. crossed <=> q.crossed /\ q.ask.kind = "logout"
  OBVIOUS
<1> HIDE DEF ask, crossed
<1>6. q.won \in Principals
  BY DEF RequestType
<1>7. /\ Over(q, at) \in RequestType
      /\ Over(q, at).at = at /\ Over(q, at).won = q.won /\ Over(q, at).jar = NoSession
      /\ Over(q, at).pass = "" /\ Over(q, at).ask = ask /\ Over(q, at).crossed = crossed
  <2> DEFINE over == [at |-> at, ask |-> ask, jar |-> NoSession, had |-> FALSE, reply |-> "",
                      to |-> "", pass |-> "", won |-> q.won, crossed |-> crossed, by |-> 0]
  <2>1. Over(q, at) = over
    BY <1>3, Zenon DEF Request
  <2>2. over \in RequestType
    BY <1>1, <1>2, <1>6, Constants DEF RequestType, Stages, Ended
  <2>3. /\ over.at = at /\ over.won = q.won /\ over.jar = NoSession
        /\ over.pass = "" /\ over.ask = ask /\ over.crossed = crossed
    OBVIOUS
  <2> HIDE DEF over
  <2> QED BY <2>1, <2>2, <2>3, Zenon
<1> QED BY <1>1, <1>4, <1>5, <1>7

LEMMA AnswerFields ==
  ASSUME TypeOK, NEW r \in Requests, NEW status, NEW to \in Destinations,
         NEW jar \in SessionType, NEW won \in Principals,
         NEW pass \in Passes,
         Answer(r, status, to, jar, pass, won)
  PROVE  /\ req' \in [Requests -> RequestType]
         /\ \A o \in Requests \ {r} : req'[o] = req[o]
         /\ req'[r].at = "answered" /\ req'[r].jar = jar /\ req'[r].to = to
         /\ req'[r].pass = pass /\ req'[r].won = won /\ req'[r].by = instance
         /\ req'[r].ask = req[r].ask /\ req'[r].had = req[r].had
         /\ req'[r].crossed = req[r].crossed
<1> DEFINE q == req[r]
           new == [at |-> "answered", ask |-> q.ask, jar |-> jar, had |-> q.had,
                   reply |-> q.reply, to |-> to, pass |-> pass, won |-> won,
                   crossed |-> q.crossed, by |-> instance]
<1>1. req' = [req EXCEPT ![r] = new]
  BY DEF Answer
<1>2. req \in [Requests -> RequestType] /\ req[r] \in RequestType /\ instance \in Instances
  <2>1. instance \in 1..MaxRestarts + 1
    BY DEF TypeOK
  <2>2. instance \in Instances
    BY <2>1, SessionsAssumption DEF Instances
  <2> QED BY <2>2 DEF TypeOK
<1>3. new \in RequestType
  BY <1>2 DEF RequestType, Stages
<1> QED BY <1>1, <1>2, <1>3

-----------------------------------------------------------------------------
(* Answers.                                                                *)

\* What a handler may answer with.
Fitting(r, status, to, jar, pass, won) ==
  /\ req[r].at \in {"sent", "exchanging"} /\ status \in Nat
  /\ to \in Destinations /\ jar \in SessionType /\ pass \in Passes /\ won \in Principals
  /\ Coherent(jar) /\ jar.who \in {req[r].jar.who, Nobody, won}
  /\ won # Nobody =>
       /\ Conferred(won) /\ req[r].ask.kind \in Callbacks
       /\ req[r].ask.state \in 1..sent
       /\ req[req[r].ask.state].ask.kind = "login"
       /\ to = req[req[r].ask.state].ask.target
  /\ pass = "session" => jar.who.instance = instance
  /\ req[r].ask.kind = "logout" => jar = NoSession

\* What the rollups hear of it beside its status.
Noted ==
  \/ UNCHANGED <<recent, events>>
  \/ \E email \in Named :
       recent' = AuthEvent(recent, email) /\ events' = events + 1

LEMMA AnswerInv ==
  ASSUME IInv, NEW r \in Requests, NEW status, NEW to, NEW jar, NEW pass, NEW won,
         Answer(r, status, to, jar, pass, won), Fitting(r, status, to, jar, pass, won), Noted
  PROVE  IInv'
<1> USE DEF IInv
<1> DEFINE new == [request |-> r, route |-> Route(req[r].ask), status |-> status]
<1>1. /\ mode' = mode /\ instance' = instance /\ cookie' = cookie /\ sent' = sent
      /\ counts' = Recorded(counts, Route(req[r].ask), status)
      /\ answers' = answers \cup {new}
  BY DEF Answer
<1>2. /\ req \in [Requests -> RequestType] /\ req' \in [Requests -> RequestType]
      /\ \A o \in Requests \ {r} : req'[o] = req[o]
      /\ req'[r].at = "answered" /\ req'[r].jar = jar /\ req'[r].to = to
      /\ req'[r].pass = pass /\ req'[r].won = won /\ req'[r].by = instance
      /\ req'[r].ask = req[r].ask /\ req'[r].had = req[r].had
      /\ req'[r].crossed = req[r].crossed
  BY AnswerFields DEF Fitting, TypeOK
<1>3. InFlight(r) /\ \A o \in Requests : InFlight(o)' <=> InFlight(o)
  BY <1>2 DEF InFlight, Fitting
<1>4. \A o \in Requests : req'[o].ask = req[o].ask /\ req'[o].crossed = req[o].crossed
  BY <1>2
<1>5. /\ sent \in Nat /\ r <= sent /\ 1..sent \subseteq Requests
      /\ \A o \in Requests : o \in Nat
  <2>1. req[r].at # "idle"
    BY DEF Fitting
  <2> QED BY <2>1, SessionsAssumption DEF TypeOK, Requests
<1>6. IsFiniteSet(answers') /\ Cardinality(answers') = Cardinality(answers) + 1
      /\ \A a \in answers : a.request # r
  <2>1. \A a \in answers : a.request # r
    BY DEF Counted, Fitting
  <2>2. new \notin answers
    BY <2>1
  <2> HIDE DEF new
  <2> QED BY <1>1, <2>1, <2>2, FS_AddElement DEF Counted
<1>7. Cardinality(answers) \in Nat
  BY FS_CardinalityType DEF Counted
<1>8. events' \in 0..Cardinality(answers')
  <2>1. events' = events \/ events' = events + 1
    BY DEF Noted
  <2> QED BY <2>1, <1>6, <1>7 DEF TypeOK
<1>9. TypeOK'
  <2>1. \A o \in Requests :
          /\ (req'[o].at = "idle") = (o > sent')
          /\ InFlight(o)' => req'[o].ask \in Asks
    BY <1>1, <1>2, <1>3, <1>4, <1>5 DEF TypeOK
  <2>2. new \in [request : Requests, route : {Route(ask) : ask \in Asks}, status : Nat]
    BY <1>3 DEF TypeOK, Fitting
  <2>3. answers' \in SUBSET [request : Requests, route : {Route(ask) : ask \in Asks}, status : Nat]
    <3> HIDE DEF new
    <3> QED BY <2>2, <1>1 DEF TypeOK
  <2>4. mode' \in Modes /\ instance' \in 1..MaxRestarts + 1 /\ sent' \in 0..MaxRequests
        /\ cookie' \in SessionType
    BY <1>1 DEF TypeOK
  <2> QED BY <2>1, <2>3, <2>4, <1>2, <1>8 DEF TypeOK
<1>10. Unanswered'
  <2> SUFFICES ASSUME NEW o \in Requests
               PROVE /\ req'[o].at # "answered" => req'[o].pass = ""
                     /\ req'[o].at \in {"idle", "sent", "exchanging", "raised"} => req'[o].won = Nobody
                     /\ req'[o].at = "exchanging" =>
                          /\ req'[o].ask.kind \in Callbacks /\ req'[o].jar.state # 0
                          /\ req'[o].ask.state = req'[o].jar.state
    BY <1>1, Zenon DEF Unanswered
  <2>1. CASE o = r
    BY <2>1, <1>2, <1>5
  <2>2. CASE o # r
    <3>1. req'[o] = req[o]
      BY <2>2, <1>2
    <3> QED BY <3>1 DEF Unanswered
  <2> QED BY <2>1, <2>2
<1>11. Earned' = Earned \cup ({won} \ {Nobody})
  <2>1. req[r].won = Nobody
    BY DEF Unanswered, Fitting
  <2> QED BY <2>1, <1>2 DEF Earned
<1>12. Welcome' = Welcome /\ \A who : Conferred(who)' <=> Conferred(who)
  BY <1>1 DEF Welcome, Conferred
<1>13. Sessions'
  <2>1. jar.who \in Earned' \cup {Nobody}
    BY <1>11 DEF Fitting, Sessions
  <2>2. \A who \in Earned' : Conferred(who)'
    BY <1>11, <1>12 DEF Fitting, Sessions
  <2>3. \A o \in Requests : req'[o].pass = "session" => req'[o].jar.who.instance = req'[o].by
    BY <1>2 DEF Fitting, Sessions
  <2>4. \A o \in Requests : req'[o].jar.who \in Earned' \cup {Nobody}
    BY <2>1, <1>2, <1>11 DEF Sessions
  <2>5. cookie'.who \in Earned' \cup {Nobody}
    BY <1>1, <1>11 DEF Sessions
  <2> QED BY <2>2, <2>3, <2>4, <2>5 DEF Sessions
<1>14. \A s : Coherent(s) => Coherent(s)'
  BY <1>1, <1>4, <1>5 DEF Coherent
<1>15. Logins'
  BY <1>1, <1>2, <1>14 DEF Logins, Fitting, Coherent
<1>16. LandsWhereAsked'
  BY <1>2, <1>4, <1>5 DEF LandsWhereAsked, Logins, Fitting
<1>17. Alone'
  BY <1>1, <1>2, <1>3, <1>4 DEF Alone, Fitting
<1>18. Settled'
  BY <1>1, <1>2, <1>3, <1>4, <1>5 DEF Settled, Requests
<1>19. SignedOutStaysOut'
  BY <1>1, <1>2, <1>3, <1>4, <1>5 DEF SignedOutStaysOut, Settled, Fitting
<1>20. Counted'
  BY <1>1, <1>2, <1>6 DEF Counted, TypeOK, Fitting
<1>21. Events' /\ RollupsBalance'
  <2>1. Balanced(counts', answers')
    BY <1>1, <1>6, Recording DEF Fitting, Counted, RollupsBalance
  <2>2. RecentLimit \in Nat /\ events \in Nat
    BY <1>7, SessionsAssumption DEF TypeOK
  <2>3. recent \in Seq(Named)
        /\ Len(recent) = IF events < RecentLimit THEN events ELSE RecentLimit
    BY DEF Events, RollupsBalance
  <2>4. recent' \in Seq(Named)
        /\ Len(recent') = IF events' < RecentLimit THEN events' ELSE RecentLimit
    <3>1. CASE UNCHANGED <<recent, events>>
      BY <3>1, <2>3
    <3>2. ASSUME NEW email \in Named,
                 recent' = AuthEvent(recent, email), events' = events + 1
          PROVE  recent' \in Seq(Named)
                 /\ Len(recent') = IF events' < RecentLimit THEN events' ELSE RecentLimit
      <4>1. Len(recent) <= RecentLimit
        BY <2>2, <2>3
      <4>2. /\ recent' \in Seq(Named)
            /\ Len(recent') = IF Len(recent) < RecentLimit THEN Len(recent) + 1 ELSE RecentLimit
        BY <3>2, <2>3, <4>1, EventAdded
      <4> QED BY <4>2, <3>2, <2>2, <2>3
    <3> QED BY <3>1, <3>2 DEF Noted
  <2>5. Named' = Named
    BY <1>12 DEF Named
  <2> QED BY <2>1, <2>4, <2>5, <1>12 DEF Events, RollupsBalance
<1> QED BY <1>9, <1>10, <1>13, <1>15, <1>16, <1>17, <1>18, <1>19, <1>20, <1>21

-----------------------------------------------------------------------------
(* The other steps.                                                        *)

LEMMA NothingCounted == Balanced(NoCounts, {})
<1>1. ByEndpoint({}) = {} /\ ByFamily({}) = {} /\ Failures({}) = {}
  BY DEF ByEndpoint, ByFamily, Failures
<1> QED BY <1>1, TallyEmpty DEF Balanced, NoCounts

LEMMA Initially == Init => IInv
<1> SUFFICES ASSUME Init PROVE IInv
  OBVIOUS
<1>1. /\ mode \in Modes /\ instance = 1 /\ cookie = NoSession /\ sent = 0
      /\ counts = NoCounts /\ answers = {} /\ recent = <<>> /\ events = 0
      /\ req = [r \in Requests |-> Idle]
  BY DEF Init
<1>2. /\ req \in [Requests -> RequestType] /\ \A r \in Requests : req[r] = Idle
      /\ \A r \in Requests : r \in Nat /\ r > sent /\ ~InFlight(r)
  <2>1. Idle \in RequestType /\ Idle.at = "idle"
    BY Constants
  <2>2. \A r \in Requests : r \in Nat /\ r > 0
    BY SessionsAssumption DEF Requests
  <2> QED BY <1>1, <2>1, <2>2 DEF InFlight
<1>3. TypeOK
  <2>1. 0 \in 0..MaxRequests /\ 1 \in 1..MaxRestarts + 1
    BY SessionsAssumption
  <2>2. Cardinality({}) = 0
    BY FS_EmptySet
  <2>3. 0 \in 0..Cardinality({})
    BY <2>2
  <2> QED BY <1>1, <1>2, <2>1, <2>3, Constants DEF TypeOK
<1>4. Unanswered
  BY <1>2, Constants DEF Unanswered
<1>5. Earned = {}
  BY <1>2, Constants DEF Earned
<1>6. Sessions
  BY <1>1, <1>2, <1>5, Constants DEF Sessions
<1>7. Logins /\ LandsWhereAsked
  BY <1>1, <1>2, Constants DEF Logins, Coherent, LandsWhereAsked
<1>8. Alone /\ Settled /\ SignedOutStaysOut
  BY <1>1, <1>2, Constants DEF Alone, Settled, SignedOutStaysOut
<1>9. Counted
  BY <1>1, FS_EmptySet DEF Counted
<1>10. Events /\ RollupsBalance
  <2>1. Len(recent) = 0 /\ recent \in Seq(Named)
    BY <1>1
  <2> QED BY <2>1, <1>1, SessionsAssumption, NothingCounted DEF Events, RollupsBalance
<1> QED BY <1>3, <1>4, <1>6, <1>7, <1>8, <1>9, <1>10 DEF IInv

\* A request that the handler leaves without an answer: its code is exchanged,
\* or an exception ends it.
Waits(r) ==
  /\ req[r].at \in {"sent", "exchanging"} /\ req[r].ask.kind # "logout"
  /\ UNCHANGED <<mode, instance, cookie, sent, rollups>>
  /\ req' \in [Requests -> RequestType]
  /\ \A o \in Requests \ {r} : req'[o] = req[o]
  /\ req'[r].at \in {"exchanging", "raised"}
  /\ req'[r].ask = req[r].ask /\ req'[r].jar = req[r].jar
  /\ req'[r].crossed = req[r].crossed /\ req'[r].pass = "" /\ req'[r].won = Nobody
  /\ req'[r].at = "exchanging" =>
       /\ req[r].ask.kind \in Callbacks /\ req[r].jar.state # 0
       /\ req[r].ask.state = req[r].jar.state

LEMMA WaitingInv ==
  ASSUME IInv, NEW r \in Requests, Waits(r)
  PROVE  IInv'
<1> USE DEF IInv
<1>1. /\ mode' = mode /\ instance' = instance /\ cookie' = cookie /\ sent' = sent
      /\ counts' = counts /\ answers' = answers /\ recent' = recent /\ events' = events
  BY DEF Waits, rollups
<1>2. InFlight(r) /\ \A o \in Requests : InFlight(o)' <=> InFlight(o)
  BY DEF InFlight, Waits
<1>3. \A o \in Requests :
        /\ req'[o].ask = req[o].ask /\ req'[o].crossed = req[o].crossed
        /\ req'[o].jar = req[o].jar /\ req'[o].won = req[o].won
  <2>1. req[r].won = Nobody
    BY DEF Unanswered, Waits
  <2> QED BY <2>1 DEF Waits
<1>4. /\ sent \in Nat /\ r <= sent /\ 1..sent \subseteq Requests
      /\ \A o \in Requests : o \in Nat
  <2>1. req[r].at # "idle"
    BY DEF Waits
  <2> QED BY <2>1, SessionsAssumption DEF TypeOK, Requests
<1>5. TypeOK'
  <2>1. \A o \in Requests :
          /\ (req'[o].at = "idle") = (o > sent')
          /\ InFlight(o)' => req'[o].ask \in Asks
    <3>1. \A o \in Requests : (req'[o].at = "idle") = (req[o].at = "idle")
      BY DEF Waits
    <3> QED BY <3>1, <1>1, <1>2, <1>3 DEF TypeOK
  <2> QED BY <2>1, <1>1 DEF TypeOK, Waits
<1>6. Unanswered'
  <2> SUFFICES ASSUME NEW o \in Requests
               PROVE /\ req'[o].at # "answered" => req'[o].pass = ""
                     /\ req'[o].at \in {"idle", "sent", "exchanging", "raised"} => req'[o].won = Nobody
                     /\ req'[o].at = "exchanging" =>
                          /\ req'[o].ask.kind \in Callbacks /\ req'[o].jar.state # 0
                          /\ req'[o].ask.state = req'[o].jar.state
    BY <1>1, Zenon DEF Unanswered
  <2>1. CASE o = r
    BY <2>1 DEF Waits
  <2>2. CASE o # r
    <3>1. req'[o] = req[o]
      BY <2>2 DEF Waits
    <3> QED BY <3>1 DEF Unanswered
  <2> QED BY <2>1, <2>2
<1>7. Earned' = Earned
  BY <1>3 DEF Earned
<1>8. \A who : Conferred(who)' <=> Conferred(who)
  BY <1>1 DEF Welcome, Conferred
<1>9. Sessions'
  <2>1. \A o \in Requests : req'[o].pass = "session" => req'[o].jar.who.instance = req'[o].by
    BY DEF Sessions, Waits
  <2> QED BY <2>1, <1>1, <1>3, <1>7, <1>8 DEF Sessions
<1>10. \A s : Coherent(s) => Coherent(s)'
  BY <1>1, <1>3, <1>4 DEF Coherent
<1>11. \A o \in Requests : req'[o].at = "answered" => req'[o] = req[o]
  BY DEF Waits
<1>12. Logins'
  BY <1>1, <1>3, <1>10, <1>11 DEF Logins, Coherent
<1>13. LandsWhereAsked'
  BY <1>3, <1>4, <1>11 DEF LandsWhereAsked, Logins
<1>14. Alone'
  BY <1>1, <1>2, <1>3 DEF Alone, Waits
<1>15. Settled' /\ SignedOutStaysOut'
  <2>1. \A o \in Requests : req'[o].at = "done" => req[o].at = "done"
    BY DEF Waits
  <2>2. Settled'
    BY <2>1, <1>2, <1>3, <1>4 DEF Settled, Requests
  <2>3. SignedOutStaysOut'
    BY <2>1, <1>1, <1>3, <1>4 DEF SignedOutStaysOut, Requests
  <2> QED BY <2>2, <2>3
<1>16. Counted'
  BY <1>1 DEF Counted, TypeOK, Waits
<1>17. Events' /\ RollupsBalance'
  BY <1>1 DEF Events, Named, Welcome, RollupsBalance
<1> QED BY <1>5, <1>6, <1>9, <1>12, <1>13, <1>14, <1>15, <1>16, <1>17

LEMMA SendInv ==
  ASSUME IInv, NEW ask \in Asks, Send(ask)
  PROVE  IInv'
<1> USE DEF IInv
<1> PICK n : n = sent + 1
  OBVIOUS
<1> DEFINE busy == \E o \in Requests : InFlight(o)
<1>1. /\ mode' = mode /\ instance' = instance /\ cookie' = cookie /\ sent' = n
      /\ counts' = counts /\ answers' = answers /\ recent' = recent /\ events' = events
  BY DEF Send, rollups
<1>2. /\ sent \in Nat /\ n \in Requests /\ 1..sent \subseteq Requests /\ n \in 0..MaxRequests
      /\ \A o \in Requests : o \in Nat
  <2>1. sent \in 0..MaxRequests /\ sent < MaxRequests
    BY DEF TypeOK, Send
  <2> QED BY <2>1, SessionsAssumption DEF Requests
<1>3. req[n].at = "idle" /\ req[n].won = Nobody /\ ~InFlight(n)
  <2>1. n > sent
    BY <1>2
  <2>2. req[n].at = "idle"
    BY <2>1, <1>2 DEF TypeOK
  <2> QED BY <2>2, <1>2 DEF InFlight, Unanswered
<1>4. /\ req \in [Requests -> RequestType] /\ cookie \in SessionType /\ ask \in AskType
  BY DEF TypeOK, AskType
<1>5. req' = [r \in Requests |->
        IF r = n THEN Request("sent", ask, cookie, cookie # NoSession, Nobody, busy)
        ELSE [req[r] EXCEPT !.crossed = @ \/ InFlight(r)]]
  BY DEF Send
<1> HIDE DEF busy
<1>6. /\ req'[n] \in RequestType /\ req'[n].at = "sent" /\ req'[n].ask = ask
      /\ req'[n].jar = cookie /\ req'[n].pass = "" /\ req'[n].won = Nobody
      /\ req'[n].had = (cookie # NoSession) /\ req'[n].crossed = busy
  <2> DEFINE had == cookie # NoSession
             new == [at |-> "sent", ask |-> ask, jar |-> cookie, had |-> had, reply |-> "",
                     to |-> "", pass |-> "", won |-> Nobody, crossed |-> busy, by |-> 0]
  <2>1. req'[n] = Request("sent", ask, cookie, had, Nobody, busy)
    BY <1>2, <1>5
  <2>2. req'[n] = new
    BY <2>1, Zenon DEF Request
  <2>3. had \in BOOLEAN /\ busy \in BOOLEAN
    BY DEF busy
  <2> HIDE DEF had
  <2>4. new \in RequestType
    BY <2>3, <1>4, Constants DEF RequestType, Stages
  <2>5. /\ new.at = "sent" /\ new.ask = ask /\ new.jar = cookie /\ new.pass = ""
        /\ new.won = Nobody /\ new.had = had /\ new.crossed = busy
    OBVIOUS
  <2> HIDE DEF new
  <2> QED BY <2>2, <2>4, <2>5, Zenon DEF had
<1>7. ASSUME NEW o \in Requests, o # n
      PROVE  /\ req'[o] \in RequestType /\ req'[o].at = req[o].at /\ req'[o].ask = req[o].ask
             /\ req'[o].jar = req[o].jar /\ req'[o].had = req[o].had /\ req'[o].to = req[o].to
             /\ req'[o].pass = req[o].pass /\ req'[o].won = req[o].won /\ req'[o].by = req[o].by
             /\ req'[o].crossed = (req[o].crossed \/ InFlight(o))
  <2> DEFINE crossed == req[o].crossed \/ InFlight(o)
  <2>1. req'[o] = [req[o] EXCEPT !.crossed = crossed]
    BY <1>5, <1>7, Zenon
  <2>2. crossed \in BOOLEAN /\ req[o] \in RequestType
    BY <1>4
  <2> HIDE DEF crossed
  <2>3. /\ req'[o] \in RequestType /\ req'[o].at = req[o].at /\ req'[o].ask = req[o].ask
        /\ req'[o].jar = req[o].jar /\ req'[o].had = req[o].had /\ req'[o].to = req[o].to
        /\ req'[o].pass = req[o].pass /\ req'[o].won = req[o].won /\ req'[o].by = req[o].by
        /\ req'[o].crossed = crossed
    BY <2>1, <2>2 DEF RequestType
  <2> QED BY <2>3 DEF crossed
<1>8. InFlight(n)' /\ \A o \in Requests : o # n => (InFlight(o)' <=> InFlight(o))
  BY <1>6, <1>7 DEF InFlight
<1>9. TypeOK'
  <2>1. \A o \in Requests :
          /\ (req'[o].at = "idle") = (o > sent')
          /\ InFlight(o)' => req'[o].ask \in Asks
    <3> SUFFICES ASSUME NEW o \in Requests
                 PROVE  (req'[o].at = "idle") = (o > n) /\ (InFlight(o)' => req'[o].ask \in Asks)
      BY <1>1
    <3>1. CASE o = n
      <4>1. ~(o > n)
        BY <3>1, <1>2
      <4>2. req'[o].at # "idle" /\ req'[o].ask \in Asks
        BY <3>1, <1>6
      <4> QED BY <4>1, <4>2
    <3>2. CASE o # n
      <4>1. (o > n) = (o > sent)
        BY <3>2, <1>2
      <4> QED BY <4>1, <3>2, <1>7, <1>8 DEF TypeOK
    <3> QED BY <3>1, <3>2
  <2>2. req' \in [Requests -> RequestType]
    BY <1>5, <1>6, <1>7
  <2> QED BY <2>1, <2>2, <1>1, <1>2 DEF TypeOK
<1>10. Unanswered'
  <2> SUFFICES ASSUME NEW o \in Requests
               PROVE /\ req'[o].at # "answered" => req'[o].pass = ""
                     /\ req'[o].at \in {"idle", "sent", "exchanging", "raised"} => req'[o].won = Nobody
                     /\ req'[o].at = "exchanging" =>
                          /\ req'[o].ask.kind \in Callbacks /\ req'[o].jar.state # 0
                          /\ req'[o].ask.state = req'[o].jar.state
    BY <1>1, Zenon DEF Unanswered
  <2>1. CASE o = n
    BY <2>1, <1>2, <1>6
  <2>2. CASE o # n
    BY <2>2, <1>7 DEF Unanswered
  <2> QED BY <2>1, <2>2
<1>11. Earned' = Earned
  <2>1. \A o \in Requests : req'[o].won = req[o].won
    BY <1>3, <1>6, <1>7
  <2> QED BY <2>1 DEF Earned
<1>12. Welcome' = Welcome /\ \A who : Conferred(who)' <=> Conferred(who)
  BY <1>1 DEF Welcome, Conferred
<1>13. Sessions'
  <2>1. \A o \in Requests :
          /\ req'[o].jar.who \in Earned \cup {Nobody}
          /\ req'[o].pass = "session" => req'[o].jar.who.instance = req'[o].by
    <3> SUFFICES ASSUME NEW o \in Requests
                 PROVE  /\ req'[o].jar.who \in Earned \cup {Nobody}
                        /\ req'[o].pass = "session" => req'[o].jar.who.instance = req'[o].by
      OBVIOUS
    <3>1. CASE o = n
      BY <3>1, <1>6 DEF Sessions
    <3>2. CASE o # n
      BY <3>2, <1>7 DEF Sessions
    <3> QED BY <3>1, <3>2
  <2> QED BY <2>1, <1>1, <1>11, <1>12 DEF Sessions
<1>14. \A s : Coherent(s) => Coherent(s)'
  <2> SUFFICES ASSUME NEW s, Coherent(s), s.state # 0
               PROVE  /\ s.state \in 1..n /\ req'[s.state].ask.kind = "login"
                      /\ s.next = req'[s.state].ask.target
    BY <1>1 DEF Coherent
  <2>1. s.state \in 1..sent /\ s.state \in Requests /\ s.state # n
    BY <1>2 DEF Coherent
  <2>2. s.state \in 1..n
    BY <2>1, <1>2
  <2> QED BY <2>1, <2>2, <1>7 DEF Coherent
<1>15. ASSUME NEW o \in Requests, req'[o].at = "answered", req'[o].won # Nobody
       PROVE  /\ o # n /\ req[o].at = "answered" /\ req[o].won # Nobody
              /\ req'[o].ask.state \in 1..sent /\ req'[o].ask.state \in 1..n
              /\ req'[req'[o].ask.state].ask = req[req[o].ask.state].ask
  <2>1. o # n
    BY <1>6, <1>15
  <2>2. req[o].at = "answered" /\ req[o].won # Nobody /\ req'[o].ask = req[o].ask
    BY <2>1, <1>7, <1>15
  <2>3. req[o].ask.state \in 1..sent
    BY <2>2 DEF Logins
  <2>4. req[o].ask.state \in Requests /\ req[o].ask.state # n /\ req[o].ask.state \in 1..n
    BY <2>3, <1>2
  <2> QED BY <2>1, <2>2, <2>3, <2>4, <1>7
<1>16. Logins'
  <2>1. \A o \in Requests : req'[o].jar = cookie \/ req'[o].jar = req[o].jar
    BY <1>6, <1>7
  <2>2. Coherent(cookie) /\ \A o \in Requests : Coherent(req[o].jar)
    BY DEF Logins
  <2>3. \A o \in Requests : req'[o].at = "answered" /\ req'[o].won # Nobody
                              => req'[o].ask.state \in 1..n
    BY <1>15
  <2> QED BY <2>1, <2>2, <2>3, <1>1, <1>14 DEF Logins, Coherent
<1>17. LandsWhereAsked'
  <2> SUFFICES ASSUME NEW o \in Requests, req'[o].at = "answered", req'[o].won # Nobody
               PROVE  /\ req'[req'[o].ask.state].ask.kind = "login"
                      /\ req'[o].to = req'[req'[o].ask.state].ask.target
    BY DEF LandsWhereAsked
  <2> QED BY <1>7, <1>15 DEF LandsWhereAsked
<1>18. Alone'
  <2> SUFFICES ASSUME NEW l \in Requests, InFlight(l)', ~req'[l].crossed
               PROVE  /\ l = n /\ \A r \in Requests : InFlight(r)' => r = l
                      /\ req'[l].ask.kind = "logout" =>
                           /\ req'[l].at \in {"sent", "answered"}
                           /\ req'[l].had = (cookie' # NoSession)
                           /\ req'[l].at = "answered" => req'[l].jar = NoSession
    BY <1>1 DEF Alone
  <2>1. l = n
    BY <1>7, <1>8
  <2>2. \A r \in Requests : InFlight(r)' => r = l
    BY <2>1, <1>6, <1>8 DEF busy
  <2> QED BY <2>1, <2>2, <1>1, <1>6
<1>19. ASSUME NEW l \in Requests, req'[l].at = "done", req'[l].ask.kind = "logout",
              ~req'[l].crossed
       PROVE  /\ l # n /\ l <= sent /\ req[l].at = "done" /\ req[l].ask.kind = "logout"
              /\ ~req[l].crossed
  <2>1. l # n
    BY <1>6, <1>19
  <2>2. /\ req[l].at = "done" /\ req[l].ask.kind = "logout" /\ ~req[l].crossed
    BY <2>1, <1>7, <1>19
  <2>3. ~(l > sent)
    BY <2>2 DEF TypeOK
  <2>4. l <= sent
    BY <2>3, <1>2
  <2> QED BY <2>1, <2>2, <2>4
<1>20. Settled'
  <2> SUFFICES ASSUME NEW l \in Requests, req'[l].at = "done", req'[l].ask.kind = "logout",
                      ~req'[l].crossed, NEW r \in 1..(l - 1)
               PROVE  ~InFlight(r)'
    BY DEF Settled
  <2>1. r \in Requests /\ r # n
    BY <1>2, <1>19
  <2>2. ~InFlight(r)
    BY <1>19 DEF Settled
  <2> QED BY <2>1, <2>2, <1>8
<1>21. SignedOutStaysOut'
  <2> SUFFICES ASSUME NEW l \in Requests, req'[l].at = "done", req'[l].ask.kind = "logout",
                      ~req'[l].crossed, \A r \in l+1..n : req'[r].ask.kind \notin Callbacks
               PROVE  cookie'.who = Nobody /\ \A r \in l+1..n : req'[r].jar.who = Nobody
    BY <1>1 DEF SignedOutStaysOut
  <2>1. l \in Nat /\ \A r \in l+1..sent : r \in l+1..n /\ r \in Requests /\ r # n
    BY <1>2, <1>19
  <2>2. \A r \in l+1..sent : req[r].ask.kind \notin Callbacks
    BY <2>1, <1>7
  <2>3. cookie.who = Nobody /\ \A r \in l+1..sent : req[r].jar.who = Nobody
    BY <2>2, <1>19 DEF SignedOutStaysOut
  <2>4. \A r \in l+1..n : r = n \/ r \in l+1..sent
    BY <2>1, <1>2
  <2> QED BY <2>1, <2>3, <2>4, <1>1, <1>6, <1>7
<1>22. Counted'
  <2>1. \A a \in answers : a.request \in Requests /\ a.request # n
    BY <1>3 DEF Counted, TypeOK
  <2> QED BY <2>1, <1>1, <1>7 DEF Counted
<1>23. Events' /\ RollupsBalance'
  BY <1>1, <1>12 DEF Events, Named, RollupsBalance
<1> QED BY <1>9, <1>10, <1>13, <1>16, <1>17, <1>18, <1>20, <1>21, <1>22, <1>23

\* Some requests in flight end: one is answered, or all lose their server.
Ends(X, at) ==
  /\ X \in SUBSET Requests /\ at \in Ended
  /\ mode' = mode /\ sent' = sent /\ instance' \in 1..MaxRestarts + 1
  /\ req' = [r \in Requests |-> IF r \in X THEN Over(req[r], at) ELSE req[r]]
  /\ cookie' = cookie \/ \E r \in X : cookie' = req[r].jar

LEMMA EndsFields ==
  ASSUME IInv, NEW X, NEW at, Ends(X, at), \A r \in X : InFlight(r)
  PROVE  /\ req' \in [Requests -> RequestType]
         /\ \A r \in X :
              /\ req'[r].at = at /\ req'[r].jar = NoSession /\ req'[r].pass = ""
              /\ req'[r].crossed <=> req[r].crossed /\ req[r].ask.kind = "logout"
         /\ \A r \in Requests \ X : req'[r] = req[r]
         /\ \A r \in Requests :
              /\ req'[r].won = req[r].won /\ req'[r].ask.kind = req[r].ask.kind
              /\ req[r].ask.kind = "login" => req'[r].ask = req[r].ask
              /\ InFlight(r)' <=> r \notin X /\ InFlight(r)
<1> USE DEF IInv
<1>1. req \in [Requests -> RequestType] /\ X \in SUBSET Requests /\ at \in Ended
  BY DEF TypeOK, Ends
<1>2. ASSUME NEW r \in X
      PROVE  /\ req'[r] \in RequestType
             /\ req'[r].at = at /\ req'[r].won = req[r].won /\ req'[r].jar = NoSession
             /\ req'[r].pass = "" /\ req'[r].ask.kind = req[r].ask.kind
             /\ req[r].ask.kind = "login" => req'[r].ask = req[r].ask
             /\ req'[r].crossed <=> req[r].crossed /\ req[r].ask.kind = "logout"
  <2>1. r \in Requests /\ req[r] \in RequestType
    BY <1>1
  <2>2. req'[r] = Over(req[r], at)
    BY <2>1 DEF Ends
  <2>3. /\ Over(req[r], at) \in RequestType
        /\ Over(req[r], at).at = at /\ Over(req[r], at).won = req[r].won
        /\ Over(req[r], at).jar = NoSession
        /\ Over(req[r], at).pass = "" /\ Over(req[r], at).ask.kind = req[r].ask.kind
        /\ req[r].ask.kind = "login" => Over(req[r], at).ask = req[r].ask
        /\ Over(req[r], at).crossed <=> req[r].crossed /\ req[r].ask.kind = "logout"
    <3>1. at \in Ended
      BY <1>1
    <3>2. PICK q \in RequestType : q = req[r]
      BY <2>1
    <3> HIDE DEF IInv
    <3>3. /\ Over(q, at) \in RequestType
          /\ Over(q, at).at = at /\ Over(q, at).won = q.won /\ Over(q, at).jar = NoSession
          /\ Over(q, at).pass = "" /\ Over(q, at).ask.kind = q.ask.kind
          /\ q.ask.kind = "login" => Over(q, at).ask = q.ask
          /\ Over(q, at).crossed <=> q.crossed /\ q.ask.kind = "logout"
      BY <3>1, OverFields, Zenon
    <3> QED BY <3>2, <3>3, Zenon
  <2> QED BY <2>2, <2>3, Zenon
<1>3. \A r \in Requests \ X : req'[r] = req[r]
  BY DEF Ends
<1>4. req' \in [Requests -> RequestType]
  <2>1. \A r \in Requests : req'[r] \in RequestType
    BY <1>1, <1>2, <1>3
  <2> QED BY <2>1 DEF Ends
<1>5. \A r \in Requests : InFlight(r)' <=> r \notin X /\ InFlight(r)
  BY <1>1, <1>2, <1>3 DEF InFlight, Ended
<1> QED BY <1>2, <1>3, <1>4, <1>5

LEMMA EarnedStays ==
  ASSUME \A r \in Requests : req'[r].won = req[r].won
  PROVE  Earned' = Earned
BY DEF Earned

LEMMA EndsInv ==
  ASSUME IInv, NEW X, NEW at, Ends(X, at), \A r \in X : InFlight(r)
  PROVE  /\ Unanswered' /\ Sessions' /\ Logins' /\ LandsWhereAsked'
         /\ cookie' \in SessionType
         /\ \A r \in Requests :
              /\ (req'[r].at = "idle") = (r > sent')
              /\ InFlight(r)' => req'[r].ask \in Asks
<1> USE DEF IInv
<1>1. /\ req' \in [Requests -> RequestType] /\ X \in SUBSET Requests
      /\ \A r \in X :
           /\ req'[r].at = at /\ req'[r].jar = NoSession /\ req'[r].pass = ""
      /\ \A r \in Requests \ X : req'[r] = req[r]
      /\ \A r \in Requests :
           /\ req'[r].won = req[r].won /\ req'[r].ask.kind = req[r].ask.kind
           /\ req[r].ask.kind = "login" => req'[r].ask = req[r].ask
           /\ InFlight(r)' <=> r \notin X /\ InFlight(r)
  <2>1. X \in SUBSET Requests
    BY DEF Ends
  <2> QED BY <2>1, EndsFields, Zenon
<1>2. /\ mode' = mode /\ sent' = sent
      /\ cookie' = cookie \/ \E r \in X : cookie' = req[r].jar
      /\ at # "idle" /\ at # "answered" /\ at # "exchanging" /\ at # "sent" /\ at # "raised"
  BY DEF Ends, Ended
<1>3. 1..sent \subseteq Requests /\ \A r \in X : req[r].at # "idle"
  BY SessionsAssumption DEF TypeOK, Requests, InFlight
<1>4. \A r \in Requests :
        /\ (req'[r].at = "idle") = (r > sent')
        /\ InFlight(r)' => req'[r].ask \in Asks
  <2> SUFFICES ASSUME NEW r \in Requests
               PROVE  /\ (req'[r].at = "idle") = (r > sent)
                      /\ InFlight(r)' => req'[r].ask \in Asks
    BY <1>2
  <2>1. CASE r \in X
    BY <2>1, <1>1, <1>2, <1>3 DEF TypeOK
  <2>2. CASE r \notin X
    <3>1. req'[r] = req[r] /\ (InFlight(r)' <=> InFlight(r))
      BY <2>2, <1>1
    <3>2. /\ (req[r].at = "idle") = (r > sent)
          /\ InFlight(r) => req[r].ask \in Asks
      BY Zenon DEF TypeOK
    <3> QED BY <3>1, <3>2
  <2> QED BY <2>1, <2>2
<1>5. cookie' \in SessionType
  <2>1. \A r \in Requests : req[r].jar \in SessionType
    BY DEF TypeOK, RequestType
  <2> QED BY <2>1, <1>1, <1>2 DEF TypeOK
<1>6. Unanswered'
  <2> SUFFICES ASSUME NEW o \in Requests
               PROVE /\ req'[o].at # "answered" => req'[o].pass = ""
                     /\ req'[o].at \in {"idle", "sent", "exchanging", "raised"} => req'[o].won = Nobody
                     /\ req'[o].at = "exchanging" =>
                          /\ req'[o].ask.kind \in Callbacks /\ req'[o].jar.state # 0
                          /\ req'[o].ask.state = req'[o].jar.state
    BY Zenon DEF Unanswered
  <2>1. CASE o \in X
    BY <2>1, <1>1, <1>2
  <2>2. CASE o \notin X
    <3>1. req'[o] = req[o]
      BY <2>2, <1>1
    <3> QED BY <3>1 DEF Unanswered
  <2> QED BY <2>1, <2>2
<1>7. Earned' = Earned
  <2>1. \A r \in Requests : req'[r].won = req[r].won
    BY <1>1
  <2> QED BY <2>1, EarnedStays
<1>8. Welcome' = Welcome /\ \A who : Conferred(who)' <=> Conferred(who)
  BY <1>2 DEF Welcome, Conferred
<1>9. Sessions'
  <2>1. \A r \in Requests : req'[r].jar = req[r].jar \/ req'[r].jar = NoSession
    BY <1>1
  <2>2. \A r \in Requests : req'[r].jar.who \in Earned \cup {Nobody}
    BY <2>1, Constants DEF Sessions
  <2>3. \A r \in Requests : req'[r].pass = "session" => req'[r].jar.who.instance = req'[r].by
    BY <1>1 DEF Sessions
  <2>4. cookie'.who \in Earned \cup {Nobody}
    BY <1>1, <1>2 DEF Sessions
  <2> QED BY <2>2, <2>3, <2>4, <1>7, <1>8 DEF Sessions
<1>10. \A s : Coherent(s) => Coherent(s)'
  BY <1>1, <1>2, <1>3 DEF Coherent
<1>11. ASSUME NEW r \in Requests, req'[r].at = "answered", req'[r].won # Nobody
       PROVE  /\ req'[r] = req[r] /\ req[r].ask.state \in 1..sent
              /\ req'[req[r].ask.state].ask = req[req[r].ask.state].ask
  <2>1. req'[r] = req[r]
    BY <1>1, <1>2, <1>11
  <2>2. /\ req[r].ask.state \in 1..sent /\ req[r].ask.state \in Requests
        /\ req[req[r].ask.state].ask.kind = "login"
    BY <2>1, <1>3, <1>11 DEF Logins, LandsWhereAsked
  <2> QED BY <2>1, <2>2, <1>1
<1>12. Logins'
  <2>1. \A r \in Requests : req'[r].jar = NoSession \/ req'[r].jar = req[r].jar
    BY <1>1
  <2>2. \A r \in Requests : Coherent(req[r].jar)
    BY DEF Logins
  <2>3. Coherent(NoSession)
    BY Constants DEF Coherent
  <2>4. cookie' = cookie \/ \E r \in Requests : cookie' = req[r].jar
    BY <1>1, <1>2
  <2>5. Coherent(cookie)'
    BY <2>2, <2>4, <1>10 DEF Logins, Coherent
  <2>6. \A r \in Requests : Coherent(req[r].jar)'
    BY <2>1, <2>2, <2>3, <1>10 DEF Coherent
  <2>7. \A r \in Requests : req'[r].at = "answered" /\ req'[r].won # Nobody
                              => req'[r].ask.state \in 1..sent
    BY <1>11
  <2> QED BY <2>5, <2>6, <2>7, <1>2 DEF Logins
<1>13. LandsWhereAsked'
  <2> SUFFICES ASSUME NEW o \in Requests, req'[o].at = "answered", req'[o].won # Nobody
               PROVE  /\ req'[req'[o].ask.state].ask.kind = "login"
                      /\ req'[o].to = req'[req'[o].ask.state].ask.target
    BY DEF LandsWhereAsked
  <2> QED BY <1>11 DEF LandsWhereAsked
<1> QED BY <1>4, <1>5, <1>6, <1>9, <1>12, <1>13

LEMMA ReceiveInv ==
  ASSUME IInv, NEW r \in Requests, Receive(r)
  PROVE  IInv'
<1> USE DEF IInv
<1>1. /\ mode' = mode /\ instance' = instance /\ sent' = sent /\ counts' = counts
      /\ answers' = answers /\ recent' = recent /\ events' = events
  BY DEF Receive, rollups
<1>2. /\ req[r].at = "answered" \/ req[r].at = "raised"
      /\ req' = [req EXCEPT ![r] = Over(req[r], "done")]
      /\ cookie' = IF req[r].at = "answered" /\ (req[r].jar # NoSession \/ req[r].had)
                   THEN req[r].jar ELSE cookie
  BY DEF Receive
<1>3. InFlight(r)
  BY <1>2 DEF InFlight
<1>4. Ends({r}, "done")
  <2>1. req' = [o \in Requests |-> IF o \in {r} THEN Over(req[o], "done") ELSE req[o]]
    BY <1>2 DEF TypeOK
  <2>2. cookie' = cookie \/ cookie' = req[r].jar
    BY <1>2
  <2>3. instance' \in 1..MaxRestarts + 1
    BY <1>1 DEF TypeOK
  <2> QED BY <2>1, <2>2, <2>3, <1>1 DEF Ends, Ended
<1>5. /\ req' \in [Requests -> RequestType]
      /\ req'[r].at = "done" /\ req'[r].jar = NoSession
      /\ req'[r].crossed <=> req[r].crossed /\ req[r].ask.kind = "logout"
      /\ \A o \in Requests : o # r => req'[o] = req[o]
      /\ \A o \in Requests : req'[o].ask.kind = req[o].ask.kind
      /\ \A o \in Requests : InFlight(o)' <=> o # r /\ InFlight(o)
  <2> PICK X : X = {r}
    OBVIOUS
  <2>1. Ends(X, "done") /\ \A o \in X : InFlight(o)
    BY <1>3, <1>4
  <2>2. /\ req' \in [Requests -> RequestType]
        /\ \A o \in X :
             /\ req'[o].at = "done" /\ req'[o].jar = NoSession /\ req'[o].pass = ""
             /\ req'[o].crossed <=> req[o].crossed /\ req[o].ask.kind = "logout"
        /\ \A o \in Requests \ X : req'[o] = req[o]
        /\ \A o \in Requests :
             /\ req'[o].won = req[o].won /\ req'[o].ask.kind = req[o].ask.kind
             /\ req[o].ask.kind = "login" => req'[o].ask = req[o].ask
             /\ InFlight(o)' <=> o \notin X /\ InFlight(o)
    BY <2>1, EndsFields, Zenon
  <2> QED BY <2>2
<1>6. /\ Unanswered' /\ Sessions' /\ Logins' /\ LandsWhereAsked'
      /\ cookie' \in SessionType
      /\ \A o \in Requests :
           /\ (req'[o].at = "idle") = (o > sent')
           /\ InFlight(o)' => req'[o].ask \in Asks
  BY <1>3, <1>4, EndsInv
<1>7. TypeOK'
  BY <1>1, <1>5, <1>6 DEF TypeOK
<1>8. Alone'
  <2>1. \A l \in Requests : InFlight(l)' => req'[l].crossed
    BY <1>3, <1>5 DEF Alone
  <2> QED BY <2>1 DEF Alone
<1>9. ASSUME req[r].ask.kind = "logout" /\ ~req[r].crossed
      PROVE  Settled' /\ SignedOutStaysOut'
  <2>1. /\ r = sent /\ \A o \in Requests : InFlight(o) => o = r
        /\ req[r].at = "answered" /\ req[r].jar = NoSession
        /\ req[r].had = (cookie # NoSession)
    BY <1>2, <1>3, <1>9 DEF Alone
  <2>2. cookie'.who = Nobody
    BY <2>1, <1>2, Constants
  <2>3. \A o \in Requests : ~InFlight(o)'
    BY <2>1, <1>5
  <2>4. r \in Nat /\ \A l \in Requests : l \in Nat /\ 1..(l - 1) \subseteq Requests
    BY SessionsAssumption DEF Requests
  <2>5. Settled'
    BY <2>3, <2>4 DEF Settled
  <2>6. SignedOutStaysOut'
    <3> SUFFICES ASSUME NEW l \in Requests, req'[l].at = "done", req'[l].ask.kind = "logout",
                        ~req'[l].crossed, \A o \in l+1..sent : req'[o].ask.kind \notin Callbacks
                 PROVE  cookie'.who = Nobody /\ \A o \in l+1..sent : req'[o].jar.who = Nobody
      BY <1>1 DEF SignedOutStaysOut
    <3>1. CASE l = r
      <4>1. l+1..sent = {}
        BY <3>1, <2>1, <2>4
      <4> QED BY <4>1, <2>2
    <3>2. CASE l # r
      <4>1. req[l].at = "done" /\ req[l].ask.kind = "logout" /\ ~req[l].crossed
        BY <3>2, <1>5
      <4>2. \A o \in l+1..sent : o \in Requests
        BY <2>4, SessionsAssumption DEF Requests, TypeOK
      <4>3. \A o \in l+1..sent : req[o].ask.kind \notin Callbacks
        BY <4>2, <1>5
      <4>4. \A o \in l+1..sent : req[o].jar.who = Nobody
        BY <4>1, <4>3 DEF SignedOutStaysOut
      <4> QED BY <4>2, <4>4, <2>2, <1>5, Constants
    <3> QED BY <3>1, <3>2
  <2> QED BY <2>5, <2>6
<1>10. ASSUME ~(req[r].ask.kind = "logout" /\ ~req[r].crossed)
       PROVE  Settled' /\ SignedOutStaysOut'
  <2>1. \A l \in Requests : l \in Nat /\ 1..(l - 1) \subseteq Requests
    BY SessionsAssumption DEF Requests
  <2>2. \A l \in Requests : req'[l].at = "done" /\ req'[l].ask.kind = "logout" /\ ~req'[l].crossed
          => l # r /\ req[l].at = "done" /\ req[l].ask.kind = "logout" /\ ~req[l].crossed
    BY <1>5, <1>10
  <2>3. Settled'
    BY <2>1, <2>2, <1>5 DEF Settled
  <2>4. SignedOutStaysOut'
    <3> SUFFICES ASSUME NEW l \in Requests, req'[l].at = "done", req'[l].ask.kind = "logout",
                        ~req'[l].crossed, \A o \in l+1..sent : req'[o].ask.kind \notin Callbacks
                 PROVE  cookie'.who = Nobody /\ \A o \in l+1..sent : req'[o].jar.who = Nobody
      BY <1>1 DEF SignedOutStaysOut
    <3>1. l # r /\ req[l].at = "done" /\ req[l].ask.kind = "logout" /\ ~req[l].crossed
      BY <2>2
    <3>2. l \in Nat /\ r \in Nat /\ sent \in Nat /\ \A o \in l+1..sent : o \in Requests
      BY SessionsAssumption DEF Requests, TypeOK
    <3>3. \A o \in l+1..sent : req[o].ask.kind \notin Callbacks
      BY <3>2, <1>5
    <3>4. cookie.who = Nobody /\ \A o \in l+1..sent : req[o].jar.who = Nobody
      BY <3>1, <3>3 DEF SignedOutStaysOut
    <3>5. r \in l+1..sent
      <4>1. ~(r \in 1..(l - 1))
        BY <3>1, <1>3 DEF Settled
      <4>2. ~(r > sent) /\ r >= 1
        <5>1. req[r].at # "idle"
          BY <1>2
        <5> QED BY <5>1 DEF TypeOK, Requests
      <4> QED BY <4>1, <4>2, <3>1, <3>2
    <3>6. cookie'.who = Nobody
      BY <3>4, <3>5, <1>2
    <3> QED BY <3>2, <3>4, <3>6, <1>5, Constants
  <2> QED BY <2>3, <2>4
<1>11. Counted'
  BY <1>1, <1>2, <1>5 DEF Counted, TypeOK
<1>12. Events' /\ RollupsBalance'
  BY <1>1 DEF Events, Named, Welcome, RollupsBalance
<1> QED BY <1>6, <1>7, <1>8, <1>9, <1>10, <1>11, <1>12

LEMMA RestartInv ==
  ASSUME IInv, Restart
  PROVE  IInv'
<1> USE DEF IInv
<1> DEFINE X == {r \in Requests : InFlight(r)}
<1>1. /\ mode' = mode /\ cookie' = cookie /\ sent' = sent /\ counts' = NoCounts
      /\ answers' = {} /\ recent' = <<>> /\ events' = 0
  BY DEF Restart
<1>2. Ends(X, "lost") /\ X \in SUBSET Requests /\ \A r \in X : InFlight(r)
  <2>1. instance' \in 1..MaxRestarts + 1
    <3>1. instance \in 1..MaxRestarts + 1 /\ instance <= MaxRestarts /\ instance' = instance + 1
      BY DEF TypeOK, Restart
    <3> QED BY <3>1, SessionsAssumption
  <2>2. req' = [r \in Requests |-> IF r \in X THEN Over(req[r], "lost") ELSE req[r]]
    BY DEF Restart
  <2> QED BY <2>1, <2>2, <1>1 DEF Ends, Ended
<1> HIDE DEF X
<1>3. /\ req' \in [Requests -> RequestType]
      /\ \A r \in X : req'[r].at = "lost" /\ req'[r].jar = NoSession
      /\ \A r \in Requests \ X : req'[r] = req[r]
      /\ \A r \in Requests : req'[r].ask.kind = req[r].ask.kind
      /\ \A r \in Requests : InFlight(r)' <=> r \notin X /\ InFlight(r)
  BY <1>2, EndsFields
<1>4. /\ Unanswered' /\ Sessions' /\ Logins' /\ LandsWhereAsked'
      /\ cookie' \in SessionType
      /\ \A r \in Requests :
           /\ (req'[r].at = "idle") = (r > sent')
           /\ InFlight(r)' => req'[r].ask \in Asks
  BY <1>2, EndsInv
<1>5. TypeOK'
  <2>1. 0 \in 0..Cardinality({})
    BY FS_EmptySet
  <2>2. instance' \in 1..MaxRestarts + 1
    BY <1>2 DEF Ends
  <2>3. mode' \in Modes /\ sent' \in 0..MaxRequests
    BY <1>1 DEF TypeOK
  <2> QED BY <2>1, <2>2, <2>3, <1>1, <1>3, <1>4 DEF TypeOK
<1>6. \A r \in Requests : ~InFlight(r)'
  BY <1>3 DEF X
<1>7. Alone' /\ Settled'
  <2>1. \A l \in Requests : 1..(l - 1) \subseteq Requests
    BY SessionsAssumption DEF Requests
  <2> QED BY <2>1, <1>6 DEF Alone, Settled
<1>8. SignedOutStaysOut'
  <2>1. \A l \in Requests : req'[l].at = "done" => req'[l] = req[l]
    BY <1>3
  <2>2. \A l \in Requests : \A r \in l+1..sent : r \in Requests
    BY SessionsAssumption DEF Requests, TypeOK
  <2>3. \A r \in Requests : req[r].jar.who = Nobody => req'[r].jar.who = Nobody
    BY <1>3, Constants
  <2> QED BY <2>1, <2>2, <2>3, <1>1, <1>3 DEF SignedOutStaysOut
<1>9. Counted'
  BY <1>1, FS_EmptySet DEF Counted
<1>10. Events' /\ RollupsBalance'
  <2>1. Len(<<>>) = 0 /\ <<>> \in Seq(Named')
    OBVIOUS
  <2> QED BY <2>1, <1>1, SessionsAssumption, NothingCounted DEF Events, RollupsBalance
<1> QED BY <1>4, <1>5, <1>7, <1>8, <1>9, <1>10

-----------------------------------------------------------------------------
(* The handlers.                                                           *)

LEMMA RolesTyped ==
  ASSUME NEW u \in Users
  PROVE  RolesOf(mode, Claims[u]) \in SUBSET (AppRoles \cup Roles)
<1>1. Claims[u].roles \cup Claims[u].entitled \subseteq Roles
  BY DEF Roles
<1>2. BrokerRoles(Claims[u]) \subseteq AppRoles \cup Roles
  BY <1>1 DEF BrokerRoles, WithOperator, AppRoles
<1>3. CognitoRoles(Claims[u]) \subseteq AppRoles
  BY DEF CognitoRoles, RolesFromGroups, NormalizedMap, WithOperator, AppRoles
<1> QED BY <1>2, <1>3 DEF RolesOf

LEMMA Asking ==
  ASSUME IInv, NEW r \in Requests, req[r].at \in {"sent", "exchanging"}
  PROVE  /\ req[r].ask \in Asks /\ req[r].jar \in SessionType /\ req[r].reply \in Replies
         /\ req[r].jar.who \in Principals /\ req[r].jar.next \in Destinations
         /\ req[r].pass = "" /\ req[r].won = Nobody /\ Coherent(req[r].jar)
         /\ r \in 1..sent /\ r \in 0..MaxRequests /\ r # 0
         /\ instance \in Instances /\ instance # 0 /\ mode \in Modes
<1> USE DEF IInv
<1>1. req[r].ask \in Asks
  BY DEF TypeOK, InFlight
<1>2. req[r] \in RequestType
  BY DEF TypeOK
<1>3. req[r].jar \in SessionType /\ req[r].reply \in Replies
  BY <1>2 DEF RequestType
<1>4. req[r].jar.who \in Principals /\ req[r].jar.next \in Destinations
  BY <1>3 DEF SessionType, Destinations
<1>5. req[r].pass = "" /\ req[r].won = Nobody /\ Coherent(req[r].jar)
  BY DEF Unanswered, Logins
<1>6. req[r].at # "idle"
  OBVIOUS
<1>7. ~(r > sent) /\ sent \in 0..MaxRequests
  BY <1>6 DEF TypeOK
<1>8. r \in 1..sent /\ r \in 0..MaxRequests /\ r # 0
  BY <1>7, SessionsAssumption DEF Requests
<1>9. instance \in 1..MaxRestarts + 1 /\ mode \in Modes
  BY DEF TypeOK
<1>10. instance \in Instances /\ instance # 0
  BY <1>9, SessionsAssumption DEF Instances
<1> QED BY <1>1, <1>3, <1>4, <1>5, <1>8, <1>9, <1>10

\* A redirection of a request without a new principal.
LEMMA RedirectInv ==
  ASSUME IInv, NEW r \in Requests, req[r].at \in {"sent", "exchanging"},
         NEW to \in Destinations, NEW jar \in SessionType, Redirect(r, to, jar),
         Coherent(jar), jar.who = req[r].jar.who \/ jar.who = Nobody,
         req[r].ask.kind = "logout" => jar = NoSession
  PROVE  IInv'
<1>1. Answer(r, 302, to, jar, "open", Nobody) /\ UNCHANGED <<recent, events>>
  BY DEF Redirect
<1>2. "open" \in Passes /\ "open" # "session" /\ 302 \in Nat
  BY DEF Passes
<1>3. Fitting(r, 302, to, jar, "open", Nobody)
  BY <1>2, Constants DEF Fitting
<1> QED BY <1>1, <1>3, AnswerInv DEF Noted

\* The page of a visit that answers with the session as it was.
LEMMA PageInv ==
  ASSUME IInv, NEW r \in Requests, req[r].at = "sent", req[r].ask.kind = "visit",
         NEW status \in Nat, NEW to \in Destinations, NEW pass \in Passes,
         Answer(r, status, to, req[r].jar, pass, Nobody), Noted,
         pass = "session" => req[r].jar.who.instance = instance
  PROVE  IInv'
<1>1. Fitting(r, status, to, req[r].jar, pass, Nobody)
  BY Asking, Constants DEF Fitting
<1> QED BY <1>1, AnswerInv

LEMMA RaiseInv ==
  ASSUME IInv, NEW r \in Requests, req[r].at \in {"sent", "exchanging"},
         req[r].ask.kind # "logout", Raise(r)
  PROVE  IInv'
<1>1. req \in [Requests -> RequestType] /\ req[r] \in RequestType
  BY DEF IInv, TypeOK
<1>2. /\ req' = [req EXCEPT ![r].at = "raised"]
      /\ UNCHANGED <<mode, instance, cookie, sent, rollups>>
  BY DEF Raise
<1> DEFINE q == [req[r] EXCEPT !.at = "raised"]
<1>3. /\ q \in RequestType /\ q.at = "raised" /\ q.ask = req[r].ask /\ q.jar = req[r].jar
      /\ q.crossed = req[r].crossed /\ q.pass = req[r].pass /\ q.won = req[r].won
  BY <1>1 DEF RequestType, Stages
<1>4. req' = [req EXCEPT ![r] = q]
  BY <1>1, <1>2
<1> HIDE DEF q
<1>5. Waits(r)
  BY <1>1, <1>2, <1>3, <1>4, Asking DEF Waits
<1> QED BY <1>5, WaitingInv

LEMMA LoginStartInv ==
  ASSUME IInv, NEW r \in Requests, LoginStart(r)
  PROVE  IInv'
<1>1. req[r].at = "sent" /\ req[r].ask.kind = "login"
  BY DEF LoginStart, Asked
<1>2. req[r].at \in {"sent", "exchanging"}
  BY <1>1
<1>3. req[r].ask \in Asks /\ req[r].jar \in SessionType /\ Coherent(req[r].jar)
      /\ req[r].jar.who \in Principals /\ r \in 1..sent /\ r \in 0..MaxRequests /\ mode \in Modes
  BY <1>2, Asking
<1>4. req[r].ask.target \in Targets
  BY <1>1, <1>3 DEF Asks, Callbacks
<1>5. req[r].ask.target \in Destinations /\ mode \in Destinations
  BY <1>3, <1>4 DEF Destinations
<1> DEFINE jar == [state |-> r, next |-> req[r].ask.target, who |-> req[r].jar.who]
<1>6. jar \in SessionType /\ jar.who = req[r].jar.who /\ Coherent(jar)
  BY <1>1, <1>3, <1>4 DEF SessionType, Coherent
<1>7. Redirect(r, req[r].ask.target, req[r].jar) \/ Redirect(r, mode, jar)
  BY DEF LoginStart
<1> HIDE DEF jar
<1>8. CASE Redirect(r, req[r].ask.target, req[r].jar)
  BY <1>1, <1>2, <1>3, <1>5, <1>8, RedirectInv
<1>9. CASE Redirect(r, mode, jar)
  BY <1>1, <1>2, <1>5, <1>6, <1>9, RedirectInv
<1> QED BY <1>7, <1>8, <1>9

LEMMA Reasons ==
  /\ \A s \in {"invalid_state", "token_exchange_failed", "missing_code", "auth_error",
               "blocked_domain", "not_authorized", ""} : Reason(s) \in Destinations
  /\ \A c : Refusal(mode, c) \in {"auth_error", "blocked_domain", "not_authorized", ""}
<1>1. \A s \in {"invalid_state", "token_exchange_failed", "missing_code", "auth_error",
                "blocked_domain", "not_authorized", ""} : Reason(s) \in Destinations
  BY DEF Reason, Destinations
<1>2. \A c : Refusal(mode, c) \in {"auth_error", "blocked_domain", "not_authorized", ""}
  BY DEF Refusal, CognitoRefusal, BrokerRefusal
<1> QED BY <1>1, <1>2

\* A redirection with the session as it is.
LEMMA KeptInv ==
  ASSUME IInv, NEW r \in Requests, req[r].at \in {"sent", "exchanging"},
         NEW to \in Destinations, Redirect(r, to, req[r].jar), req[r].ask.kind # "logout"
  PROVE  IInv'
<1>1. req[r].jar \in SessionType /\ Coherent(req[r].jar)
  BY Asking
<1> QED BY <1>1, RedirectInv

LEMMA CallbackRefuseInv ==
  ASSUME IInv, NEW r \in Requests, CallbackRefuse(r)
  PROVE  IInv'
<1>1. req[r].at = "sent" /\ req[r].ask.kind \in Callbacks
  BY DEF CallbackRefuse
<1>2. req[r].at \in {"sent", "exchanging"} /\ req[r].ask.kind # "logout"
  BY <1>1 DEF Callbacks
<1>3. CASE Answer(r, 422, "", req[r].jar, "open", Nobody) /\ UNCHANGED <<recent, events>>
  <2>1. Fitting(r, 422, "", req[r].jar, "open", Nobody)
    <3>1. "open" \in Passes /\ "open" # "session" /\ 422 \in Nat
      BY DEF Passes
    <3> QED BY <3>1, <1>2, Asking, Constants DEF Fitting
  <2> QED BY <1>3, <2>1, AnswerInv DEF Noted
<1>4. CASE Raise(r)
  BY <1>2, <1>4, RaiseInv
<1>5. ASSUME NEW to \in Destinations, Redirect(r, to, req[r].jar)
      PROVE  IInv'
  BY <1>2, <1>5, KeptInv
<1>6. /\ "/" \in Destinations /\ "auth_error" \in Destinations
      /\ \A b : Reason(IF b THEN "invalid_state" ELSE "missing_code") \in Destinations
  BY Reasons DEF Destinations
<1> QED BY <1>3, <1>4, <1>5, <1>6 DEF CallbackRefuse

LEMMA CallbackBeginInv ==
  ASSUME IInv, NEW r \in Requests, CallbackBegin(r)
  PROVE  IInv'
<1>1. /\ req[r].at = "sent" /\ req[r].ask.kind \in Callbacks
      /\ req[r].jar.state # 0 /\ req[r].ask.state = req[r].jar.state
      /\ UNCHANGED <<mode, instance, cookie, sent, rollups>>
  BY DEF CallbackBegin, Callback, Callbacks
<1>2. PICK reply \in Replies :
        req' = [req EXCEPT ![r] =
          [at |-> "exchanging", ask |-> req[r].ask, jar |-> req[r].jar, had |-> req[r].had,
           reply |-> reply, to |-> "", pass |-> "", won |-> Nobody,
           crossed |-> req[r].crossed, by |-> 0]]
  BY DEF CallbackBegin, Replies
<1>3. req \in [Requests -> RequestType] /\ req[r] \in RequestType
  BY DEF IInv, TypeOK
<1> DEFINE q == [at |-> "exchanging", ask |-> req[r].ask, jar |-> req[r].jar,
                 had |-> req[r].had, reply |-> reply, to |-> "", pass |-> "", won |-> Nobody,
                 crossed |-> req[r].crossed, by |-> 0]
<1>4. req' = [req EXCEPT ![r] = q]
  BY <1>2
<1>5. q \in RequestType
  BY <1>3, Constants DEF RequestType, Stages
<1>6. /\ q.at = "exchanging" /\ q.ask = req[r].ask /\ q.jar = req[r].jar /\ q.pass = ""
      /\ q.won = Nobody /\ q.crossed = req[r].crossed
  OBVIOUS
<1> HIDE DEF q
<1>7. /\ req' \in [Requests -> RequestType] /\ req'[r] = q
      /\ \A o \in Requests \ {r} : req'[o] = req[o]
  BY <1>3, <1>4, <1>5
<1>8. req[r].ask.kind # "logout"
  BY <1>1 DEF Callbacks
<1>9. Waits(r)
  BY <1>1, <1>6, <1>7, <1>8 DEF Waits
<1> QED BY <1>9, WaitingInv

LEMMA ExchangeRefusedInv ==
  ASSUME IInv, NEW r \in Requests, ExchangeRefused(r) \/ ExchangeTimesOut(r)
  PROVE  IInv'
<1>1. req[r].at = "exchanging"
  BY DEF ExchangeRefused, ExchangeTimesOut
<1>2. req[r].ask.kind \in Callbacks
  BY <1>1 DEF IInv, Unanswered
<1>3. req[r].at \in {"sent", "exchanging"} /\ req[r].ask.kind # "logout"
  BY <1>1, <1>2 DEF Callbacks
<1>4. CASE Raise(r)
  BY <1>3, <1>4, RaiseInv
<1>5. ASSUME NEW to \in Destinations, Redirect(r, to, req[r].jar)
      PROVE  IInv'
  BY <1>3, <1>5, KeptInv
<1>6. /\ "token_validation_failed" \in Destinations
      /\ \A b : Reason(IF b THEN "token_exchange_failed" ELSE "auth_error") \in Destinations
      /\ \A u : Reason(Refusal(mode, Claims[u])) \in Destinations
  BY Reasons DEF Destinations
<1> QED BY <1>4, <1>5, <1>6 DEF ExchangeRefused, ExchangeTimesOut

LEMMA ExchangeDoneInv ==
  ASSUME IInv, NEW r \in Requests, ExchangeDone(r)
  PROVE  IInv'
<1> PICK u : u = req[r].reply
  OBVIOUS
<1> DEFINE jar == [NoSession EXCEPT !.who = Principal(u)]
<1>1. /\ req[r].at = "exchanging" /\ u \in Users /\ Refusal(mode, Claims[u]) = ""
      /\ Answer(r, 302, req[r].jar.next, jar, "open", Principal(u))
      /\ UNCHANGED <<recent, events>>
  BY DEF ExchangeDone
<1>2. /\ req[r].ask.kind \in Callbacks /\ req[r].jar.state # 0
      /\ req[r].ask.state = req[r].jar.state
  BY <1>1 DEF IInv, Unanswered
<1>3. req[r].at \in {"sent", "exchanging"} /\ req[r].ask.kind # "logout"
  BY <1>1, <1>2 DEF Callbacks
<1>4. /\ Coherent(req[r].jar) /\ req[r].jar.next \in Destinations /\ instance \in Instances
  BY <1>3, Asking
<1>5. /\ Principal(u) \in Principals /\ Principal(u).user = u
      /\ Principal(u).roles = RolesOf(mode, Claims[u])
  <2>1. Principal(u) = [user |-> u, roles |-> RolesOf(mode, Claims[u]), instance |-> instance]
    BY DEF Principal
  <2>2. RolesOf(mode, Claims[u]) \in SUBSET (AppRoles \cup Roles)
    BY <1>1, RolesTyped
  <2> DEFINE roles == RolesOf(mode, Claims[u])
  <2> HIDE DEF roles
  <2>3. [user |-> u, roles |-> roles, instance |-> instance] \in Principals
    BY <2>2, <1>1, <1>4 DEF Principals, roles
  <2> QED BY <2>1, <2>3 DEF roles
<1>6. Conferred(Principal(u))
  BY <1>1, <1>5 DEF Conferred, Welcome
<1>7. jar \in SessionType /\ jar.who = Principal(u) /\ jar.state = 0
  <2>1. NoSession \in SessionType /\ NoSession.state = 0
    BY Constants
  <2> QED BY <2>1, <1>5 DEF SessionType
<1>8. Coherent(jar)
  BY <1>7 DEF Coherent
<1>9. /\ req[r].ask.state \in 1..sent /\ req[req[r].ask.state].ask.kind = "login"
      /\ req[r].jar.next = req[req[r].ask.state].ask.target
  BY <1>2, <1>4 DEF Coherent
<1>10. "open" \in Passes /\ "open" # "session" /\ 302 \in Nat
  BY DEF Passes
<1> HIDE DEF jar
<1>11. Fitting(r, 302, req[r].jar.next, jar, "open", Principal(u))
  BY <1>2, <1>3, <1>4, <1>5, <1>6, <1>7, <1>8, <1>9, <1>10 DEF Fitting
<1> QED BY <1>1, <1>11, AnswerInv DEF Noted

LEMMA LogoutInv ==
  ASSUME IInv, NEW r \in Requests, Logout(r)
  PROVE  IInv'
<1>1. req[r].at = "sent"
      /\ \E to \in {"/login", mode} : Redirect(r, to, NoSession)
  BY DEF Logout, Asked
<1>2. req[r].at \in {"sent", "exchanging"}
  BY <1>1
<1>3. "/login" \in Destinations /\ mode \in Destinations
  BY <1>2, Asking DEF Destinations
<1>4. NoSession \in SessionType /\ Coherent(NoSession) /\ NoSession.who = Nobody
  BY Constants DEF Coherent
<1> QED BY <1>1, <1>2, <1>3, <1>4, RedirectInv


\* A request that the gate has let in, with what it may rely on.
LetIn(r, pass, u) ==
  /\ req[r].at = "sent" /\ req[r].ask.kind = "visit" /\ u \in Users
  /\ pass \in {"open", "session", "token", "agent", "service"}
  /\ pass = "session" => Live(req[r].jar.who, instance)
  /\ pass = "token" => u \in Welcome
  /\ pass = "agent" => req[r].ask.visit.route \in EndpointCatalog

\* An event names a user that is welcome, or nobody.
LEMMA EmailNamed ==
  ASSUME IInv, NEW r \in Requests, NEW pass, NEW u, LetIn(r, pass, u), pass # "agent"
  PROVE  EmailAt(r, pass, u) \in Named
<1>1. CASE pass = "session"
  <2>1. req[r].jar.who.user # ""
    BY <1>1 DEF LetIn, Live
  <2>2. req[r].jar.who # Nobody
    BY <2>1, Constants
  <2>3. Conferred(req[r].jar.who)
    BY <2>2 DEF IInv, Sessions
  <2> QED BY <1>1, <2>3 DEF Conferred, EmailAt, Named
<1>2. CASE pass = "token"
  BY <1>2 DEF EmailAt, Named, LetIn
<1>3. CASE pass # "session" /\ pass # "token"
  BY <1>3 DEF EmailAt, Named
<1> QED BY <1>1, <1>2, <1>3

LEMMA Answering ==
  ASSUME IInv, NEW r \in Requests, NEW pass, NEW u, LetIn(r, pass, u),
         NEW status \in Nat, NEW to \in Destinations,
         Answer(r, status, to, req[r].jar, pass, Nobody), Noted
  PROVE  IInv'
<1>1. pass \in Passes
  BY DEF Passes, LetIn
<1>2. req[r].at = "sent" /\ req[r].ask.kind = "visit"
  BY DEF LetIn
<1>3. pass = "session" => req[r].jar.who.instance = instance
  BY DEF LetIn, Live
<1> QED BY <1>1, <1>2, <1>3, PageInv

LEMMA HandleInv ==
  ASSUME IInv, NEW r \in Requests, NEW pass, NEW u, LetIn(r, pass, u), Handle(r, pass, u)
  PROVE  IInv'
<1>0. /\ 200 \in Nat /\ 302 \in Nat /\ 404 \in Nat
      /\ "" \in Destinations /\ "/login" \in Destinations /\ "not_authorized" \in Destinations
  BY DEF Destinations
<1>1. CASE AdminPage(r, pass, u)
  <2>1. Answer(r, 302, "not_authorized", req[r].jar, pass, Nobody) /\ Noted
    BY <1>1 DEF AdminPage, Noted
  <2> QED BY <1>0, <2>1, Answering
<1>2. CASE AuthPages(r, pass, u)
  <2>1. pass # "agent"
    <3>1. <<"my_health">> \notin EndpointCatalog /\ <<"auth_health">> \notin EndpointCatalog
      BY DEF EndpointCatalog
    <3> QED BY <3>1, <1>2 DEF AuthPages, LetIn
  <2>2. EmailAt(r, pass, u) \in Named
    BY <2>1, EmailNamed
  <2>3. PICK status \in Nat : Answer(r, status, "", req[r].jar, pass, Nobody) /\ Noted
    BY <1>0, <1>2, <2>2 DEF AuthPages, Noted
  <2> QED BY <1>0, <2>3, Answering
<1>3. CASE OtherPage(r, pass, u)
  <2>1. CASE Raise(r)
    <3>1. req[r].at \in {"sent", "exchanging"} /\ req[r].ask.kind # "logout"
      BY DEF LetIn
    <3> QED BY <2>1, <3>1, RaiseInv
  <2>2. CASE ~Raise(r)
    <3>1. Statuses \subseteq Nat /\ LoginStatus(req[r].ask.visit) \in Nat
      BY SessionsAssumption DEF LoginStatus
    <3>2. PICK status \in Nat, to \in Destinations :
            Answer(r, status, to, req[r].jar, pass, Nobody) /\ UNCHANGED <<recent, events>>
      BY <1>0, <1>3, <2>2, <3>1 DEF OtherPage
    <3> QED BY <3>2, Answering DEF Noted
  <2> QED BY <2>1, <2>2
<1> QED BY <1>1, <1>2, <1>3 DEF Handle

LEMMA VisitInv ==
  ASSUME IInv, NEW r \in Requests, VisitOpen(r) \/ VisitBySession(r)
  PROVE  IInv'
<1>1. CASE VisitOpen(r)
  <2>1. PICK u \in Users : Handle(r, "open", u)
    BY <1>1 DEF VisitOpen
  <2>2. LetIn(r, "open", u)
    BY <1>1 DEF VisitOpen, Asked, LetIn
  <2> QED BY <2>1, <2>2, HandleInv
<1>2. CASE VisitBySession(r)
  <2>1. PICK u \in Users : Handle(r, "session", u)
    BY <1>2 DEF VisitBySession
  <2>2. LetIn(r, "session", u)
    BY <1>2 DEF VisitBySession, BySession, Asked, LetIn
  <2> QED BY <2>1, <2>2, HandleInv
<1> QED BY <1>1, <1>2

LEMMA VisitExpiredInv ==
  ASSUME IInv, NEW r \in Requests, VisitExpired(r)
  PROVE  IInv'
<1>1. req[r].at = "sent" /\ req[r].ask.kind = "visit"
  BY DEF VisitExpired, Asked
<1>2. PICK who \in {req[r].jar.who, Nobody} :
        Redirect(r, "session_expired", [req[r].jar EXCEPT !.who = who])
  BY DEF VisitExpired
<1>3. req[r].jar \in SessionType /\ req[r].jar.who \in Principals /\ Coherent(req[r].jar)
  BY <1>1, Asking
<1> DEFINE jar == [req[r].jar EXCEPT !.who = who]
<1>4. /\ jar \in SessionType /\ jar.who = who
      /\ jar.state = req[r].jar.state /\ jar.next = req[r].jar.next
  BY <1>2, <1>3, Constants DEF SessionType
<1>5. Redirect(r, "session_expired", jar)
  BY <1>2
<1> HIDE DEF jar
<1>6. Coherent(jar)
  BY <1>3, <1>4 DEF Coherent
<1>7. "session_expired" \in Destinations
  BY DEF Destinations
<1> QED BY <1>1, <1>4, <1>5, <1>6, <1>7, RedirectInv

LEMMA VisitWithoutSessionInv ==
  ASSUME IInv, NEW r \in Requests, VisitWithoutSession(r)
  PROVE  IInv'
<1> DEFINE v == req[r].ask.visit
<1>1. req[r].at = "sent" /\ req[r].ask.kind = "visit"
  BY DEF VisitWithoutSession, Asked
<1>2. PICK u, grant, pass :
        /\ u \in Users /\ pass = WithoutSession(mode, v, grant, Claims[u])
        /\ IF AgentRaises(v, grant) THEN Raise(r)
           ELSE IF pass = "refused"
           THEN /\ Answer(r, RefusalStatus(v, grant), "/login", req[r].jar, pass, Nobody)
                /\ UNCHANGED <<recent, events>>
           ELSE Handle(r, pass, u)
  BY DEF VisitWithoutSession
<1> HIDE DEF v
<1>3. CASE Raise(r)
  BY <1>1, <1>3, RaiseInv
<1>4. CASE Answer(r, RefusalStatus(v, grant), "/login", req[r].jar, pass, Nobody)
             /\ UNCHANGED <<recent, events>> /\ pass = "refused"
  <2>1. RefusalStatus(v, grant) \in Nat
    BY DEF RefusalStatus, AgentStatus, LoginStatus
  <2>2. "/login" \in Destinations /\ "refused" \in Passes
    BY DEF Destinations, Passes
  <2> QED BY <1>1, <1>4, <2>1, <2>2, PageInv DEF Noted
<1>5. CASE Handle(r, pass, u) /\ pass # "refused"
  <2>1. pass \in {"service", "agent", "token"}
    BY <1>2, <1>5 DEF WithoutSession
  <2>2. u \in Users /\ (pass = "token" => u \in Welcome)
    BY <1>2 DEF WithoutSession, Welcome, Refusal
  <2>3. pass = "agent" => v.route \in EndpointCatalog
    <3>1. AgentStatus(v, grant) = 200 => v.route \in EndpointCatalog
      BY DEF AgentStatus
    <3> QED BY <3>1, <1>2 DEF WithoutSession
  <2>4. LetIn(r, pass, u)
    BY <1>1, <2>1, <2>2, <2>3 DEF LetIn, v
  <2> QED BY <1>5, <2>4, HandleInv
<1> QED BY <1>2, <1>3, <1>4, <1>5

-----------------------------------------------------------------------------
(* The theorems.                                                           *)

LEMMA NextInv == IInv /\ [Next]_vars => IInv'
<1> SUFFICES ASSUME IInv, [Next]_vars PROVE IInv'
  OBVIOUS
<1>1. CASE \E ask \in Asks : Send(ask)
  BY <1>1, SendInv
<1>2. ASSUME NEW r \in Requests, Serve(r) PROVE IInv'
  BY <1>2, LoginStartInv, CallbackRefuseInv, CallbackBeginInv, ExchangeRefusedInv,
     ExchangeDoneInv, LogoutInv, VisitInv, VisitExpiredInv, VisitWithoutSessionInv DEF Serve
<1>3. ASSUME NEW r \in Requests, Receive(r) PROVE IInv'
  BY <1>3, ReceiveInv
<1>4. CASE Restart
  BY <1>4, RestartInv
<1>5. CASE UNCHANGED vars
  <2>1. /\ mode' = mode /\ instance' = instance /\ cookie' = cookie /\ sent' = sent
        /\ req' = req /\ counts' = counts /\ answers' = answers /\ recent' = recent
        /\ events' = events
    BY <1>5 DEF vars
  <2>2. /\ Welcome' = Welcome /\ Named' = Named /\ Earned' = Earned
        /\ \A r : InFlight(r)' <=> InFlight(r)
    BY <2>1 DEF Welcome, Named, Earned, InFlight
  <2>3. TypeOK' /\ Unanswered'
    BY <2>1, <2>2 DEF IInv, TypeOK, Unanswered
  <2>4. Sessions'
    BY <2>1, <2>2 DEF IInv, Sessions, Conferred
  <2>5. Logins' /\ LandsWhereAsked'
    BY <2>1 DEF IInv, Logins, Coherent, LandsWhereAsked
  <2>6. Alone' /\ Settled' /\ SignedOutStaysOut'
    BY <2>1, <2>2 DEF IInv, Alone, Settled, SignedOutStaysOut
  <2>7. Counted' /\ Events' /\ RollupsBalance'
    BY <2>1, <2>2 DEF IInv, Counted, Events, RollupsBalance
  <2> QED BY <2>3, <2>4, <2>5, <2>6, <2>7 DEF IInv
<1> QED BY <1>1, <1>2, <1>3, <1>4, <1>5 DEF Next

LEMMA Invariance == Spec => []IInv
<1>1. Init => IInv
  BY Initially
<1>2. IInv /\ [Next]_vars => IInv'
  BY NextInv
<1> QED BY <1>1, <1>2, PTL DEF Spec

\* Every variable keeps its type, however requests, answers and restarts
\* interleave; only what has been sent has left the browser, and no more
\* authentication events are recorded than requests are answered.
THEOREM TypeCorrect == Spec => []TypeOK
BY Invariance, PTL DEF IInv

\* The principals of cookies and requests on their way are those that
\* oauth_callback and lsmc_oauth_callback stored, for users of the allowed
\* domains with the roles of their claims, and the gate lets in by session
\* only in the process that stored the principal.
THEOREM SessionsAreEarned == Spec => []SessionIsEarned
<1>1. IInv => SessionIsEarned
  <2> SUFFICES ASSUME IInv PROVE SessionIsEarned
    OBVIOUS
  <2>1. \A i \in DOMAIN recent : recent[i] \in Named
    BY DEF IInv, Events
  <2>2. RecentUsers(recent) \subseteq Welcome
    BY <2>1, Zenon DEF RecentUsers, Named
  <2> QED BY <2>2 DEF IInv, Sessions, SessionIsEarned, Conferred, Welcome
<1> QED BY <1>1, Invariance, PTL

\* A callback that completes redirects to the path of the login that made
\* its state, whatever else the browser has sent meanwhile.
THEOREM LoginsLand == Spec => []LandsWhereAsked
BY Invariance, PTL DEF IInv

\* A logout that no other request overlapped leaves no principal behind until
\* the next callback.
THEOREM SignOutHolds == Spec => []SignedOutStaysOut
BY Invariance, PTL DEF IInv

\* ObservabilityStore counts every answer of this process once in each of
\* its tables, and keeps the newest authentication events up to its limit.
THEOREM RollupsAgree == Spec => []RollupsBalance
BY Invariance, PTL DEF IInv

=============================================================================
