---------------------------- MODULE RuntimeProofs ----------------------------
(***************************************************************************)
(* Proofs about the parts that MCRuntime puts side by side: the simulated  *)
(* printers, for any ports; the status cache, for any printers, conditions *)
(* and time to live; the preview, for any labels, numbers and data that    *)
(* cannot be encoded; and of their composition.  Those about Deployment    *)
(* are in DeploymentProofs.                                                *)
(***************************************************************************)
EXTENDS MCRuntime, DeploymentProofs, FiniteSetTheorems, TLAPS

-----------------------------------------------------------------------------
(* SimulatorFleet: the state is well typed and every port that a simulator *)
(* is bound to is accounted for.  Both together are inductive.             *)

FleetIInv == FleetTypeOK /\ PortsAccounted

-----------------------------------------------------------------------------

\* Where each port stands, point by point, rather than as equations of sets.
Accounted ==
  /\ \A p \in Ports : bound[p] = "simulator" <=>
       \/ p \in running \/ \E z \in running : p = http[z]
       \/ p \in Begun \/ p \in stray
  /\ \A p \in Begun \cup stray : p \notin running /\ \A z \in running : p # http[z]
  /\ \A p \in Begun : p \notin stray
  /\ \A y, z \in running : http[z] # y /\ (y # z => http[y] # http[z])

LEMMA AccountedIs == FleetTypeOK => (PortsAccounted <=> Accounted)
<1> SUFFICES ASSUME FleetTypeOK PROVE PortsAccounted <=> Accounted
  OBVIOUS
<1>1. running \subseteq Ports /\ stray \subseteq Ports /\ \A z \in running : http[z] \in Ports
  BY DEF FleetTypeOK, Ports
<1>2. Begun \subseteq Ports
  BY DEF FleetTypeOK, Begun, Ports
<1> QED BY <1>1, <1>2 DEF PortsAccounted, Servers, Accounted

LEMMA AccountedIsNext == FleetTypeOK' => (PortsAccounted' <=> Accounted')
BY AccountedIs, PTL

LEMMA FleetInitially == FleetInit => FleetIInv
BY DEF FleetInit, FleetIInv, FleetTypeOK, PortsAccounted, Servers, Begun, Ports

\* Stopping frees the ports of the printers that run, and no others'.
LEMMA StopInv ==
  ASSUME FleetIInv, NEW zs \in SUBSET ZplPorts, Stop(zs), starting = <<>>,
         known' \subseteq ZplPorts, running' \subseteq known'
  PROVE  FleetIInv'
<1> USE DEF FleetIInv
<1>1. FleetTypeOK'
  BY DEF FleetTypeOK, Stop, Bind, Servers, Ports
<1>2. /\ \A p \in Ports : bound'[p] = IF p \in Servers(zs \cap running) THEN "nobody" ELSE bound[p]
      /\ running' = running \ zs /\ http' = http /\ starting' = starting /\ stray' = stray
  BY DEF Stop, Bind
<1>3. Begun' = {} /\ Begun = {}
  BY <1>2 DEF Begun
<1>4. \A p \in Ports : p \in Servers(zs \cap running) <=>
         \/ p \in zs \cap running \/ \E z \in zs \cap running : p = http[z]
  BY DEF Servers
<1>5. Accounted /\ running \subseteq Ports /\ \A z \in running : http[z] \in Ports
  BY AccountedIs DEF FleetTypeOK, Ports
<1>6. \A p \in Ports : bound'[p] = "simulator" <=>
        \/ p \in running' \/ \E z \in running' : p = http'[z]
        \/ p \in Begun' \/ p \in stray'
  <2> SUFFICES ASSUME NEW p \in Ports
               PROVE  bound'[p] = "simulator" <=>
                        p \in running' \/ (\E z \in running' : p = http[z]) \/ p \in stray
    BY <1>2, <1>3
  <2>1. bound[p] = "simulator" <=>
          \/ p \in running \/ (\E z \in running : p = http[z]) \/ p \in stray
    BY <1>3, <1>5 DEF Accounted
  <2>2. CASE p \in Servers(zs \cap running)
    <3>1. PICK y \in zs \cap running : p = y \/ p = http[y]
      BY <1>4, <2>2
    <3>2. y \in running /\ y \notin running' /\ y \in zs /\ bound'[p] = "nobody"
      BY <1>2, <2>2, <3>1
    <3>3. p \notin stray
      BY <1>5, <3>1, <3>2 DEF Accounted
    <3>4. ASSUME NEW z \in running' PROVE p # z /\ p # http[z]
      <4>1. z \in running /\ z # y
        BY <1>2, <3>2, <3>4
      <4> QED BY <1>5, <3>1, <3>2, <4>1 DEF Accounted
    <3> QED BY <3>2, <3>3, <3>4
  <2>3. CASE p \notin Servers(zs \cap running)
    <3>1. bound'[p] = bound[p] /\ p \notin zs \cap running
          /\ \A z \in zs \cap running : p # http[z]
      BY <1>2, <1>4, <2>3
    <3> QED BY <1>2, <2>1, <3>1
  <2> QED BY <2>2, <2>3
<1>7. Accounted'
  BY <1>2, <1>3, <1>5, <1>6 DEF Accounted
<1> QED BY <1>1, <1>7, AccountedIsNext

LEMMA StartInv ==
  ASSUME FleetIInv, NEW z \in ZplPorts, NEW h \in HttpPorts, StartZpl(z, h)
  PROVE  FleetIInv'
<1> USE DEF FleetIInv
<1>1. FleetTypeOK'
  BY DEF FleetTypeOK, StartZpl, Bind, Ports
<1>2. /\ \A p \in Ports : bound'[p] = IF p = z THEN "simulator" ELSE bound[p]
      /\ bound[z] = "nobody" /\ UNCHANGED <<running, http, stray>> /\ z \in Ports
  BY DEF StartZpl, Bind, Ports
<1>3. Begun' = {z} /\ Begun = {}
  BY DEF Begun, StartZpl
<1>4. \A y \in running : http[y] \in Ports
  BY DEF FleetTypeOK
<1> QED BY <1>1, <1>2, <1>3, <1>4, AccountedIs, AccountedIsNext DEF Accounted, FleetTypeOK, Ports

LEMMA StartedInv ==
  ASSUME FleetIInv, StartHttp
  PROVE  FleetIInv'
<1> USE DEF FleetIInv
<1>1. PICK z \in ZplPorts, h \in HttpPorts : starting = <<z, h>>
  BY DEF FleetTypeOK, StartHttp
<1>2. starting' = <<>> /\ Begun = {z} /\ Begun' = {} /\ z \in Ports /\ h \in Ports
  BY <1>1 DEF StartHttp, Begun, Ports
<1>3. bound[z] = "simulator" /\ z \notin running
  BY <1>2, AccountedIs, AccountedIsNext DEF Accounted
<1>4. \A y \in running : http[y] \in Ports /\ y \in Ports
  BY DEF FleetTypeOK, Ports
<1>5. CASE bound[h] = "nobody"
  <2>1. /\ \A p \in Ports : bound'[p] = IF p = h THEN "simulator" ELSE bound[p]
        /\ http' = [http EXCEPT ![z] = h] /\ running' = running \cup {z} /\ stray' = stray
        /\ known' = known \cup {z} /\ bound' \in [Ports -> {"nobody", "simulator", "other"}]
    BY <1>1, <1>5 DEF StartHttp, Bind, FleetTypeOK
  <2>2. FleetTypeOK'
    BY <1>2, <2>1 DEF FleetTypeOK
  <2>3. h # z /\ http'[z] = h /\ \A y \in running : http'[y] = http[y] /\ y # h /\ http[y] # h
    BY <1>3, <1>4, <1>5, <2>1, AccountedIs, AccountedIsNext DEF Accounted, FleetTypeOK
  <2> QED BY <1>2, <1>3, <1>4, <1>5, <2>1, <2>2, <2>3, AccountedIs, AccountedIsNext DEF Accounted
<1>6. CASE bound[h] # "nobody"
  <2>1. stray' = stray \cup {z} /\ UNCHANGED <<bound, known, running, http>>
    BY <1>1, <1>6 DEF StartHttp
  <2>2. FleetTypeOK'
    BY <1>2, <2>1 DEF FleetTypeOK
  <2> QED BY <1>2, <1>3, <2>1, <2>2, AccountedIs, AccountedIsNext DEF Accounted
<1> QED BY <1>5, <1>6

LEMMA OtherInv ==
  ASSUME FleetIInv, NEW p \in Ports, OtherProgram(p)
  PROVE  FleetIInv'
<1> USE DEF FleetIInv
<1>1. FleetTypeOK'
  BY DEF FleetTypeOK, OtherProgram, Bind
<1>2. /\ \A q \in Ports : bound'[q] = "simulator" <=> bound[q] = "simulator"
      /\ UNCHANGED <<known, running, http, starting, stray>>
  BY DEF FleetTypeOK, OtherProgram, Bind
<1>3. Begun' = Begun
  BY <1>2 DEF Begun
<1> QED BY <1>1, <1>2, <1>3, AccountedIs, AccountedIsNext DEF Accounted

LEMMA FleetInductive == FleetIInv /\ [FleetNext]_fleetVars => FleetIInv'
<1> SUFFICES ASSUME FleetIInv, [FleetNext]_fleetVars PROVE FleetIInv'
  OBVIOUS
<1>1. ASSUME NEW z \in ZplPorts, NEW h \in HttpPorts, StartZpl(z, h) PROVE FleetIInv'
  BY <1>1, StartInv
<1>2. ASSUME NEW z \in ZplPorts, StopPrinter(z) PROVE FleetIInv'
  <2>1. {z} \in SUBSET ZplPorts /\ Stop({z}) /\ starting = <<>>
    BY <1>2 DEF StopPrinter
  <2>2. known' \subseteq ZplPorts /\ running' \subseteq known'
    BY <1>2 DEF StopPrinter, Stop, FleetIInv, FleetTypeOK
  <2> QED BY <2>1, <2>2, StopInv
<1>3. ASSUME NEW z \in ZplPorts, StopItself(z) PROVE FleetIInv'
  <2>1. {z} \in SUBSET ZplPorts /\ Stop({z}) /\ starting = <<>>
    BY <1>3 DEF StopItself
  <2>2. known' \subseteq ZplPorts /\ running' \subseteq known'
    BY <1>3 DEF StopItself, Stop, FleetIInv, FleetTypeOK
  <2> QED BY <2>1, <2>2, StopInv
<1>4. CASE StartHttp
  BY <1>4, StartedInv
<1>5. CASE StopAll
  <2>1. known \in SUBSET ZplPorts /\ Stop(known) /\ starting = <<>>
    BY <1>5 DEF StopAll, FleetIInv, FleetTypeOK
  <2>2. known' \subseteq ZplPorts /\ running' \subseteq known'
    BY <1>5 DEF StopAll, Stop, FleetIInv, FleetTypeOK
  <2> QED BY <2>1, <2>2, StopInv
<1>6. CASE Exit
  BY <1>6 DEF Exit, FleetIInv, FleetTypeOK, PortsAccounted, Servers, Begun
<1>7. ASSUME NEW p \in Ports, OtherProgram(p) PROVE FleetIInv'
  BY <1>7, OtherInv
<1>8. CASE UNCHANGED fleetVars
  BY <1>8 DEF fleetVars, FleetIInv, FleetTypeOK, PortsAccounted, Servers, Begun
<1> QED BY <1>1, <1>2, <1>3, <1>4, <1>5, <1>6, <1>7, <1>8 DEF FleetNext

LEMMA FleetInvariant == FleetSpec => []FleetIInv
BY FleetInitially, FleetInductive, PTL DEF FleetSpec

\* The state of the manager, its printers and the ports is well typed.
THEOREM FleetTypeCorrect == FleetSpec => []FleetTypeOK
<1>1. FleetIInv => FleetTypeOK
  BY DEF FleetIInv
<1> QED BY <1>1, FleetInvariant, PTL

\* Whatever starts fail and whatever other programs do: a port that a
\* simulator is bound to belongs to exactly one printer that runs, to the
\* start in progress, or to a start that has raised.
THEOREM EveryPortAccounted == FleetSpec => []PortsAccounted
<1>1. FleetIInv => PortsAccounted
  BY DEF FleetIInv
<1> QED BY <1>1, FleetInvariant, PTL

-----------------------------------------------------------------------------
(* StatusCache implements FreshStatus, which has no cache.  The invariant  *)
(* dates what is known: a query in progress knows conditions from since    *)
(* its call began, an entry of the cache from since its stamp.             *)

\* Every field of status s is blank or was a condition of printer p since t.
Dated(s, p, t) ==
  \A f \in Fields : s[f] = "" \/ \E u \in Times : t <= u /\ s[f] \in past[p][u]

StatusIInv ==
  /\ StatusTypeOK
  /\ \A p \in Printers : condition[p] \in past[p][clock]
  /\ asking \in Printers => Dated(status, asking, now)
  /\ asking = NoPrinter => now = 0 /\ step = 0 /\ status = NoStatus
  /\ \A p \in Printers : Dated(stored[p], p, stamp[p])

-----------------------------------------------------------------------------

LEMMA FiveQueries == Len(Queries) = 5 /\ 0..Len(Queries) = 0..5
BY DEF Queries

LEMMA Blank == NoStatus \in Statuses /\ \A f \in Fields : NoStatus[f] = ""
BY DEF NoStatus, Statuses

LEMMA StatusInitially == StatusInit => StatusIInv
<1> SUFFICES ASSUME NEW conditions \in [Printers -> Conditions], Found(conditions)
             PROVE  StatusIInv
  BY DEF StatusInit
<1>1. clock = 0 /\ clock \in Times
  BY StatusAssumption DEF Found, Times
<1>2. StatusTypeOK
  <2>1. past \in [Printers -> [Times -> SUBSET Conditions]]
    BY DEF Found
  <2>2. 0 \in 0..clock /\ 0 \in 0..MaxTurns /\ 0 \in 0..Len(Queries)
    BY <1>1, StatusAssumption, FiveQueries
  <2> QED BY <1>1, <2>1, <2>2, Blank DEF StatusTypeOK, Found
<1>3. \A p \in Printers : condition[p] \in past[p][clock]
  BY <1>1 DEF Found
<1>4. \A p \in Printers : Dated(stored[p], p, stamp[p])
  BY Blank DEF Found, Dated
<1> QED BY <1>2, <1>3, <1>4, StatusAssumption DEF StatusIInv, Found

\* The past only grows: what was dated stays so.
LEMMA Grown ==
  ASSUME StatusIInv, NEW t \in Times, NEW to \in [Printers -> Conditions], Witnessed(t, to)
  PROVE  /\ past' \in [Printers -> [Times -> SUBSET Conditions]]
         /\ \A p \in Printers : to[p] \in past'[p][t]
         /\ \A p \in Printers, u \in Times : past[p][u] \subseteq past'[p][u]
BY DEF StatusIInv, StatusTypeOK, Witnessed

LEMMA WorldInv ==
  ASSUME StatusIInv, Tick \/ \E p \in Printers, c \in Conditions : Turn(p, c)
  PROVE  StatusIInv'
<1>1. PICK t \in Times, to \in [Printers -> Conditions] :
        /\ Witnessed(t, to) /\ t = clock' /\ to = condition' /\ clock <= clock'
        /\ turns' \in 0..MaxTurns /\ UNCHANGED <<call, cache, answer>>
  <2>1. CASE Tick
    <3>1. clock + 1 \in Times /\ clock' = clock + 1 /\ condition' = condition
      BY <2>1, StatusAssumption DEF Tick, StatusIInv, StatusTypeOK, Times
    <3> QED BY <2>1, <3>1 DEF Tick, StatusIInv, StatusTypeOK, Times
  <2>2. ASSUME NEW p \in Printers, NEW c \in Conditions, Turn(p, c)
        PROVE  \E t \in Times, to \in [Printers -> Conditions] :
                 /\ Witnessed(t, to) /\ t = clock' /\ to = condition' /\ clock <= clock'
                 /\ turns' \in 0..MaxTurns /\ UNCHANGED <<call, cache, answer>>
    <3>1. condition' \in [Printers -> Conditions] /\ clock' = clock /\ clock \in Times
          /\ turns' \in 0..MaxTurns /\ clock <= clock'
      BY <2>2, StatusAssumption DEF Turn, StatusIInv, StatusTypeOK, Times
    <3>2. Witnessed(clock, condition') /\ UNCHANGED <<call, cache, answer>>
      BY <2>2 DEF Turn
    <3> QED BY <3>1, <3>2
  <2> QED BY <2>1, <2>2
<1>2. UNCHANGED <<asking, forced, now, step, status, cached, stored, stamp, answer>>
  BY <1>1 DEF call, cache
<1>3. StatusTypeOK'
  BY <1>1, <1>2, Grown DEF StatusIInv, StatusTypeOK, Times
<1>4. \A s, p, u : p \in Printers /\ Dated(s, p, u) => Dated(s, p, u)'
  BY <1>1, Grown DEF Dated
<1> QED BY <1>1, <1>2, <1>3, <1>4, Grown DEF StatusIInv

LEMMA AskInv ==
  ASSUME StatusIInv, NEW q \in Printers, NEW force \in BOOLEAN, Ask(q, force)
  PROVE  StatusIInv'
<1>1. /\ asking' = q /\ now' = clock /\ answer' = NoStatus /\ forced' = force
      /\ UNCHANGED <<clock, condition, turns, past, step, status, cached, stored, stamp>>
  BY DEF Ask, printers, cache
<1>2. StatusTypeOK'
  <2>1. clock' = clock /\ now' \in 0..clock
    BY <1>1, StatusAssumption DEF StatusIInv, StatusTypeOK, Times
  <2>2. step' \in 0..Len(Queries) /\ answer' \in Statuses
    BY <1>1, Blank DEF StatusIInv, StatusTypeOK
  <2> QED BY <1>1, <2>1, <2>2 DEF StatusIInv, StatusTypeOK
<1>3. status = NoStatus /\ q # NoPrinter
  BY StatusAssumption DEF StatusIInv, Ask
<1>4. Dated(status, q, now)'
  BY <1>1, <1>3, Blank DEF Dated
<1> QED BY <1>1, <1>2, <1>3, <1>4 DEF StatusIInv, Dated

LEMMA ReturnInv ==
  ASSUME StatusIInv, NEW s \in Statuses, Returns(s), UNCHANGED printers,
         cached' \subseteq Printers, stored' \in [Printers -> Statuses],
         stamp' \in [Printers -> 0..clock],
         \A p \in Printers : Dated(stored[p], p, stamp[p])'
  PROVE  StatusIInv'
<1>1. /\ asking' = NoPrinter /\ forced' = FALSE /\ now' = 0 /\ step' = 0 /\ status' = NoStatus
      /\ answer' = s /\ UNCHANGED <<clock, condition, turns, past>>
  BY DEF Returns, printers
<1>2. StatusTypeOK'
  <2>1. clock' = clock /\ 0 \in 0..clock
    BY <1>1, StatusAssumption DEF StatusIInv, StatusTypeOK, Times
  <2>2. 0 \in 0..Len(Queries)
    BY FiveQueries
  <2> QED BY <1>1, <2>1, <2>2, Blank DEF StatusIInv, StatusTypeOK
<1> QED BY <1>1, <1>2, StatusAssumption DEF StatusIInv

LEMMA HitInv ==
  ASSUME StatusIInv, Hit
  PROVE  StatusIInv'
<1>1. asking \in Printers /\ UNCHANGED <<cached, stored, stamp>> /\ UNCHANGED printers
      /\ Returns(stored[asking]) /\ stored[asking] \in Statuses
  BY DEF Hit, cache, StatusIInv, StatusTypeOK
<1>2. \A p \in Printers : Dated(stored[p], p, stamp[p])'
  BY <1>1 DEF StatusIInv, Dated, printers
<1> QED BY <1>1, <1>2, ReturnInv DEF StatusIInv, StatusTypeOK

LEMMA StoreInv ==
  ASSUME StatusIInv, Store
  PROVE  StatusIInv'
<1>1. /\ asking \in Printers /\ cached' = cached \cup {asking} /\ Returns(status)
      /\ stored' = [stored EXCEPT ![asking] = status] /\ stamp' = [stamp EXCEPT ![asking] = now]
      /\ UNCHANGED printers /\ UNCHANGED past /\ status \in Statuses
  BY DEF Store, printers, StatusIInv, StatusTypeOK
<1>2. /\ cached' \subseteq Printers /\ stored' \in [Printers -> Statuses]
      /\ stamp' \in [Printers -> 0..clock]
  BY <1>1 DEF StatusIInv, StatusTypeOK
<1>3. ASSUME NEW p \in Printers PROVE Dated(stored[p], p, stamp[p])'
  <2>1. CASE p = asking
    <3>1. stored'[p] = status /\ stamp'[p] = now /\ Dated(status, p, now)
      BY <1>1, <2>1 DEF StatusIInv, StatusTypeOK
    <3> QED BY <1>1, <3>1 DEF Dated
  <2>2. CASE p # asking
    <3>1. stored'[p] = stored[p] /\ stamp'[p] = stamp[p] /\ Dated(stored[p], p, stamp[p])
      BY <1>1, <2>2 DEF StatusIInv, StatusTypeOK
    <3> QED BY <1>1, <3>1 DEF Dated
  <2> QED BY <2>1, <2>2
<1> QED BY <1>1, <1>2, <1>3, ReturnInv

LEMMA QueryInv ==
  ASSUME StatusIInv, Query
  PROVE  StatusIInv'
<1>1. /\ asking \in Printers /\ step' = step + 1
      /\ UNCHANGED <<clock, condition, turns, past, asking, forced, now, cached, stored, stamp,
                     answer>>
  BY DEF Query, StatusIInv, StatusTypeOK, printers, cache
<1>2. step' \in 1..5
  <2>1. step \in 0..5 /\ step < 5
    BY FiveQueries DEF Query, StatusIInv, StatusTypeOK
  <2> QED BY <1>1, <2>1
<1>3. clock \in Times /\ now <= clock
  BY StatusAssumption DEF StatusIInv, StatusTypeOK, Times
<1>4. /\ status' \in Statuses
      /\ \A f \in Fields : status'[f] \in {status[f], condition[asking], ""}
  <2>1. PICK reply \in {condition[asking], ""} :
          status' = [status EXCEPT ![Queries[step + 1]] = reply]
    BY DEF Query
  <2>2. condition[asking] \in Conditions /\ status \in [Fields -> Conditions \cup {""}]
    BY <1>1 DEF StatusIInv, StatusTypeOK, Statuses
  <2> QED BY <2>1, <2>2 DEF Statuses
<1>5. StatusTypeOK'
  <2>1. step' \in 0..Len(Queries)
    BY <1>2, FiveQueries
  <2> QED BY <1>1, <1>4, <2>1 DEF StatusIInv, StatusTypeOK
<1>6. Dated(status, asking, now)'
  <2>1. condition[asking] \in past[asking][clock]
    BY <1>1 DEF StatusIInv
  <2> QED BY <1>1, <1>3, <1>4, <2>1 DEF StatusIInv, Dated
<1> QED BY <1>1, <1>5, <1>6, StatusAssumption DEF StatusIInv, Dated

LEMMA ClearInv ==
  ASSUME StatusIInv, NEW ps \in SUBSET Printers, Clear(ps)
  PROVE  StatusIInv'
<1>1. /\ asking = NoPrinter /\ cached' = cached \ ps
      /\ UNCHANGED <<clock, condition, turns, past, asking, forced, now, step, status, answer>>
      /\ stored' = [p \in Printers |-> IF p \in ps THEN NoStatus ELSE stored[p]]
      /\ stamp' = [p \in Printers |-> IF p \in ps THEN 0 ELSE stamp[p]]
  BY DEF Clear, printers, call
<1>2. 0 \in 0..clock
  BY StatusAssumption DEF StatusIInv, StatusTypeOK, Times
<1>3. StatusTypeOK'
  <2>1. stored' \in [Printers -> Statuses] /\ stamp' \in [Printers -> 0..clock]
    BY <1>1, <1>2, Blank DEF StatusIInv, StatusTypeOK
  <2> QED BY <1>1, <2>1 DEF StatusIInv, StatusTypeOK
<1>4. ASSUME NEW p \in Printers PROVE Dated(stored[p], p, stamp[p])'
  <2>1. CASE p \in ps
    BY <1>1, <2>1, Blank DEF Dated
  <2>2. CASE p \notin ps
    BY <1>1, <2>2 DEF StatusIInv, Dated
  <2> QED BY <2>1, <2>2
<1> QED BY <1>1, <1>3, <1>4, StatusAssumption DEF StatusIInv, Dated

LEMMA StatusInductive == StatusIInv /\ [StatusNext]_statusVars => StatusIInv'
<1> SUFFICES ASSUME StatusIInv, [StatusNext]_statusVars PROVE StatusIInv'
  OBVIOUS
<1>1. CASE Tick \/ \E p \in Printers, c \in Conditions : Turn(p, c)
  BY <1>1, WorldInv
<1>2. ASSUME NEW p \in Printers, NEW force \in BOOLEAN, Ask(p, force) PROVE StatusIInv'
  BY <1>2, AskInv
<1>3. CASE Hit
  BY <1>3, HitInv
<1>4. CASE Query
  BY <1>4, QueryInv
<1>5. CASE Store
  BY <1>5, StoreInv
<1>6. ASSUME NEW ps \in SUBSET Printers, Clear(ps) PROVE StatusIInv'
  BY <1>6, ClearInv
<1>7. CASE UNCHANGED statusVars
  BY <1>7 DEF statusVars, StatusIInv, StatusTypeOK, Dated
<1>8. Printers \in SUBSET Printers /\ \A p \in Printers : {p} \in SUBSET Printers
  OBVIOUS
<1> QED BY <1>1, <1>2, <1>3, <1>4, <1>5, <1>6, <1>7, <1>8 DEF StatusNext

LEMMA StatusInvariant == StatusCacheSpec => []StatusIInv
BY StatusInitially, StatusInductive, PTL DEF StatusCacheSpec

-----------------------------------------------------------------------------

LEMMA FirstMaps == StatusInit => Promised!Init
<1> SUFFICES ASSUME NEW conditions \in [Printers -> Conditions], Found(conditions)
             PROVE  Promised!Init
  BY DEF StatusInit
<1>1. StatusIInv
  BY StatusInitially DEF StatusInit
<1> QED BY <1>1 DEF Promised!Init, Promised!NoStatus, Promised!Times, Found, NoStatus,
                    StatusIInv, StatusTypeOK, Times

\* An answer that is dated from no earlier than Ttl before the call is one
\* that FreshStatus may give.
LEMMA AnswerMaps ==
  ASSUME StatusIInv, NEW s \in Statuses, asking \in Printers, Returns(s), UNCHANGED printers,
         NEW t \in 0..clock, Dated(s, asking, t), now < Ttl \/ now - Ttl + 1 <= t
  PROVE  Promised!Answer
<1>1. /\ asking # NoPrinter /\ asking' = NoPrinter /\ now' = 0 /\ answer' = s
      /\ UNCHANGED <<clock, past>>
  BY StatusAssumption DEF Returns, printers
<1>2. Promised!Oldest <= t /\ \A u \in Times : t <= u => Promised!Oldest <= u
  BY StatusAssumption DEF Promised!Oldest, StatusIInv, StatusTypeOK, Times
<1>3. ASSUME NEW f \in Fields PROVE s[f] \in {""} \cup Promised!Since(asking, Promised!Oldest)
  BY <1>2, <1>3 DEF Dated, Promised!Since, Promised!Times, Times
<1>4. s \in [Fields -> {""} \cup Promised!Since(asking, Promised!Oldest)]
  BY <1>3 DEF Statuses
<1> QED BY <1>1, <1>4 DEF Promised!Answer

LEMMA StepMaps == StatusIInv /\ [StatusNext]_statusVars => [Promised!Next]_Promised!vars
<1> SUFFICES ASSUME StatusIInv, [StatusNext]_statusVars PROVE [Promised!Next]_Promised!vars
  OBVIOUS
<1>1. CASE Tick
  <2>1. Promised!World
    BY <1>1 DEF Promised!World, Tick, Witnessed, call, StatusIInv, StatusTypeOK
  <2> QED BY <2>1 DEF Promised!Next
<1>2. ASSUME NEW p \in Printers, NEW c \in Conditions, Turn(p, c) PROVE Promised!World
  <2>1. condition' \in [Printers -> Conditions] /\ clock' = clock
    BY <1>2 DEF Turn, StatusIInv, StatusTypeOK
  <2> QED BY <1>2, <2>1 DEF Promised!World, Turn, Witnessed, call
<1>3. ASSUME NEW p \in Printers, NEW force \in BOOLEAN, Ask(p, force) PROVE Promised!Ask(p)
  BY <1>3 DEF Promised!Ask, Promised!NoStatus, NoStatus, Ask, printers
<1>4. CASE Hit
  <2>1. asking \in Printers /\ stored[asking] \in Statuses /\ stamp[asking] \in 0..clock
        /\ Dated(stored[asking], asking, stamp[asking])
    BY <1>4 DEF Hit, StatusIInv, StatusTypeOK
  <2>2. now < Ttl \/ now - Ttl + 1 <= stamp[asking]
    BY <1>4, <2>1, StatusAssumption DEF Hit, Fresh, StatusIInv, StatusTypeOK, Times
  <2> QED BY <1>4, <2>1, <2>2, AnswerMaps DEF Hit, Promised!Next
<1>5. CASE Store
  <2>1. asking \in Printers /\ status \in Statuses /\ now \in 0..clock
        /\ Dated(status, asking, now)
    BY <1>5 DEF Store, StatusIInv, StatusTypeOK
  <2>2. now - Ttl + 1 <= now
    BY <2>1, StatusAssumption DEF StatusIInv, StatusTypeOK, Times
  <2> QED BY <1>5, <2>1, <2>2, AnswerMaps DEF Store, Promised!Next
<1>6. CASE Query \/ (\E p \in Printers : Clear({p})) \/ Clear(Printers)
  BY <1>6 DEF Query, Clear, printers, call, Promised!vars
<1>7. CASE UNCHANGED statusVars
  BY <1>7 DEF statusVars, Promised!vars
<1> QED BY <1>1, <1>2, <1>3, <1>4, <1>5, <1>6, <1>7 DEF StatusNext, Promised!Next

\* The state of the printers, the call and the cache is well typed.
THEOREM StatusTypeCorrect == StatusCacheSpec => []StatusTypeOK
<1>1. StatusIInv => StatusTypeOK
  BY DEF StatusIInv
<1> QED BY <1>1, StatusInvariant, PTL

\* However slow the printers are, whatever they do between the queries of a
\* call and whenever the cache is cleared: get_cached_status answers as if it
\* kept nothing but looked at no time before Ttl ahead of the call.
THEOREM ImplementsFreshStatus == StatusCacheSpec => StatusSpec
BY FirstMaps, StepMaps, StatusInvariant, PTL DEF StatusCacheSpec, StatusSpec, Promised!Spec

-----------------------------------------------------------------------------
(* ZplPreview.  At the command next, the settings are those of the last    *)
(* commands before it, the barcode is the last that no field has used, and *)
(* the picture has an item of each field that shows something.             *)

\* The barcode that the next field is to be.
Coded(n, type, tall) ==
  /\ Unused(n) = {} <=> type = ""
  /\ Unused(n) # {} =>
       /\ type = label[Latest(Unused(n))].op
       /\ tall = BarcodeHeight(label[Latest(Unused(n))].args)

Current(n, left, tall, wide) ==
  left = Setting(n, ORIGINS, 0) /\ tall = Setting(n, FONTS, 30)
    /\ wide = AtLeastOne(Setting(n, WIDTHS, 2))

\* What the next fields may be drawn with, and what is drawn.
Proper(type, left, tall, wide, high) ==
  type \in BARCODE_TYPES \cup {""} /\ {left, tall, wide, high} \subseteq Nat /\ wide # 0

Kinds == BARCODE_TYPES \cup {"text"}

Shows(n) == \A item : Shown(n) = <<item>> => item.type \in Kinds

Listed(s) == s = [i \in 1..Len(s) |-> s[i]]

PreviewIInv ==
  /\ PreviewTypeOK /\ label \in Labels /\ Listed(drawn)
  /\ Current(next, x, font, width) /\ Coded(next, barcode, height)
  /\ Showing(next - 1) /\ \A k \in 1..(next - 1) : ~Unreadable(k)
  /\ outcome = "saved" => next = Len(label) + 1
  /\ outcome = "failed" => Unreadable(next)

\* Each command is of one kind.
LEMMA KindsApart ==
  \A op : /\ op \in ORIGINS => op \notin FONTS \cup WIDTHS \cup BARCODE_TYPES \cup FIELDS
          /\ op \in FONTS => op \notin ORIGINS \cup WIDTHS \cup BARCODE_TYPES \cup FIELDS
          /\ op \in WIDTHS => op \notin ORIGINS \cup FONTS \cup BARCODE_TYPES \cup FIELDS
          /\ op \in BARCODE_TYPES => op \notin ORIGINS \cup FONTS \cup WIDTHS \cup FIELDS
          /\ op \in FIELDS => op \notin ORIGINS \cup FONTS \cup WIDTHS \cup BARCODE_TYPES
          /\ op \in {"XA", "XZ", "FS", "", "GB"} =>
               op \notin ORIGINS \cup FONTS \cup WIDTHS \cup BARCODE_TYPES \cup FIELDS
          /\ op \in BARCODE_TYPES => op # ""
BY DEF ORIGINS, FONTS, WIDTHS, BARCODE_TYPES, FIELDS

LEMMA NumberTyped ==
  ASSUME NEW args, NEW default \in Nat
  PROVE  /\ ~Raises(args) => Number(args, default) \in Nat
         /\ BarcodeHeight(args) \in Nat
<1>1. ASSUME NEW d \in Nat, ~Raises(args) PROVE Number(args, d) \in Nat
  BY <1>1, PreviewAssumption DEF Number, Raises
<1>2. BarcodeHeight(args) \in Nat
  <2>1. ~Raises(args) => Number(args, 40) \in Nat
    BY <1>1
  <2> QED BY <2>1 DEF BarcodeHeight
<1> QED BY <1>1, <1>2

LEMMA LatestIs ==
  ASSUME NEW n \in Nat, NEW S \in SUBSET (1..(n - 1))
  PROVE  Latest(S \cup {n}) = n
<1>1. n \in S \cup {n} /\ \A j \in S \cup {n} : j <= n
  OBVIOUS
<1>2. \A i \in S \cup {n} : (\A j \in S \cup {n} : j <= i) => i = n
  BY <1>1
<1> QED BY <1>1, <1>2 DEF Latest

LEMMA BeforeNext ==
  ASSUME NEW n \in Nat \ {0}, NEW ops
  PROVE  /\ Before(n + 1, ops) =
              IF label[n].op \in ops THEN Before(n, ops) \cup {n} ELSE Before(n, ops)
         /\ Before(n, ops) \in SUBSET (1..(n - 1))
<1>1. 1..(n + 1 - 1) = 1..(n - 1) \cup {n}
  OBVIOUS
<1> QED BY <1>1 DEF Before

LEMMA SettingNext ==
  ASSUME NEW n \in Nat \ {0}, NEW ops, NEW default
  PROVE  Setting(n + 1, ops, default) =
           IF label[n].op \in ops THEN Number(label[n].args, default)
           ELSE Setting(n, ops, default)
<1>1. CASE label[n].op \in ops
  <2>1. Before(n + 1, ops) = Before(n, ops) \cup {n} /\ Before(n, ops) \in SUBSET (1..(n - 1))
    BY <1>1, BeforeNext
  <2>2. Latest(Before(n, ops) \cup {n}) = n
    BY <2>1, LatestIs
  <2> QED BY <1>1, <2>1, <2>2 DEF Setting
<1>2. CASE label[n].op \notin ops
  <2>1. Before(n + 1, ops) = Before(n, ops)
    BY <1>2, BeforeNext
  <2> QED BY <1>2, <2>1 DEF Setting
<1> QED BY <1>1, <1>2

LEMMA UnusedNext ==
  ASSUME NEW n \in Nat \ {0}
  PROVE  /\ Unused(n + 1) = IF label[n].op \in BARCODE_TYPES THEN Unused(n) \cup {n}
                            ELSE IF label[n].op \in FIELDS THEN {} ELSE Unused(n)
         /\ Unused(n) \in SUBSET (1..(n - 1))
<1>1. /\ Before(n + 1, BARCODE_TYPES) =
           IF label[n].op \in BARCODE_TYPES THEN Before(n, BARCODE_TYPES) \cup {n}
           ELSE Before(n, BARCODE_TYPES)
      /\ Before(n + 1, FIELDS) =
           IF label[n].op \in FIELDS THEN Before(n, FIELDS) \cup {n} ELSE Before(n, FIELDS)
      /\ Before(n, BARCODE_TYPES) \in SUBSET (1..(n - 1))
      /\ Before(n, FIELDS) \in SUBSET (1..(n - 1))
  BY BeforeNext
<1>2. label[n].op \in BARCODE_TYPES => label[n].op \notin FIELDS
  BY KindsApart
<1>3. /\ \A j \in Before(n, FIELDS) : ~(n < j)
      /\ \A i \in Before(n, BARCODE_TYPES) : i < n
  BY <1>1
<1>4. CASE label[n].op \in BARCODE_TYPES
  BY <1>1, <1>2, <1>3, <1>4 DEF Unused
<1>5. CASE label[n].op \notin BARCODE_TYPES /\ label[n].op \in FIELDS
  BY <1>1, <1>3, <1>5 DEF Unused
<1>6. CASE label[n].op \notin BARCODE_TYPES /\ label[n].op \notin FIELDS
  BY <1>1, <1>6 DEF Unused
<1>7. Unused(n) \in SUBSET (1..(n - 1))
  BY <1>1 DEF Unused
<1> QED BY <1>4, <1>5, <1>6, <1>7

\* What a label shows does not change while it is rendered.
LEMMA SameLabel ==
  ASSUME label' = label, zint' = zint, fonts' = fonts
  PROVE  /\ \A n, ops, default : Setting(n, ops, default)' = Setting(n, ops, default)
         /\ \A n : Unused(n)' = Unused(n)
         /\ \A n : Shown(n)' = Shown(n)
         /\ \A n : Unreadable(n)' <=> Unreadable(n)
         /\ \A n : Place(n)' = Place(n)
<1>1. \A n, ops, default : Setting(n, ops, default)' = Setting(n, ops, default)
  BY Zenon DEF Setting, Before
<1>2. \A n : Unused(n)' = Unused(n)
  BY Zenon DEF Unused, Before
<1>3. \A n : Picture(n)' = Picture(n)
  BY <1>1, <1>2, Zenon DEF Picture, Image
<1>4. \A n : Shown(n)' = Shown(n)
  BY <1>3, Zenon DEF Shown
<1>5. \A n : Unreadable(n)' <=> Unreadable(n)
  BY <1>2, Zenon DEF Unreadable
<1>6. \A n : Place(n)' = Place(n)
  BY <1>4, Zenon DEF Place
<1> QED BY <1>1, <1>2, <1>4, <1>5, <1>6

\* A command shows nothing or one item.
LEMMA ShownOne ==
  ASSUME NEW n
  PROVE  Shown(n) = <<>> \/ \E item : Shown(n) = <<item>>
BY DEF Shown, Picture, Image, Text

LEMMA PlaceNext ==
  ASSUME NEW n \in Nat
  PROVE  /\ Place(n) \in Nat /\ Place(0) = 0
         /\ Place(n + 1) = IF Shown(n + 1) # <<>> THEN Place(n) + 1 ELSE Place(n)
         /\ \A k \in 1..n : Shown(k) # <<>> => Place(k) \in 1..Place(n)
<1> DEFINE P(k) == {j \in 1..k : Shown(j) # <<>>}
<1>1. ASSUME NEW k \in Nat PROVE IsFiniteSet(P(k)) /\ Cardinality(P(k)) \in Nat
  <2>1. IsFiniteSet(1..k)
    BY FS_Interval
  <2>2. IsFiniteSet(P(k))
    BY <2>1, FS_Subset
  <2> QED BY <2>2, FS_CardinalityType
<1>2. P(n + 1) = IF Shown(n + 1) # <<>> THEN P(n) \cup {n + 1} ELSE P(n)
  <2>1. 1..(n + 1) = 1..n \cup {n + 1}
    OBVIOUS
  <2> QED BY <2>1
<1>3. n + 1 \notin P(n)
  OBVIOUS
<1>4. P(0) = {}
  OBVIOUS
<1>5. ASSUME NEW k \in 1..n, Shown(k) # <<>>
      PROVE  Cardinality(P(k)) \in 1..Cardinality(P(n))
  <2>1. P(k) \subseteq P(n) /\ k \in P(k) /\ k \in Nat
    BY <1>5
  <2> HIDE DEF P
  <2>2. Cardinality(P(k)) <= Cardinality(P(n))
    BY <1>1, <2>1, FS_Subset
  <2>3. Cardinality(P(k)) # 0
    BY <1>1, <2>1, FS_EmptySet
  <2> QED BY <1>1, <2>1, <2>2, <2>3
<1> HIDE DEF P
<1>6. Cardinality(P(n + 1)) = IF Shown(n + 1) # <<>> THEN Cardinality(P(n)) + 1
                              ELSE Cardinality(P(n))
  BY <1>1, <1>2, <1>3, FS_AddElement
<1>7. Cardinality(P(0)) = 0
  BY <1>4, FS_EmptySet
<1>8. \A k : Place(k) = Cardinality(P(k))
  BY DEF Place, P
<1> QED BY <1>1, <1>5, <1>6, <1>7, <1>8

LEMMA OneMore == \A n \in Nat : 1..(n + 1) = 1..n \cup {n + 1}
OBVIOUS

Adds(t, s, e) == t = s \o <<e>>

LEMMA Appended ==
  ASSUME NEW s, Len(s) \in Nat, Listed(s), NEW e, NEW t,
         Adds(t, s, e)
  PROVE  /\ Len(t) = Len(s) + 1 /\ Listed(t) /\ DOMAIN t = 1..Len(t)
         /\ \A i \in 1..Len(s) : t[i] = s[i]
         /\ t[Len(s) + 1] = e
         /\ s \o <<>> = s
<1> DEFINE S == {s[i] : i \in 1..Len(s)} \cup {e}
<1>1. s \in [1..Len(s) -> S]
  BY DEF Listed
<1> HIDE DEF S
<1>2. s \in Seq(S)
  BY <1>1
<1>3. e \in S
  BY DEF S
<1>4. t \in Seq(S) /\ Len(t) = Len(s) + 1
  BY <1>2, <1>3 DEF Adds
<1>5. Listed(t) /\ DOMAIN t = 1..Len(t)
  BY <1>4 DEF Listed
<1> QED BY <1>2, <1>3, <1>4, <1>5 DEF Adds

LEMMA LabelLength == label \in Labels => Len(label) \in Nat
<1> PICK S : S = [op : STRING, args : Seq(STRING)]
  OBVIOUS
<1>1. Labels \subseteq Seq(S)
  BY PreviewAssumption
<1>2. \A s \in Seq(S) : Len(s) \in Nat
  OBVIOUS
<1> QED BY <1>1, <1>2

LEMMA EmptyPicture ==
  ASSUME drawn = <<>>
  PROVE  Len(drawn) = 0 /\ DOMAIN drawn = {} /\ Listed(drawn)
<1>1. Len(drawn) = 0 /\ DOMAIN drawn = {}
  OBVIOUS
<1>2. 1..0 = {}
  OBVIOUS
<1> QED BY <1>1, <1>2 DEF Listed

LEMMA OneFurther ==
  \A l \in Nat : \A m \in 1..(l + 1) : m <= l =>
    /\ m \in Nat \ {0} /\ m - 1 \in Nat /\ m - 1 + 1 = m
    /\ m + 1 \in 1..(l + 1) /\ m + 1 - 1 = m
OBVIOUS

LEMMA Defaults == Proper("", 0, 30, 2, 40)
BY DEF Proper

LEMMA PreviewInitially == PreviewInit => PreviewIInv
<1> SUFFICES ASSUME NEW text \in Labels, NEW z, NEW f, Rendering(text, z, f)
             PROVE  PreviewIInv
  BY DEF PreviewInit
<1>1. /\ label \in Labels /\ next = 1 /\ x = 0 /\ font = 30 /\ width = 2 /\ height = 40
      /\ barcode = "" /\ drawn = <<>> /\ outcome = ""
  BY DEF Rendering
<1>2. Len(label) \in Nat
  BY <1>1, LabelLength
<1>3. \A ops : Before(1, ops) = {}
  BY DEF Before
<1>4. \A ops, default : Setting(1, ops, default) = default
  BY <1>3 DEF Setting
<1>5. Unused(1) = {}
  BY <1>3 DEF Unused
<1>6. Current(next, x, font, width) /\ Coded(next, barcode, height)
  <2>1. AtLeastOne(2) = 2
    BY DEF AtLeastOne
  <2>2. Current(next, x, font, width)
    BY <1>1, <1>4, <2>1 DEF Current
  <2> QED BY <1>1, <1>5, <2>2 DEF Coded
<1>7. Len(drawn) = 0 /\ DOMAIN drawn = {} /\ Listed(drawn)
  BY <1>1, EmptyPicture
<1>8. Showing(0)
  BY <1>7, PlaceNext DEF Showing
<1>9. PreviewTypeOK
  <2>1. 1 \in 1..(Len(label) + 1)
    BY <1>2
  <2>2. Proper(barcode, x, font, width, height)
    BY <1>1, Defaults
  <2>3. /\ next \in 1..(Len(label) + 1) /\ outcome \in {"", "saved", "failed"}
    BY <1>1, <2>1
  <2> QED BY <1>7, <2>2, <2>3 DEF PreviewTypeOK, Proper
<1>10. 1 - 1 = 0 /\ 1..0 = {}
  OBVIOUS
<1> QED BY <1>1, <1>6, <1>7, <1>8, <1>9, <1>10 DEF PreviewIInv

\* A command that is taken: what comes after it has to fit what comes before
\* the command that follows.
Drawing ==
  /\ outcome = "" /\ next <= Len(label) /\ Advances
  /\ Current(next + 1, x', font', width') /\ Coded(next + 1, barcode', height')
  /\ drawn' = drawn \o Shown(next) /\ ~Unreadable(next) /\ Shows(next)
  /\ Proper(barcode', x', font', width', height')

LEMMA TakenInv ==
  ASSUME PreviewIInv, Drawing
  PROVE  PreviewIInv'
<1>1. /\ label' = label /\ zint' = zint /\ fonts' = fonts /\ outcome' = outcome
      /\ next' = next + 1 /\ label \in Labels
  BY DEF Drawing, Advances, PreviewIInv
<1>2. /\ Len(label) \in Nat /\ next \in Nat \ {0} /\ next - 1 \in Nat /\ next - 1 + 1 = next
      /\ next' \in 1..(Len(label) + 1) /\ next' - 1 = next
  <2>1. Len(label) \in Nat /\ next \in 1..(Len(label) + 1)
    BY LabelLength DEF PreviewIInv, PreviewTypeOK
  <2>2. next' = next + 1 /\ next <= Len(label)
    BY <1>1 DEF Drawing
  <2>3. /\ next \in Nat \ {0} /\ next - 1 \in Nat /\ next - 1 + 1 = next
        /\ next + 1 \in 1..(Len(label) + 1) /\ next + 1 - 1 = next
    BY <2>1, <2>2, OneFurther, Zenon
  <2> QED BY <2>1, <2>2, <2>3
<1>3. /\ Showing(next - 1) /\ \A k \in 1..(next - 1) : ~Unreadable(k)
      /\ Listed(drawn)
      /\ \A i \in DOMAIN drawn : drawn[i].type \in Kinds
  BY DEF PreviewIInv, PreviewTypeOK, Kinds
<1> PICK n \in Nat : n = next - 1
  BY <1>2
<1>4. n \in Nat /\ n + 1 = next /\ 1..next = 1..n \cup {next} /\ 1..(next - 1) = 1..n
  <2>1. n + 1 = next
    BY <1>2
  <2>2. 1..(n + 1) = 1..n \cup {n + 1}
    BY OneMore
  <2> QED BY <2>1, <2>2
<1>5. Len(drawn) = Place(n) /\ Place(n) \in Nat
  BY <1>3, <1>4, PlaceNext DEF Showing
<1>6. /\ Listed(drawn') /\ Len(drawn') = Place(next)
      /\ \A k \in 1..next : Shown(k) # <<>> => drawn'[Place(k)] = Shown(k)[1]
      /\ \A i \in DOMAIN drawn' : drawn'[i].type \in Kinds
  <2>1. \A k \in 1..n : Shown(k) # <<>> =>
          Place(k) \in 1..Len(drawn) /\ drawn[Place(k)] = Shown(k)[1]
    BY <1>3, <1>4, <1>5, PlaceNext DEF Showing
  <2>2. Place(next) = IF Shown(next) # <<>> THEN Len(drawn) + 1 ELSE Len(drawn)
    BY <1>4, <1>5, PlaceNext
  <2>3. CASE Shown(next) = <<>>
    <3>1. drawn' = drawn
      <4>1. drawn' = drawn \o <<>>
        BY <2>3 DEF Drawing
      <4>2. PICK t : Adds(t, drawn, 0)
        BY DEF Adds
      <4>3. drawn \o <<>> = drawn
        BY <1>3, <1>5, <4>2, Appended
      <4> QED BY <4>1, <4>3
    <3> QED BY <1>3, <1>4, <2>1, <2>2, <2>3, <3>1
  <2>4. ASSUME NEW item, Shown(next) = <<item>>
        PROVE  /\ Listed(drawn') /\ Len(drawn') = Place(next)
               /\ \A k \in 1..next : Shown(k) # <<>> => drawn'[Place(k)] = Shown(k)[1]
               /\ \A i \in DOMAIN drawn' : drawn'[i].type \in Kinds
    <3>1. /\ Len(drawn') = Len(drawn) + 1 /\ Listed(drawn') /\ DOMAIN drawn' = 1..Len(drawn')
          /\ \A i \in 1..Len(drawn) : drawn'[i] = drawn[i]
          /\ drawn'[Len(drawn) + 1] = item
      <4>1. PICK t : t = drawn'
        OBVIOUS
      <4>2. Adds(t, drawn, item)
        BY <2>4, <4>1 DEF Drawing, Adds
      <4>3. Len(drawn) \in Nat /\ Listed(drawn)
        BY <1>3, <1>5
      <4>4. /\ Len(t) = Len(drawn) + 1 /\ Listed(t) /\ DOMAIN t = 1..Len(t)
            /\ \A i \in 1..Len(drawn) : t[i] = drawn[i]
            /\ t[Len(drawn) + 1] = item
        BY <4>2, <4>3, Appended
      <4> QED BY <4>1, <4>4, Zenon
    <3>2. Shown(next) # <<>> /\ Shown(next)[1] = item
      <4>1. <<item>> # <<>> /\ <<item>>[1] = item
        OBVIOUS
      <4> QED BY <2>4, <4>1
    <3>3. Place(next) = Len(drawn) + 1 /\ Len(drawn') = Place(next)
      BY <2>2, <3>1, <3>2
    <3>4. ASSUME NEW k \in 1..next, Shown(k) # <<>>
          PROVE  drawn'[Place(k)] = Shown(k)[1]
      <4>1. CASE k = next
        BY <3>1, <3>2, <3>3, <4>1
      <4>2. CASE k # next
        <5>1. k \in 1..n
          BY <1>4, <4>2
        <5> QED BY <2>1, <3>1, <3>4, <5>1
      <4> QED BY <4>1, <4>2
    <3>5. ASSUME NEW i \in DOMAIN drawn'
          PROVE  drawn'[i].type \in Kinds
      <4>1. i \in 1..Len(drawn) \/ i = Len(drawn) + 1
        <5>1. i \in 1..(Len(drawn) + 1)
          BY <3>1
        <5> QED BY <1>5, <5>1, OneMore
      <4>2. DOMAIN drawn = 1..Len(drawn)
        BY <1>3 DEF Listed
      <4> QED BY <1>3, <2>4, <3>1, <4>1, <4>2 DEF Drawing, Shows
    <3> QED BY <3>1, <3>3, <3>4, <3>5
  <2> QED BY <2>3, <2>4, ShownOne
<1>7. /\ \A m, ops, default : Setting(m, ops, default)' = Setting(m, ops, default)
      /\ \A m : Unused(m)' = Unused(m)
      /\ \A m : Shown(m)' = Shown(m)
      /\ \A m : Unreadable(m)' <=> Unreadable(m)
      /\ \A m : Place(m)' = Place(m)
  BY <1>1, SameLabel
<1>8. Showing(next - 1)'
  BY <1>2, <1>6, <1>7 DEF Showing
<1>9. (\A k \in 1..(next - 1) : ~Unreadable(k))'
  BY <1>2, <1>3, <1>4, <1>7 DEF Drawing
<1>10. Current(next, x, font, width)' /\ Coded(next, barcode, height)'
  BY <1>1, <1>7 DEF Drawing, Current, Coded
<1>11. PreviewTypeOK'
  <2>1. outcome' \in {"", "saved", "failed"}
    BY <1>1 DEF Drawing
  <2> QED BY <1>1, <1>2, <1>6, <2>1 DEF Drawing, PreviewTypeOK, Proper, Kinds
<1> QED BY <1>1, <1>6, <1>8, <1>9, <1>10, <1>11 DEF Drawing, PreviewIInv

LEMMA Now ==
  ASSUME PreviewIInv
  PROVE  /\ next \in Nat \ {0} /\ Proper(barcode, x, font, width, height)
         /\ Len(drawn) \in Nat /\ drawn \o <<>> = drawn
<1>1. Len(label) \in Nat /\ next \in 1..(Len(label) + 1)
  BY LabelLength DEF PreviewIInv, PreviewTypeOK
<1>2. next \in Nat \ {0}
  BY <1>1
<1>3. Proper(barcode, x, font, width, height)
  BY DEF PreviewIInv, PreviewTypeOK, Proper
<1>4. Len(drawn) = Place(next - 1) /\ Listed(drawn)
  BY DEF PreviewIInv, Showing
<1> PICK n \in Nat : n = next - 1
  BY <1>2
<1>5. Len(drawn) \in Nat
  BY <1>4, PlaceNext
<1>6. PICK t : Adds(t, drawn, 0)
  BY DEF Adds
<1> QED BY <1>2, <1>3, <1>4, <1>5, <1>6, Appended

\* What a command does to the settings of those that follow.
LEMMA Carried ==
  ASSUME PreviewIInv, NEW op, NEW args, op = label[next].op, args = label[next].args
  PROVE  /\ Setting(next + 1, ORIGINS, 0) = IF op \in ORIGINS THEN Number(args, 0) ELSE x
         /\ Setting(next + 1, FONTS, 30) = IF op \in FONTS THEN Number(args, 30) ELSE font
         /\ AtLeastOne(Setting(next + 1, WIDTHS, 2)) =
              IF op \in WIDTHS THEN AtLeastOne(Number(args, 2)) ELSE width
         /\ op \notin BARCODE_TYPES \cup FIELDS => Coded(next + 1, barcode, height)
         /\ op \in BARCODE_TYPES => Coded(next + 1, op, BarcodeHeight(args))
         /\ op \in FIELDS => Coded(next + 1, "", height)
<1>1. Current(next, x, font, width) /\ Coded(next, barcode, height)
  BY DEF PreviewIInv
<1>2. next \in Nat \ {0}
  BY Now
<1>3. Setting(next + 1, ORIGINS, 0) = IF op \in ORIGINS THEN Number(args, 0) ELSE x
  BY <1>1, <1>2, SettingNext DEF Current
<1>4. Setting(next + 1, FONTS, 30) = IF op \in FONTS THEN Number(args, 30) ELSE font
  BY <1>1, <1>2, SettingNext DEF Current
<1>5. AtLeastOne(Setting(next + 1, WIDTHS, 2)) =
        IF op \in WIDTHS THEN AtLeastOne(Number(args, 2)) ELSE width
  BY <1>1, <1>2, SettingNext DEF Current
<1>6. /\ Unused(next + 1) = IF op \in BARCODE_TYPES THEN Unused(next) \cup {next}
                            ELSE IF op \in FIELDS THEN {} ELSE Unused(next)
      /\ Unused(next) \in SUBSET (1..(next - 1))
  BY <1>2, UnusedNext
<1>7. ASSUME op \in BARCODE_TYPES PROVE Coded(next + 1, op, BarcodeHeight(args))
  <2>1. Latest(Unused(next) \cup {next}) = next
    BY <1>2, <1>6, LatestIs
  <2>2. op # ""
    BY <1>7, KindsApart
  <2> QED BY <1>6, <1>7, <2>1, <2>2 DEF Coded
<1>8. ASSUME op \in FIELDS PROVE Coded(next + 1, "", height)
  <2>1. op \notin BARCODE_TYPES
    BY <1>8, KindsApart
  <2> QED BY <1>6, <1>8, <2>1 DEF Coded
<1>9. op \notin BARCODE_TYPES \cup FIELDS => Coded(next + 1, barcode, height)
  BY <1>1, <1>6 DEF Coded
<1> QED BY <1>3, <1>4, <1>5, <1>7, <1>8, <1>9

\* A command that shows nothing.
LEMMA PlainInv ==
  ASSUME PreviewIInv, outcome = "", next <= Len(label), Advances, drawn' = drawn,
         label[next].op \notin FIELDS,
         label[next].op \in ORIGINS \cup FONTS \cup WIDTHS => ~Raises(label[next].args),
         Current(next + 1, x', font', width'), Coded(next + 1, barcode', height'),
         Proper(barcode', x', font', width', height')
  PROVE  PreviewIInv'
<1>1. Shown(next) = <<>>
  BY DEF Shown
<1>2. drawn' = drawn \o Shown(next)
  BY <1>1, Now
<1>3. \A item : <<>> # <<item>>
  OBVIOUS
<1>4. Shows(next)
  BY <1>1, <1>3 DEF Shows
<1>5. ~Unreadable(next)
  BY DEF Unreadable
<1> QED BY <1>2, <1>4, <1>5, TakenInv DEF Drawing

LEMMA SettingsInv ==
  ASSUME PreviewIInv, Skip \/ Origin \/ Font \/ Module
  PROVE  PreviewIInv'
<1> PICK op, args : op = label[next].op /\ args = label[next].args
  OBVIOUS
<1>1. /\ outcome = "" /\ next <= Len(label) /\ Advances /\ drawn' = drawn
      /\ barcode' = barcode /\ height' = height
  BY DEF Skip, Origin, Font, Module, Takes
<1>2. Proper(barcode, x, font, width, height)
  BY Now
<1>3. CASE Skip
  <2>1. op \notin ORIGINS \cup FONTS \cup WIDTHS \cup BARCODE_TYPES \cup FIELDS
    BY <1>3, KindsApart DEF Skip, Takes, Cmd
  <2>2. x' = x /\ font' = font /\ width' = width
    BY <1>3 DEF Skip
  <2> QED BY <1>1, <1>2, <2>1, <2>2, Carried, PlainInv DEF Current
<1>4. CASE Origin
  <2>1. /\ op \in ORIGINS /\ op \notin FONTS \cup WIDTHS \cup BARCODE_TYPES \cup FIELDS
        /\ ~Raises(args)
    BY <1>4, KindsApart DEF Origin, Takes, Cmd
  <2>2. x' = Number(args, 0) /\ font' = font /\ width' = width /\ Number(args, 0) \in Nat
    BY <1>4, <2>1, NumberTyped DEF Origin, Cmd
  <2>3. Proper(barcode, Number(args, 0), font, width, height)
    BY <1>2, <2>2 DEF Proper
  <2> QED BY <1>1, <2>1, <2>2, <2>3, Carried, PlainInv DEF Current
<1>5. CASE Font
  <2>1. /\ op \in FONTS /\ op \notin ORIGINS \cup WIDTHS \cup BARCODE_TYPES \cup FIELDS
        /\ ~Raises(args)
    BY <1>5, KindsApart DEF Font, Takes, Cmd
  <2>2. x' = x /\ font' = Number(args, 30) /\ width' = width /\ Number(args, 30) \in Nat
    BY <1>5, <2>1, NumberTyped DEF Font, Cmd
  <2>3. Proper(barcode, x, Number(args, 30), width, height)
    BY <1>2, <2>2 DEF Proper
  <2> QED BY <1>1, <2>1, <2>2, <2>3, Carried, PlainInv DEF Current
<1>6. CASE Module
  <2>1. /\ op \in WIDTHS /\ op \notin ORIGINS \cup FONTS \cup BARCODE_TYPES \cup FIELDS
        /\ ~Raises(args)
    BY <1>6, KindsApart DEF Module, Takes, Cmd
  <2>2. x' = x /\ font' = font /\ width' = AtLeastOne(Number(args, 2)) /\ Number(args, 2) \in Nat
    BY <1>6, <2>1, NumberTyped DEF Module, Cmd
  <2>3. AtLeastOne(Number(args, 2)) \in Nat \ {0}
    BY <2>2 DEF AtLeastOne
  <2>4. Proper(barcode, x, font, AtLeastOne(Number(args, 2)), height)
    BY <1>2, <2>3 DEF Proper
  <2> QED BY <1>1, <2>1, <2>2, <2>4, Carried, PlainInv DEF Current
<1> QED BY <1>3, <1>4, <1>5, <1>6

LEMMA BarcodeInv ==
  ASSUME PreviewIInv, Barcode
  PROVE  PreviewIInv'
<1> PICK op, args : op = label[next].op /\ args = label[next].args
  OBVIOUS
<1>1. /\ outcome = "" /\ next <= Len(label) /\ Advances /\ drawn' = drawn
      /\ x' = x /\ font' = font /\ width' = width
      /\ op \in BARCODE_TYPES /\ barcode' = op /\ height' = BarcodeHeight(args)
  BY DEF Barcode, Takes, Cmd
<1>2. op \notin ORIGINS \cup FONTS \cup WIDTHS \cup FIELDS
  BY <1>1, KindsApart
<1>3. Proper(op, x, font, width, BarcodeHeight(args))
  <2>1. BarcodeHeight(args) \in Nat
    BY NumberTyped
  <2>2. Proper(barcode, x, font, width, height)
    BY Now
  <2> QED BY <1>1, <2>1, <2>2 DEF Proper
<1> QED BY <1>1, <1>2, <1>3, Carried, PlainInv DEF Current

LEMMA FieldInv ==
  ASSUME PreviewIInv, Field
  PROVE  PreviewIInv'
<1> PICK op, args, data : op = label[next].op /\ args = label[next].args /\ data = Data(args)
  OBVIOUS
<1>1. /\ outcome = "" /\ next <= Len(label) /\ Advances
      /\ x' = x /\ font' = font /\ width' = width /\ height' = height /\ barcode' = ""
      /\ op \in FIELDS /\ (barcode # "" \/ fonts)
      /\ drawn' = drawn \o (IF barcode = "" THEN Text(data, font, x)
                            ELSE Image(barcode, data, height, width, x))
  BY DEF Field, Takes, Cmd
<1>2. op \notin ORIGINS \cup FONTS \cup WIDTHS \cup BARCODE_TYPES
  BY <1>1, KindsApart
<1>3. Current(next, x, font, width) /\ Coded(next, barcode, height)
      /\ Proper(barcode, x, font, width, height)
  BY Now DEF PreviewIInv
<1>4. Shown(next) = IF barcode = "" THEN Text(data, font, x)
                    ELSE Image(barcode, data, height, width, x)
  <2>1. Shown(next) = Picture(next)
    BY <1>1 DEF Shown
  <2>2. CASE Unused(next) = {}
    <3>1. barcode = "" /\ font = Setting(next, FONTS, 30) /\ x = Setting(next, ORIGINS, 0)
      BY <1>3, <2>2 DEF Coded, Current
    <3> QED BY <2>1, <2>2, <3>1 DEF Picture
  <2>3. CASE Unused(next) # {}
    <3>1. /\ barcode # "" /\ barcode = label[Latest(Unused(next))].op
          /\ height = BarcodeHeight(label[Latest(Unused(next))].args)
          /\ width = AtLeastOne(Setting(next, WIDTHS, 2)) /\ x = Setting(next, ORIGINS, 0)
      BY <1>3, <2>3 DEF Coded, Current
    <3> QED BY <2>1, <2>3, <3>1, Zenon DEF Picture
  <2> QED BY <2>2, <2>3
<1>5. Shows(next)
  <2>1. barcode # "" => barcode \in BARCODE_TYPES
    BY <1>3 DEF Proper
  <2>2. ASSUME NEW item, Text(data, font, x) = <<item>> PROVE item.type \in Kinds
    BY <2>2 DEF Text, Kinds
  <2>3. ASSUME NEW item, barcode # "", Image(barcode, data, height, width, x) = <<item>>
        PROVE  item.type \in Kinds
    <3>1. PICK one : one = [type |-> barcode, data |-> data, size |-> <<height, width>>, x |-> x]
      OBVIOUS
    <3>2. one.type \in Kinds
      BY <2>1, <2>3, <3>1 DEF Kinds
    <3>3. <<item>> = <<one>>
      <4>1. <<>> # <<item>>
        OBVIOUS
      <4> QED BY <2>3, <3>1, <4>1, Zenon DEF Image
    <3> QED BY <3>2, <3>3
  <2> QED BY <1>4, <2>2, <2>3 DEF Shows
<1>6. ~Unreadable(next)
  BY <1>1, <1>2, <1>3 DEF Unreadable, Coded
<1>7. Coded(next + 1, barcode', height') /\ Current(next + 1, x', font', width')
  BY <1>1, <1>2, Carried DEF Current
<1>8. Proper(barcode', x', font', width', height')
  BY <1>1, <1>3 DEF Proper
<1> QED BY <1>1, <1>4, <1>5, <1>6, <1>7, <1>8, TakenInv DEF Drawing

\* The end: the picture is saved, or a command has failed.
LEMMA EndInv ==
  ASSUME PreviewIInv, Malformed \/ NoFont \/ Save \/ UNCHANGED previewVars
  PROVE  PreviewIInv'
<1>1. /\ label' = label /\ next' = next /\ x' = x /\ font' = font /\ width' = width
      /\ barcode' = barcode /\ height' = height /\ drawn' = drawn /\ zint' = zint
      /\ fonts' = fonts
  BY DEF Malformed, NoFont, Save, Fails, previewVars
<1>2. /\ \A m, ops, default : Setting(m, ops, default)' = Setting(m, ops, default)
      /\ \A m : Unused(m)' = Unused(m)
      /\ \A m : Shown(m)' = Shown(m)
      /\ \A m : Unreadable(m)' <=> Unreadable(m)
      /\ \A m : Place(m)' = Place(m)
  BY <1>1, SameLabel
<1>3. /\ outcome' \in {"", "saved", "failed"}
      /\ outcome' = "saved" => next = Len(label) + 1
      /\ outcome' = "failed" => Unreadable(next)
  <2>1. CASE Malformed
    BY <2>1 DEF Malformed, Fails, Takes, Cmd, Unreadable
  <2>2. CASE NoFont
    BY <2>2 DEF NoFont, Fails, Takes, Cmd, Unreadable, PreviewIInv, Coded
  <2>3. CASE Save
    <3>1. outcome' = "saved" /\ next > Len(label)
      BY <2>3 DEF Save
    <3>2. Len(label) \in Nat /\ next \in 1..(Len(label) + 1)
      BY LabelLength DEF PreviewIInv, PreviewTypeOK
    <3> QED BY <3>1, <3>2
  <2>4. CASE UNCHANGED previewVars
    BY <2>4 DEF previewVars, PreviewIInv, PreviewTypeOK
  <2> QED BY <2>1, <2>2, <2>3, <2>4
<1>4. Showing(next - 1)'
  BY <1>1, <1>2 DEF PreviewIInv, Showing
<1>5. Current(next, x, font, width)' /\ Coded(next, barcode, height)'
  BY <1>1, <1>2 DEF PreviewIInv, Current, Coded
<1>6. PreviewTypeOK'
  BY <1>1, <1>3 DEF PreviewIInv, PreviewTypeOK
<1> QED BY <1>1, <1>2, <1>3, <1>4, <1>5, <1>6 DEF PreviewIInv

LEMMA PreviewInductive == PreviewIInv /\ [PreviewNext]_previewVars => PreviewIInv'
BY SettingsInv, BarcodeInv, FieldInv, EndInv DEF PreviewNext

LEMMA PreviewInvariant == PreviewSpec => []PreviewIInv
BY PreviewInitially, PreviewInductive, PTL DEF PreviewSpec

\* The renderer draws every field of a label once, in order, with the last
\* settings and the last unused barcode before it, and it fails only at a
\* command that cannot be read or a text without a font.
THEOREM PreviewIsRight == PreviewSpec => []PreviewShowsFields
<1>1. PreviewIInv => PreviewShowsFields
  <2> SUFFICES ASSUME PreviewIInv PROVE PreviewShowsFields
    OBVIOUS
  <2>1. outcome = "failed" => Unreadable(next)
    BY DEF PreviewIInv
  <2>2. ASSUME outcome = "saved"
        PROVE  Showing(Len(label)) /\ \A k \in 1..Len(label) : ~Unreadable(k)
    <3>1. next = Len(label) + 1 /\ Len(label) \in Nat
      BY <2>2, LabelLength DEF PreviewIInv
    <3>2. next - 1 = Len(label)
      BY <3>1
    <3> QED BY <3>2 DEF PreviewIInv
  <2> QED BY <2>1, <2>2 DEF PreviewShowsFields
<1> QED BY <1>1, PreviewInvariant, PTL

-----------------------------------------------------------------------------
(* The parts together, and the validator of the config commands.           *)

RuntimeIInv ==
  /\ part \in {"deployment", "simulators", "status", "preview"}
  /\ part = "deployment" => IInv
  /\ part = "simulators" => FleetIInv
  /\ part = "status" => StatusIInv
  /\ part = "preview" => PreviewIInv

LEMMA RuntimeInitially == Init => RuntimeIInv
BY Initially, FleetInitially, StatusInitially, PreviewInitially DEF Init, RuntimeIInv

LEMMA RuntimeInductive == RuntimeIInv /\ [Next]_allVars => RuntimeIInv'
<1> SUFFICES ASSUME RuntimeIInv, [Next]_allVars PROVE RuntimeIInv'
  OBVIOUS
<1>1. part' = part
  BY DEF Next, allVars
<1>2. ASSUME part = "deployment" PROVE IInv'
  <2>1. [DeploymentNext]_deploymentVars
    BY <1>2 DEF Next, allVars
  <2> QED BY <1>2, <2>1, Inductive DEF RuntimeIInv
<1>3. ASSUME part = "simulators" PROVE FleetIInv'
  <2>1. [FleetNext]_fleetVars
    BY <1>3 DEF Next, allVars
  <2> QED BY <1>3, <2>1, FleetInductive DEF RuntimeIInv
<1>4. ASSUME part = "status" PROVE StatusIInv'
  <2>1. [StatusNext]_statusVars
    BY <1>4 DEF Next, allVars
  <2> QED BY <1>4, <2>1, StatusInductive DEF RuntimeIInv
<1>5. ASSUME part = "preview" PROVE PreviewIInv'
  <2>1. [PreviewNext]_previewVars
    BY <1>5 DEF Next, allVars
  <2> QED BY <1>5, <2>1, PreviewInductive DEF RuntimeIInv
<1> QED BY <1>1, <1>2, <1>3, <1>4, <1>5 DEF RuntimeIInv

\* Whichever of the four parts a behaviour is of, its state is well typed.
THEOREM RuntimeTypeCorrect == Spec => []TypeOK
<1>1. RuntimeIInv => TypeOK
  BY DEF RuntimeIInv, IInv, FleetIInv, StatusIInv, PreviewIInv, TypeOK
<1> QED BY <1>1, RuntimeInitially, RuntimeInductive, PTL DEF Spec

\* For every configuration file and environment: when the config commands find
\* nothing to complain about and the settings do not load all the same, the
\* reason is one of those that validate_settings_yaml does not look at.
THEOREM ValidatorLeavesNoMore == \A c, e : ValidatorLeavesOpen(c, e)
<1> SUFFICES ASSUME NEW c, NEW e, Complaints(c) = {}, PathsResolve(e), ~Loads(c, e),
                    {"discovery", "deployment", "ui"} \subseteq c.sections,
                    {"physical_database", "local_db_port", "local_ui_port",
                     "default_scan_wait_seconds"} \subseteq c.keys,
                    (Numbers \cup {"home"}) \cap c.flawed = {}, ~Flawed("ca_bundle", c, e),
                    "cognito_domain" \notin e.keys \cap e.flawed,
                    "cognito_domain" \in c.keys \cup e.keys \/ "cognito.domain" \notin c.flawed,
                    "cognito" \in c.flawed => CognitoKeys \subseteq c.keys \cup e.keys,
                    \/ "external_broker" \notin c.flawed
                    \/ BrokerEntries \subseteq e.keys
                    \/ Lower(c.mode) = "external_broker"
             PROVE  FALSE
  BY DEF ValidatorLeavesOpen
<1>1. c.file = "mapping"
  BY DEF Complaints
<1>2. /\ {"service", "authentication", "tapdb"} \subseteq c.sections
      /\ TapdbKeys \ {"physical_database", "local_db_port", "local_ui_port"} \subseteq c.keys
      /\ "cognito_domain" \notin c.keys \cap c.flawed
      /\ "group_role_map" \notin c.flawed
      /\ Lower(c.mode) = "external_broker" => "external_broker" \notin c.flawed
  BY <1>1 DEF Complaints
<1>3. Sections \subseteq c.sections
  BY <1>2 DEF Sections
<1>4. TapdbKeys \cup {"default_scan_wait_seconds"} \subseteq c.keys
  BY <1>2
<1>5. PartsReadable(c, e)
  BY <1>2 DEF PartsReadable
<1>6. DomainUsable(c, e)
  <2>1. CASE "cognito_domain" \in c.keys \cup e.keys
    <3>1. ~Flawed("cognito_domain", c, e)
      BY <1>2, <2>1 DEF Flawed
    <3> QED BY <2>1, <3>1 DEF DomainUsable
  <2>2. CASE "cognito_domain" \notin c.keys \cup e.keys
    <3>1. Nested["cognito_domain"] = "cognito.domain" /\ "cognito.domain" \notin c.flawed
      BY <2>2 DEF Nested
    <3> QED BY <2>2, <3>1 DEF DomainUsable
  <2> QED BY <2>1, <2>2
<1> QED BY <1>1, <1>3, <1>4, <1>5, <1>6 DEF Loads

=============================================================================
