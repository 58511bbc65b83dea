-------------------------- MODULE ScanStreamProofs --------------------------
(***************************************************************************)
(* Proofs of ScanStream, for any scans and any number of addresses.        *)
(*                                                                         *)
(* Every property speaks of one scan at a time, and every step but         *)
(* ServerDies is a step of one scan.  So the invariant is a predicate of a *)
(* scan (ScanInv), kept by the steps of that scan and, as nothing of it    *)
(* changes, by those of the others.                                        *)
(***************************************************************************)
EXTENDS ScanStream, TLAPS

Closing == {"cancelled", "error", "end"}
Verdicts == {"done", "cancelled", "error"}

(* The registry entry is there while a worker may ask for it.              *)
Entry(s) ==
  /\ worker[s] \in Probing => scans[s] # "absent"
  /\ worker[s] \in {"last", "ended", "killed"} => scans[s] = "absent"
  /\ stream[s] \in {"unstarted", "init"} => scans[s] # "absent" /\ worker[s] = "none"
  /\ stream[s] = "none" => worker[s] = "none"

(* A cancel in time is still to be seen by a callback, or was seen.        *)
Obeyed(s) ==
  /\ worker[s] \in Probing \cup {"none"} => stored[s] = {}
  /\ stream[s] \in {"none", "unstarted"} => ~inTime[s]
  /\ inTime[s] =>
       /\ stored[s] = {}
       /\ worker[s] # "persist"
       /\ worker[s] \in Probing \/ stream[s] = "init" => scans[s] = "cancelled"

(* What may be in the queue, by how far the worker is.                     *)
Ordered(s) ==
  \A i, j \in 1..Len(queue[s]) :
    i < j /\ queue[s][i].kind \in Closing => queue[s][i].kind # "end" /\ queue[s][j].kind = "end"

InQueue(s) ==
  /\ worker[s] \in Probing \cup {"none", "persist"} =>
       \A i \in 1..Len(queue[s]) : queue[s][i].kind \notin Closing
  /\ worker[s] \in {"finally", "last"} =>
       \A i \in 1..Len(queue[s]) : queue[s][i].kind \in Closing =>
         queue[s][i].kind # "end" /\ i = Len(queue[s])
  /\ Ordered(s)

(* A page that reads and has no verdict yet has one before it.             *)
Told(s) ==
  /\ stream[s] = "open" /\ page[s] = "scanning"
       /\ worker[s] \in {"persist", "finally", "last", "ended"}
     => \E i \in 1..Len(queue[s]) : queue[s][i].kind \in Verdicts
  /\ stream[s] \in Ahead => page[s] # "lost"
  /\ stream[s] \in {"init", "open"} => page[s] # "waiting"
  /\ stream[s] = "open" => worker[s] \notin {"none", "killed"}
  /\ stream[s] = "ended" => page[s] \notin Watching \cup {"lost"}

ScanInv(s) == Entry(s) /\ Obeyed(s) /\ InQueue(s) /\ Told(s)

IInv == TypeOK /\ \A s \in ScanIds : ScanInv(s)

----------------------------------------------------------------------------
(* The queue after a put and after a get.                                  *)
LEMMA PutFacts ==
  ASSUME NEW q \in Seq(Events), NEW e \in Events
  PROVE  /\ Append(q, e) \in Seq(Events)
         /\ Len(Append(q, e)) = Len(q) + 1
         /\ \A i \in 1..Len(q) : Append(q, e)[i] = q[i]
         /\ Append(q, e)[Len(q) + 1] = e
         /\ Len(q) \in Nat
OBVIOUS

LEMMA GetFacts ==
  ASSUME NEW q \in Seq(Events), q # <<>>
  PROVE  /\ Tail(q) \in Seq(Events)
         /\ Len(q) \in Nat \ {0}
         /\ Len(Tail(q)) = Len(q) - 1
         /\ \A i \in 1..Len(Tail(q)) : Tail(q)[i] = q[i + 1]
         /\ Head(q) = q[1] /\ q[1] \in Events
OBVIOUS

LEMMA EventType ==
  /\ \A kind \in {"checking", "found", "checked"}, h \in Addresses :
       Event(kind, h) \in Events /\ Event(kind, h).kind = kind
  /\ \A kind \in {"done", "cancelled", "error", "end"} :
       Event(kind, 0) \in Events /\ Event(kind, 0).kind = kind
BY DEF Event, Events

----------------------------------------------------------------------------
LEMMA TypeStep ==
  ASSUME TypeOK, NEW s \in ScanIds,
         OpenStream(s) \/ Cancel(s) \/ Work(s) \/ Respond(s) \/ Leave(s)
  PROVE  TypeOK'
<1> USE DEF TypeOK, workerVars, pageVars, Alive, Probing, Ahead, Watching
<1>1. offset[s] \in Addresses /\ Hosts \in Nat \ {0}
  BY ScanAssumption DEF Addresses
<1>2. ASSUME NEW e \in Events, Put(s, e)
      PROVE  queue' \in [ScanIds -> Seq(Events)]
  BY <1>2, PutFacts DEF Put
<1>3. ASSUME NEW e \in Events, NEW step \in Alive, Callback(s, e, step)
      PROVE  /\ queue' \in [ScanIds -> Seq(Events)]
             /\ worker' \in [ScanIds -> {"none", "ended", "killed"} \cup Alive]
  <2>1. Event("cancelled", 0) \in Events
    BY EventType
  <2>2. QED
    BY <1>2, <1>3, <2>1 DEF Callback, Step
<1>4. CASE OpenStream(s)
  BY <1>4 DEF OpenStream
<1>5. CASE Cancel(s)
  BY <1>5 DEF Cancel
<1>6. CASE Begin(s)
  BY <1>6 DEF Begin, Step
<1>7. CASE Checking(s)
  <2>1. PICK step \in {"checked", "found"} : Callback(s, Event("checking", offset[s]), step)
    BY <1>7 DEF Checking
  <2>2. results' \in [ScanIds -> SUBSET Addresses]
    <3>1. results' = results \/ results' = [results EXCEPT ![s] = @ \cup {offset[s]}]
      BY <1>7 DEF Checking
    <3>2. PICK R \in SUBSET Addresses : R = results[s] \cup {offset[s]}
      BY <1>1
    <3>3. results' = results \/ results' = [results EXCEPT ![s] = R]
      BY <3>1, <3>2
    <3>4. results \in [ScanIds -> SUBSET Addresses]
      OBVIOUS
    <3>5. QED
      BY <3>3, <3>4
  <2>3. step \in Alive /\ Event("checking", offset[s]) \in Events
    BY <1>1, <2>1, EventType
  <2>4. /\ queue' \in [ScanIds -> Seq(Events)]
        /\ worker' \in [ScanIds -> {"none", "ended", "killed"} \cup Alive]
    BY <1>3, <2>1, <2>3
  <2>5. QED
    BY <1>7, <2>2, <2>4 DEF Checking
<1>8. CASE Found(s)
  <2>1. /\ Callback(s, Event("found", offset[s]), "checked") /\ "checked" \in Alive
        /\ Event("found", offset[s]) \in Events
    BY <1>1, <1>8, EventType DEF Found
  <2>2. QED
    BY <1>1, <1>3, <1>8, <2>1 DEF Found
<1>9. CASE Checked(s)
  <2>1. PICK step \in {"checking", "done"} : Callback(s, Event("checked", offset[s]), step)
    BY <1>9 DEF Checked
  <2>2. step \in Alive /\ Event("checked", offset[s]) \in Events
    BY <1>1, <2>1, EventType
  <2>3. offset' \in [ScanIds -> Addresses]
    BY <1>1, <1>9 DEF Checked, Addresses
  <2>4. QED
    BY <1>1, <1>3, <1>9, <2>1, <2>2, <2>3 DEF Checked
<1>10. CASE AllProbed(s)
  <2>1. /\ Callback(s, Event("done", 0), "persist") /\ "persist" \in Alive
        /\ Event("done", 0) \in Events
    BY <1>10, EventType DEF AllProbed
  <2>2. QED
    BY <1>1, <1>3, <1>10, <2>1 DEF AllProbed
<1>11. CASE Persist(s)
  BY <1>11 DEF Persist
<1>12. CASE Persisted(s)
  BY <1>12 DEF Persisted, Step
<1>13. CASE Fail(s)
  BY <1>1, <1>2, <1>13, EventType DEF Fail, Step
<1>14. CASE Forget(s)
  BY <1>14 DEF Forget, Step
<1>15. CASE Sentinel(s)
  BY <1>1, <1>2, <1>15, EventType DEF Sentinel, Step
<1>16. CASE SendInit(s)
  BY <1>16 DEF SendInit
<1>17. CASE StartWorker(s)
  BY <1>17 DEF StartWorker, Step
<1>18. CASE Deliver(s)
  <2>1. queue[s] \in Seq(Events) /\ queue[s] # <<>>
    BY <1>18 DEF Deliver
  <2>2. Tail(queue[s]) \in Seq(Events) /\ Head(queue[s]) \in Events
    BY <2>1, GetFacts
  <2>3. PICK e \in Events : e = Head(queue[s])
    BY <2>2
  <2>4. e.kind = "found" => e.host \in Addresses
    BY DEF Events
  <2>5. announced' \in [ScanIds -> SUBSET Addresses]
    BY <1>18, <2>3, <2>4 DEF Deliver
  <2>6. Shown(e.kind) \in {"redirecting", "error", "scanning"}
    BY DEF Shown
  <2>7. page' \in [ScanIds -> Watching \cup {"none", "redirecting", "error", "lost", "left"}]
    BY <1>18, <2>3, <2>6 DEF Deliver
  <2>8. QED
    BY <1>18, <2>2, <2>5, <2>7 DEF Deliver
<1>19. CASE EndStream(s)
  BY <1>19, GetFacts DEF EndStream
<1>20. CASE DropStream(s)
  BY <1>20 DEF DropStream
<1>21. CASE Leave(s)
  BY <1>21 DEF Leave
<1>22. QED
  BY <1>4, <1>5, <1>6, <1>7, <1>8, <1>9, <1>10, <1>11, <1>12, <1>13, <1>14, <1>15, <1>16,
     <1>17, <1>18, <1>19, <1>20, <1>21 DEF Work, Respond

----------------------------------------------------------------------------
(* What ScanInv speaks of, for a scan that takes no part in a step.        *)
Same(t) ==
  /\ scans'[t] = scans[t] /\ worker'[t] = worker[t] /\ stored'[t] = stored[t]
  /\ queue'[t] = queue[t] /\ stream'[t] = stream[t] /\ page'[t] = page[t]
  /\ inTime'[t] = inTime[t]

LEMMA SameInv ==
  ASSUME NEW t \in ScanIds, ScanInv(t), Same(t)
  PROVE  ScanInv(t)'
BY DEF ScanInv, Same, Entry, Obeyed, InQueue, Ordered, Told

Others(s) == \A t \in ScanIds \ {s} : Same(t)

(* A put whose event and next step fit what InQueue and Told ask.          *)
LEMMA PutInv ==
  ASSUME TypeOK, NEW s \in ScanIds, ScanInv(s), NEW e \in Events, NEW step \in Alive,
         Put(s, e), Step(s, step), UNCHANGED <<scans, stored, stream, page, inTime>>,
         worker[s] \in Probing \cup {"persist"},
         \/ step \in Probing /\ e.kind \notin Closing
         \/ step = "persist" /\ e.kind = "done" /\ scans[s] # "cancelled"
            /\ worker[s] \in Probing
         \/ step = "finally" /\ e.kind \in {"cancelled", "error"},
         step \in Probing => worker[s] \in Probing
  PROVE  ScanInv(s)' /\ Others(s)
<1>1. PICK q \in Seq(Events) : q = queue[s]
  BY DEF TypeOK
<1>2. PICK r \in Seq(Events) : r = Append(q, e)
  BY PutFacts
<1>3. /\ Len(q) \in Nat /\ Len(r) = Len(q) + 1
      /\ \A i \in 1..Len(q) : r[i] = q[i]
      /\ r[Len(r)] = e
  BY <1>2, PutFacts
<1>4. queue'[s] = r /\ worker'[s] = step
  BY <1>1, <1>2 DEF Put, Step, TypeOK
<1>5. Others(s)
  BY DEF Others, Same, Put, Step, TypeOK
<1>6. \A i \in 1..Len(q) : q[i].kind \notin Closing
  BY <1>1 DEF ScanInv, InQueue
<1>7. \A i \in 1..Len(r) : r[i].kind \in Closing => i = Len(r) /\ e.kind \in Closing
  BY <1>3, <1>6
<1>8. e.kind # "end"
  BY DEF Closing
<1>9. InQueue(s)'
  BY <1>3, <1>4, <1>7, <1>8 DEF InQueue, Ordered, Probing, Closing
<1>10. Told(s)'
  <2>1. step \notin Probing => e.kind \in Verdicts
    BY DEF Verdicts
  <2>2. Len(r) \in 1..Len(r)
    BY <1>3
  <2>3. QED
    BY <1>3, <1>4, <2>1, <2>2 DEF ScanInv, Told, Probing, Alive
<1>11. Entry(s)' /\ Obeyed(s)'
  BY <1>4 DEF ScanInv, Entry, Obeyed, Probing, Alive
<1>12. QED
  BY <1>5, <1>9, <1>10, <1>11 DEF ScanInv

LEMMA CallbackInv ==
  ASSUME TypeOK, NEW s \in ScanIds, ScanInv(s), NEW e \in Events,
         NEW step \in Probing \cup {"persist"}, Callback(s, e, step),
         UNCHANGED <<scans, stored, stream, page, inTime>>,
         worker[s] \in Probing,
         e.kind \notin Closing, step = "persist" => e.kind = "done"
  PROVE  ScanInv(s)' /\ Others(s)
<1>1. Event("cancelled", 0) \in Events /\ Event("cancelled", 0).kind = "cancelled"
  BY EventType
<1>2. CASE scans[s] = "cancelled"
  BY <1>1, <1>2, PutInv DEF Callback, Alive, Probing
<1>3. CASE scans[s] # "cancelled"
  BY <1>3, PutInv DEF Callback, Alive
<1>4. QED
  BY <1>2, <1>3

(* A step of the worker that puts nothing.                                 *)
LEMMA QuietInv ==
  ASSUME TypeOK, NEW s \in ScanIds, ScanInv(s),
         Begin(s) \/ Persist(s) \/ Persisted(s) \/ Forget(s)
  PROVE  ScanInv(s)' /\ Others(s)
<1>1. CASE Begin(s)
  BY <1>1 DEF Begin, Step, TypeOK, workerVars, pageVars, Others, Same, ScanInv, Entry, Obeyed,
              InQueue, Ordered, Told, Probing
<1>2. CASE Persist(s)
  <2>1. /\ worker[s] = "persist"
        /\ \E h : stored' = [stored EXCEPT ![s] = @ \cup {h}]
        /\ UNCHANGED <<scans, worker, queue, stream, page, inTime>>
    BY <1>2 DEF Persist, pageVars
  <2>2. \A t \in ScanIds \ {s} : stored'[t] = stored[t]
    BY <2>1 DEF TypeOK
  <2>3. QED
    BY <2>1, <2>2 DEF Others, Same, ScanInv, Entry, Obeyed, InQueue, Ordered, Told, Probing
<1>3. CASE Persisted(s)
  BY <1>3 DEF Persisted, Step, TypeOK, workerVars, pageVars, Others, Same, ScanInv, Entry, Obeyed,
              InQueue, Ordered, Told, Probing, Closing
<1>4. CASE Forget(s)
  BY <1>4 DEF Forget, Step, TypeOK, workerVars, pageVars, Others, Same, ScanInv, Entry, Obeyed,
              InQueue, Ordered, Told, Probing
<1>5. QED
  BY <1>1, <1>2, <1>3, <1>4

LEMMA SentinelInv ==
  ASSUME TypeOK, NEW s \in ScanIds, ScanInv(s), Sentinel(s)
  PROVE  ScanInv(s)' /\ Others(s)
<1>1. PICK e \in Events : e = Event("end", 0) /\ e.kind = "end"
  BY EventType
<1>2. PICK q \in Seq(Events) : q = queue[s]
  BY DEF TypeOK
<1>3. PICK r \in Seq(Events) : r = Append(q, e)
  BY PutFacts
<1>4. /\ Len(q) \in Nat /\ Len(r) = Len(q) + 1
      /\ \A i \in 1..Len(q) : r[i] = q[i]
      /\ r[Len(r)] = e
  BY <1>3, PutFacts
<1>5. /\ queue'[s] = r /\ worker'[s] = "ended" /\ worker[s] = "last"
      /\ UNCHANGED <<scans, stored, stream, page, inTime>>
  BY <1>1, <1>2, <1>3 DEF Sentinel, Put, Step, TypeOK, pageVars
<1>6. Others(s)
  BY DEF Sentinel, Others, Same, Put, Step, TypeOK, pageVars
<1>7. \A i \in 1..Len(q) : q[i].kind \in Closing => q[i].kind # "end" /\ i = Len(q)
  BY <1>2, <1>5 DEF ScanInv, InQueue
<1>8. ASSUME NEW i \in 1..Len(r), NEW j \in 1..Len(r), i < j, r[i].kind \in Closing
      PROVE  r[i].kind # "end" /\ r[j].kind = "end"
  <2>1. i \in 1..Len(q)
    BY <1>4, <1>8
  <2>2. q[i].kind # "end" /\ i = Len(q)
    BY <1>4, <1>7, <1>8, <2>1
  <2>3. j = Len(r)
    BY <1>4, <1>8, <2>2
  <2>4. QED
    BY <1>1, <1>4, <2>1, <2>2, <2>3
<1>9. InQueue(s)'
  BY <1>5, <1>8 DEF InQueue, Ordered, Probing
<1>10. Told(s)'
  BY <1>2, <1>4, <1>5 DEF ScanInv, Told
<1>11. Entry(s)' /\ Obeyed(s)'
  BY <1>5 DEF ScanInv, Entry, Obeyed, Probing
<1>12. QED
  BY <1>6, <1>9, <1>10, <1>11 DEF ScanInv

LEMMA WorkInv ==
  ASSUME TypeOK, NEW s \in ScanIds, ScanInv(s), Work(s)
  PROVE  ScanInv(s)' /\ Others(s)
<1>1. offset[s] \in Addresses
  BY DEF TypeOK
<1>2. CASE Checking(s)
  <2>1. PICK step \in {"checked", "found"} : Callback(s, Event("checking", offset[s]), step)
    BY <1>2 DEF Checking
  <2>2. /\ worker[s] \in Probing /\ step \in Probing
        /\ UNCHANGED <<scans, stored, stream, page, inTime>>
    BY <1>2 DEF Checking, Probing, pageVars
  <2>3. Event("checking", offset[s]) \in Events /\ Event("checking", offset[s]).kind \notin Closing
    BY <1>1, EventType DEF Closing
  <2>4. QED
    BY <2>1, <2>2, <2>3, CallbackInv DEF Probing
<1>3. CASE Found(s)
  <2>1. /\ Callback(s, Event("found", offset[s]), "checked")
        /\ worker[s] \in Probing /\ "checked" \in Probing
        /\ UNCHANGED <<scans, stored, stream, page, inTime>>
    BY <1>3 DEF Found, Probing, pageVars
  <2>2. Event("found", offset[s]) \in Events /\ Event("found", offset[s]).kind \notin Closing
    BY <1>1, EventType DEF Closing
  <2>3. QED
    BY <2>1, <2>2, CallbackInv
<1>4. CASE Checked(s)
  <2>1. PICK step \in {"checking", "done"} : Callback(s, Event("checked", offset[s]), step)
    BY <1>4 DEF Checked
  <2>2. /\ worker[s] \in Probing /\ step \in Probing
        /\ UNCHANGED <<scans, stored, stream, page, inTime>>
    BY <1>4 DEF Checked, Probing, pageVars
  <2>3. Event("checked", offset[s]) \in Events /\ Event("checked", offset[s]).kind \notin Closing
    BY <1>1, EventType DEF Closing
  <2>4. QED
    BY <2>1, <2>2, <2>3, CallbackInv DEF Probing
<1>5. CASE AllProbed(s)
  <2>1. /\ Callback(s, Event("done", 0), "persist") /\ worker[s] \in Probing
        /\ UNCHANGED <<scans, stored, stream, page, inTime>>
    BY <1>5 DEF AllProbed, Probing, pageVars
  <2>2. Event("done", 0) \in Events /\ Event("done", 0).kind = "done"
    BY EventType
  <2>3. QED
    BY <2>1, <2>2, CallbackInv DEF Closing
<1>6. CASE Fail(s)
  <2>1. /\ Put(s, Event("error", 0)) /\ Step(s, "finally")
        /\ worker[s] \in Probing \cup {"persist"}
        /\ UNCHANGED <<scans, stored, stream, page, inTime>>
    BY <1>6 DEF Fail, Probing, pageVars
  <2>2. Event("error", 0) \in Events /\ Event("error", 0).kind = "error"
    BY EventType
  <2>3. QED
    BY <2>1, <2>2, PutInv DEF Alive, Probing
<1>7. QED
  BY <1>2, <1>3, <1>4, <1>5, <1>6, QuietInv, SentinelInv DEF Work

----------------------------------------------------------------------------
(* The routes, and what of the generator and the page leaves the queue.    *)
LEMMA RouteInv ==
  ASSUME TypeOK, NEW s \in ScanIds, ScanInv(s),
         OpenStream(s) \/ Cancel(s) \/ SendInit(s) \/ StartWorker(s) \/ DropStream(s) \/ Leave(s)
  PROVE  ScanInv(s)' /\ Others(s)
<1> USE DEF TypeOK, workerVars, pageVars, Others, Same, ScanInv, Entry, Obeyed, InQueue, Ordered,
            Told, Probing, Ahead, Watching
<1>1. CASE OpenStream(s)
  BY <1>1 DEF OpenStream
<1>2. CASE Cancel(s)
  BY <1>2 DEF Cancel
<1>3. CASE SendInit(s)
  <2>1. /\ stream[s] = "unstarted" /\ stream'[s] = "init"
        /\ page'[s] = IF page[s] = "waiting" THEN "scanning" ELSE page[s]
        /\ UNCHANGED <<scans, worker, stored, queue, inTime>>
    BY <1>3 DEF SendInit
  <2>2. Others(s)
    BY <1>3 DEF SendInit
  <2>3. Entry(s)' /\ Obeyed(s)' /\ InQueue(s)'
    BY <2>1
  <2>4. Told(s)'
    BY <2>1
  <2>5. QED
    BY <2>2, <2>3, <2>4
<1>4. CASE StartWorker(s)
  BY <1>4 DEF StartWorker, Step
<1>5. CASE DropStream(s)
  BY <1>5 DEF DropStream
<1>6. CASE Leave(s)
  BY <1>6 DEF Leave
<1>7. QED
  BY <1>1, <1>2, <1>3, <1>4, <1>5, <1>6

LEMMA DeliverInv ==
  ASSUME TypeOK, NEW s \in ScanIds, ScanInv(s), Deliver(s)
  PROVE  ScanInv(s)' /\ Others(s)
<1>1. PICK q \in Seq(Events) : q = queue[s] /\ q # <<>>
  BY DEF Deliver, TypeOK
<1>2. PICK r \in Seq(Events) : r = Tail(q)
  BY <1>1, GetFacts
<1>3. /\ Len(q) \in Nat \ {0} /\ Len(r) = Len(q) - 1
      /\ \A i \in 1..Len(r) : r[i] = q[i + 1]
      /\ Head(q) = q[1] /\ q[1] \in Events
  BY <1>1, <1>2, GetFacts
<1>4. /\ queue'[s] = r /\ q[1].kind # "end" /\ stream[s] = "open"
      /\ page'[s] = IF page[s] = "scanning" THEN Shown(q[1].kind) ELSE page[s]
      /\ UNCHANGED <<scans, worker, stored, stream, inTime>>
  BY <1>1, <1>2, <1>3 DEF Deliver, TypeOK, workerVars
<1>5. Others(s)
  BY DEF Deliver, TypeOK, Others, Same, workerVars
<1>6. \A i \in 1..Len(r) : i + 1 \in 1..Len(q)
  BY <1>3
<1>7. InQueue(s)'
  <2>1. \A i \in 1..Len(r) : i = Len(r) <=> i + 1 = Len(q)
    BY <1>3
  <2>2. worker[s] \in Probing \cup {"none", "persist"} =>
          \A i \in 1..Len(r) : r[i].kind \notin Closing
    BY <1>1, <1>3, <1>6 DEF ScanInv, InQueue
  <2>3. worker[s] \in {"finally", "last"} =>
          \A i \in 1..Len(r) : r[i].kind \in Closing => r[i].kind # "end" /\ i = Len(r)
    BY <1>1, <1>3, <1>6, <2>1 DEF ScanInv, InQueue
  <2>4. ASSUME NEW i \in 1..Len(r), NEW j \in 1..Len(r), i < j, r[i].kind \in Closing
        PROVE  r[i].kind # "end" /\ r[j].kind = "end"
    <3>1. i + 1 < j + 1 /\ q[i + 1].kind \in Closing
      BY <1>3, <2>4
    <3>2. q[i + 1].kind # "end" /\ q[j + 1].kind = "end"
      BY <1>1, <1>6, <3>1 DEF ScanInv, InQueue, Ordered
    <3>3. QED
      BY <1>3, <3>2
  <2>5. QED
    BY <1>4, <2>2, <2>3, <2>4 DEF InQueue, Ordered
<1>8. Told(s)'
  <2>1. ASSUME page'[s] = "scanning", worker[s] \in {"persist", "finally", "last", "ended"}
        PROVE  \E i \in 1..Len(r) : r[i].kind \in Verdicts
    <3>1. page[s] = "scanning" /\ q[1].kind \notin Verdicts
      <4>1. page[s] = "scanning"
        BY <1>4, <2>1
      <4>2. Shown(q[1].kind) = "scanning"
        BY <1>4, <2>1, <4>1
      <4>3. QED
        BY <4>1, <4>2 DEF Shown, Verdicts
    <3>2. PICK k \in 1..Len(q) : q[k].kind \in Verdicts
      BY <1>1, <1>4, <2>1, <3>1 DEF ScanInv, Told
    <3>3. k # 1
      BY <3>1, <3>2
    <3>4. k - 1 \in 1..Len(r) /\ r[k - 1] = q[k]
      BY <1>3, <3>2, <3>3
    <3>5. QED
      BY <3>2, <3>4
  <2>2. page'[s] \in {page[s], "redirecting", "error", "scanning"}
    BY <1>4 DEF Shown
  <2>3. QED
    BY <1>4, <2>1, <2>2 DEF ScanInv, Told, Ahead
<1>9. Entry(s)' /\ Obeyed(s)'
  BY <1>4 DEF ScanInv, Entry, Obeyed
<1>10. QED
  BY <1>5, <1>7, <1>8, <1>9 DEF ScanInv

(* The sentinel is the last event, so a page that is still reading would   *)
(* have no verdict left to come.                                           *)
LEMMA EndStreamInv ==
  ASSUME TypeOK, NEW s \in ScanIds, ScanInv(s), EndStream(s)
  PROVE  ScanInv(s)' /\ Others(s)
<1>1. PICK q \in Seq(Events) : q = queue[s] /\ q # <<>>
  BY DEF EndStream, TypeOK
<1>2. PICK r \in Seq(Events) : r = Tail(q)
  BY <1>1, GetFacts
<1>3. /\ Len(q) \in Nat \ {0} /\ Len(r) = Len(q) - 1
      /\ Head(q) = q[1] /\ 1 \in 1..Len(q)
  BY <1>1, <1>2, GetFacts
<1>4. /\ queue'[s] = r /\ q[1].kind = "end" /\ stream[s] = "open" /\ stream'[s] = "ended"
      /\ page'[s] = IF page[s] = "scanning" THEN "lost" ELSE page[s]
      /\ UNCHANGED <<scans, worker, stored, inTime>>
  BY <1>1, <1>2, <1>3 DEF EndStream, TypeOK, workerVars
<1>5. Others(s)
  BY DEF EndStream, TypeOK, Others, Same, workerVars
<1>6. worker[s] = "ended"
  BY <1>1, <1>3, <1>4 DEF ScanInv, InQueue, Told, Closing, TypeOK, Alive, Probing
<1>7. Len(q) = 1
  <2>1. ASSUME Len(q) > 1
        PROVE  FALSE
    <3>1. 2 \in 1..Len(q)
      BY <1>3, <2>1
    <3>2. QED
      BY <1>1, <1>3, <1>4, <3>1 DEF ScanInv, InQueue, Ordered, Closing
  <2>2. QED
    BY <1>3, <2>1
<1>8. page[s] # "scanning"
  BY <1>1, <1>4, <1>6, <1>7 DEF ScanInv, Told, Verdicts
<1>9. InQueue(s)'
  <2>1. 1..Len(r) = {}
    BY <1>3, <1>7
  <2>2. QED
    BY <1>4, <2>1 DEF InQueue, Ordered
<1>10. Told(s)' /\ Entry(s)' /\ Obeyed(s)'
  BY <1>4, <1>6, <1>8 DEF ScanInv, Told, Entry, Obeyed, Ahead, Watching, Probing
<1>11. QED
  BY <1>5, <1>9, <1>10 DEF ScanInv

(* The end of the server ends every scan.                                  *)
LEMMA ServerDiesInv ==
  ASSUME IInv, ServerDies
  PROVE  IInv'
<1> USE DEF TypeOK, Alive, Probing, Ahead, Watching
<1>1. TypeOK'
  BY DEF IInv, ServerDies
<1>2. ASSUME NEW s \in ScanIds
      PROVE  ScanInv(s)'
  <2>1. /\ scans'[s] = "absent" /\ queue'[s] = <<>>
        /\ worker'[s] = IF worker[s] \in Alive THEN "killed" ELSE worker[s]
        /\ stream'[s] = IF stream[s] \in Ahead THEN "dropped" ELSE stream[s]
        /\ page'[s] = IF page[s] \in Watching THEN "lost" ELSE page[s]
        /\ UNCHANGED <<stored, inTime>>
    BY DEF ServerDies
  <2>2. worker[s] \in {"none", "ended", "killed"} \cup Alive
    BY DEF IInv
  <2>3. ScanInv(s)
    BY DEF IInv
  <2>4. InQueue(s)'
    <3>1. 1..Len(queue'[s]) = {}
      BY <2>1
    <3>2. QED
      BY <3>1 DEF InQueue, Ordered
  <2>5. Entry(s)' /\ Obeyed(s)' /\ Told(s)'
    BY <2>1, <2>2, <2>3 DEF ScanInv, Entry, Obeyed, Told
  <2>6. QED
    BY <2>4, <2>5 DEF ScanInv
<1>3. QED
  BY <1>1, <1>2 DEF IInv

----------------------------------------------------------------------------
LEMMA InitIInv ==
  ASSUME Init
  PROVE  IInv
<1>1. 1 \in Addresses
  BY ScanAssumption DEF Addresses
<1>2. <<>> \in Seq(Events) /\ 1..Len(<<>>) = {}
  OBVIOUS
<1>3. TypeOK
  BY <1>1, <1>2 DEF Init, TypeOK
<1>4. ASSUME NEW s \in ScanIds
      PROVE  ScanInv(s)
  <2>1. /\ worker[s] = "none" /\ stream[s] = "none" /\ page[s] = "none" /\ stored[s] = {}
        /\ inTime[s] = FALSE /\ queue[s] = <<>>
    BY DEF Init
  <2>2. InQueue(s)
    BY <1>2, <2>1 DEF InQueue, Ordered
  <2>3. Entry(s) /\ Obeyed(s) /\ Told(s)
    BY <2>1 DEF Entry, Obeyed, Told, Probing, Ahead
  <2>4. QED
    BY <2>2, <2>3 DEF ScanInv
<1>5. QED
  BY <1>3, <1>4 DEF IInv

LEMMA NextIInv ==
  ASSUME IInv, [Next]_vars
  PROVE  IInv'
<1>1. ASSUME NEW s \in ScanIds,
             OpenStream(s) \/ Cancel(s) \/ Work(s) \/ Respond(s) \/ Leave(s)
      PROVE  IInv'
  <2>1. TypeOK /\ ScanInv(s)
    BY DEF IInv
  <2>2. TypeOK'
    BY <1>1, <2>1, TypeStep
  <2>3. ScanInv(s)' /\ Others(s)
    BY <1>1, <2>1, WorkInv, RouteInv, DeliverInv, EndStreamInv DEF Respond
  <2>4. ASSUME NEW t \in ScanIds \ {s}
        PROVE  ScanInv(t)'
    BY <2>3, <2>4, SameInv DEF IInv, Others
  <2>5. QED
    BY <2>2, <2>3, <2>4 DEF IInv
<1>2. CASE ServerDies
  BY <1>2, ServerDiesInv
<1>3. CASE UNCHANGED vars
  <2>1. TypeOK' /\ \A t \in ScanIds : Same(t)
    BY <1>3 DEF vars, workerVars, pageVars, IInv, TypeOK, Same
  <2>2. QED
    BY <2>1, SameInv DEF IInv
<1>4. QED
  BY <1>1, <1>2, <1>3 DEF Next

LEMMA Invariance == Spec => []IInv
<1>1. Init => IInv
  BY InitIInv
<1>2. IInv /\ [Next]_vars => IInv'
  BY NextIInv
<1>3. QED
  BY <1>1, <1>2, PTL DEF Spec

(* The state of the scans is well typed.                                   *)
THEOREM TypeCorrect == Spec => []TypeOK
<1>1. IInv => TypeOK
  BY DEF IInv
<1>2. QED
  BY <1>1, Invariance, PTL

(* A cancel before the last progress callback keeps every printer out of   *)
(* the registry, wherever it lands in the probe loop and however many      *)
(* addresses that has.                                                     *)
THEOREM CancelObeyed == Spec => []CancelInTime
<1>1. IInv => CancelInTime
  BY DEF IInv, ScanInv, Obeyed, CancelInTime
<1>2. QED
  BY <1>1, Invariance, PTL

(* The entry of a scan in network_scans is there as long as its worker can *)
(* be stopped, and gone when it has ended.                                 *)
THEOREM EntriesFollow == Spec => []EntryFollowsWorker
<1>1. IInv => EntryFollowsWorker
  BY DEF IInv, ScanInv, Entry, EntryFollowsWorker
<1>2. QED
  BY <1>1, Invariance, PTL

(* A stream that runs to its sentinel has told its page the outcome.       *)
THEOREM VerdictGiven == Spec => []VerdictBeforeEnd
<1>1. IInv => VerdictBeforeEnd
  BY DEF IInv, ScanInv, Told, VerdictBeforeEnd
<1>2. QED
  BY <1>1, Invariance, PTL

(* Nothing is put after the sentinel, and nothing but the sentinel after a *)
(* verdict that ends the worker.                                           *)
THEOREM EndIsLast == Spec => []NothingAfterTheEnd
<1>1. ASSUME IInv
      PROVE  NothingAfterTheEnd
  <2>1. \A s \in ScanIds : DOMAIN queue[s] = 1..Len(queue[s])
    <3>1. \A q \in Seq(Events) : DOMAIN q = 1..Len(q)
      OBVIOUS
    <3>2. QED
      BY <1>1, <3>1 DEF IInv, TypeOK
  <2>2. QED
    BY <1>1, <2>1 DEF IInv, ScanInv, InQueue, Ordered, Closing, NothingAfterTheEnd
<1>2. QED
  BY <1>1, Invariance, PTL
=============================================================================
