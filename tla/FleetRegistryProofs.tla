------------------------ MODULE FleetRegistryProofs ------------------------
(***************************************************************************)
(* Proofs about FleetRegistry, for any actors, printers and payloads.      *)
(*                                                                         *)
(* An actor owes something for the step it is at and the job it carries:   *)
(* JobOK.  Only Commit changes rows, so that every other step is a Move of *)
(* one actor, and keeps what the others owe.                               *)
(***************************************************************************)
EXTENDS FleetRegistry, TLAPS

(* The parts of a job a later step relies on.                              *)
InPlace(s, w) ==
  /\ s \in {"query", "reconcile", "find", "commit", "observe"} => w.payload \in Payloads
  /\ s \in {"query", "reconcile"} => w.url \in Euids /\ w.kind = "sync"
  /\ s \in {"next", "observe"} => w.kind = "discover"
  /\ s \in {"find", "commit"} /\ w.kind = "patch" => w.url \in Euids /\ Exists(w.url)

(* The row an upsert has found is of the name it writes.                   *)
Targeted(s, w) ==
  s = "commit" /\ w.target # NoEuid =>
    Exists(w.target) /\ rows[w.target].name = w.payload.name

(* A sync that goes on has left its observation, and its drift.            *)
Traced(s, w) ==
  LET seen == [name |-> w.payload.name, serial |-> w.read, read |-> w.read]
  IN /\ s = "reconcile" => seen \in observations
     /\ s \in {"find", "commit"} /\ w.kind = "sync" =>
          /\ seen \in observations
          /\ Mismatch(w.payload, w.read) =>
               [euid |-> w.url, curated |-> w.payload.serial, read |-> w.read] \in drifts

(* What is to be written is what was read, with a blank filled.            *)
Based(s, w) ==
  /\ s \in {"query", "reconcile"} => w.base = w.payload
  /\ s \in {"find", "commit"} /\ w.kind # "patch" =>
       w.base = NoRow \/ \E x \in Fingerprints : w.payload = Fill(w.base, x)

(* Who is about to insert a name, as the only one, inserts the first row.  *)
FirstOf(s, w) ==
  s = "commit" /\ w.target = NoEuid /\ w.payload.name \notin collided =>
    Named(w.payload.name) = {}

(* A PATCH has found its row if that is the only one of its name.          *)
OnTarget(s, w) ==
  s = "commit" /\ w.kind = "patch" /\ Named(w.payload.name) = {w.url} => w.target = w.url

JobOK(s, w) ==
  /\ InPlace(s, w) /\ Targeted(s, w) /\ Traced(s, w)
  /\ Based(s, w) /\ FirstOf(s, w) /\ OnTarget(s, w)

JobsOK == \A a \in Actors : JobOK(pc[a], job[a])

(* Two operations about to insert one name have been noticed.              *)
Lone == \A n \in Names \ collided : \A a, b \in Inserting(n) : a = b

IInv == TypeOK /\ OneRowPerName /\ Lone /\ JobsOK

----------------------------------------------------------------------------
(* One actor moves on and the rows stay.                                   *)
Move(a, s, w) ==
  /\ pc' = [pc EXCEPT ![a] = s]
  /\ job' = [job EXCEPT ![a] = w]
  /\ rows' = rows

LEMMA MoveIInv ==
  ASSUME NEW a \in Actors, NEW s \in Steps, NEW w \in Jobs,
         IInv, Move(a, s, w),
         observations' \subseteq Observations, observations \subseteq observations',
         drifts' \subseteq Drifts, drifts \subseteq drifts',
         started' \in Nat, collided' \subseteq Names, collided \subseteq collided',
         s = "commit" /\ w.target = NoEuid /\ w.payload.name \notin collided' =>
           Inserting(w.payload.name) = {},
         JobOK(s, w)'
  PROVE  IInv'
<1> USE DEF IInv, Move
<1>1. TypeOK'
  BY DEF TypeOK
<1>2. OneRowPerName'
  BY DEF OneRowPerName, Named, Exists
<1>3. Lone'
  <2> SUFFICES ASSUME NEW n \in Names \ collided', NEW b \in Inserting(n)', NEW c \in Inserting(n)'
               PROVE  b = c
    BY DEF Lone
  <2>1. \A d \in Actors : d # a => pc'[d] = pc[d] /\ job'[d] = job[d]
    BY DEF TypeOK
  <2>2. pc'[a] = s /\ job'[a] = w
    BY DEF TypeOK
  <2>3. \A d \in Inserting(n)' : d # a => d \in Inserting(n)
    BY <2>1 DEF Inserting
  <2>4. a \in Inserting(n)' => Inserting(n) = {}
    BY <2>2 DEF Inserting
  <2>5. QED
    BY <2>3, <2>4 DEF Lone
<1>4. ASSUME NEW b \in Actors  PROVE JobOK(pc[b], job[b])'
  <2>1. CASE b = a
    <3>1. pc'[b] = s /\ job'[b] = w
      BY <2>1 DEF TypeOK
    <3>2. QED
      BY <3>1 DEF JobOK, InPlace, Targeted, Traced, Mismatch, Based, FirstOf, OnTarget, Named,
                  Exists
  <2>2. CASE b # a
    <3>1. pc'[b] = pc[b] /\ job'[b] = job[b]
      BY <2>2 DEF TypeOK
    <3>2. JobOK(pc[b], job[b])
      BY DEF JobsOK
    <3>3. InPlace(pc[b], job[b])' /\ Targeted(pc[b], job[b])'
      BY <3>1, <3>2 DEF JobOK, InPlace, Targeted, Exists
    <3>4. Traced(pc[b], job[b])'
      BY <3>1, <3>2 DEF JobOK, Traced, Mismatch
    <3>5. Based(pc[b], job[b])'
      BY <3>1, <3>2 DEF JobOK, Based
    <3>6. FirstOf(pc[b], job[b])' /\ OnTarget(pc[b], job[b])'
      BY <3>1, <3>2 DEF JobOK, FirstOf, OnTarget, Named, Exists
    <3>7. QED
      BY <3>3, <3>4, <3>5, <3>6 DEF JobOK
  <2>3. QED
    BY <2>1, <2>2
<1>5. QED
  BY <1>1, <1>2, <1>3, <1>4 DEF JobsOK

(* An actor starts an operation.                                           *)
LEMMA StartIInv ==
  ASSUME NEW a \in Actors, NEW s \in Steps \ {"commit"}, NEW w \in Jobs,
         IInv, Start(a, s, w), UNCHANGED <<rows, observations, drifts>>,
         JobOK(s, w)'
  PROVE  IInv'
<1>1. Move(a, s, w) /\ collided' = collided /\ started' = started + 1
  BY DEF Start, Move
<1>2. started' \in Nat /\ collided' \subseteq Names
  BY <1>1 DEF IInv, TypeOK
<1>3. QED
  BY <1>1, <1>2, MoveIInv DEF IInv, TypeOK

(* A busy actor takes a step that is not of an upsert.                     *)
LEMMA GoIInv ==
  ASSUME NEW a \in Actors, NEW s \in Steps \ {"commit"}, NEW w \in Jobs,
         IInv, Go(a, s, w), rows' = rows,
         observations' \subseteq Observations, observations \subseteq observations',
         drifts' \subseteq Drifts, drifts \subseteq drifts',
         JobOK(s, w)'
  PROVE  IInv'
<1>1. Move(a, s, w) /\ collided' = collided /\ started' = started
  BY DEF Go, Move
<1>2. started' \in Nat /\ collided' \subseteq Names
  BY <1>1 DEF IInv, TypeOK
<1>3. QED
  BY <1>1, <1>2, MoveIInv

(* An operation that is over, or a scan between two printers, owes nothing.*)
LEMMA OwesNothing ==
  ASSUME NEW s \in {"idle", "next"}, NEW w, s = "next" => w.kind = "discover"
  PROVE  JobOK(s, w)'
BY DEF JobOK, InPlace, Targeted, Traced, Based, FirstOf, OnTarget

(* Filling gives a payload of the same name.                               *)
LEMMA FillType ==
  ASSUME NEW p \in Payloads, NEW x \in Fingerprints
  PROVE  Fill(p, x) \in Payloads /\ Fill(p, x).name = p.name
BY DEF Fill, Payloads

LEMMA NoJobType == NoJob \in Jobs
BY DEF NoJob, Jobs, Kinds, Fingerprints

----------------------------------------------------------------------------
LEMMA InitIInv == Init => IInv
<1> SUFFICES ASSUME Init  PROVE IInv
  OBVIOUS
<1>1. TypeOK
  BY NoJobType, FleetAssumption DEF Init, TypeOK, Steps
<1>2. OneRowPerName /\ Lone
  BY DEF Init, OneRowPerName, Named, Exists, Lone, Inserting
<1>3. JobsOK
  BY DEF Init, JobsOK, JobOK, InPlace, Targeted, Traced, Based, FirstOf, OnTarget
<1>4. QED
  BY <1>1, <1>2, <1>3 DEF IInv

(* Operations that start.                                                  *)
LEMMA PatchReadIInv ==
  ASSUME NEW a \in Actors, IInv, PatchRead(a)
  PROVE  IInv'
<1>1. PICK e \in Euids : Exists(e) /\ \E p \in Changed(rows[e]) :
        Start(a, "find", [NoJob EXCEPT !.kind = "patch", !.url = e, !.payload = p])
  BY DEF PatchRead
<1>2. PICK p \in Changed(rows[e]) :
        Start(a, "find", [NoJob EXCEPT !.kind = "patch", !.url = e, !.payload = p])
  BY <1>1
<1> DEFINE w == [NoJob EXCEPT !.kind = "patch", !.url = e, !.payload = p]
<1>3. rows[e] \in Payloads
  BY <1>1 DEF Exists, IInv, TypeOK
<1>4. p \in Payloads
  BY <1>3 DEF Changed, Payloads
<1>5. /\ w \in Jobs /\ w.kind = "patch" /\ w.url = e /\ w.payload = p
      /\ UNCHANGED <<rows, observations, drifts>>
  BY <1>4 DEF NoJob, Jobs, Kinds, Fingerprints, PatchRead
<1> HIDE DEF w
<1>6. JobOK("find", w)'
  BY <1>1, <1>4, <1>5 DEF JobOK, InPlace, Targeted, Traced, Based, FirstOf, OnTarget, Exists
<1>7. QED
  BY <1>2, <1>5, <1>6, StartIInv DEF w, Steps

LEMMA SyncReadIInv ==
  ASSUME NEW a \in Actors, IInv, SyncRead(a)
  PROVE  IInv'
<1>1. PICK e \in Euids :
        /\ Exists(e)
        /\ Start(a, "query", [NoJob EXCEPT !.kind = "sync", !.url = e, !.base = rows[e],
                                           !.payload = rows[e]])
  BY DEF SyncRead
<1>2. PICK p \in Payloads : p = rows[e]
  BY <1>1 DEF Exists, IInv, TypeOK
<1> DEFINE w == [NoJob EXCEPT !.kind = "sync", !.url = e, !.base = p, !.payload = p]
<1>3. /\ w \in Jobs /\ w.kind = "sync" /\ w.url = e /\ w.base = p /\ w.payload = p
      /\ UNCHANGED <<rows, observations, drifts>>
  BY DEF NoJob, Jobs, Kinds, Fingerprints, SyncRead
<1> HIDE DEF w
<1>4. JobOK("query", w)'
  BY <1>3 DEF JobOK, InPlace, Targeted, Traced, Based, FirstOf, OnTarget
<1>5. QED
  BY <1>1, <1>2, <1>3, <1>4, StartIInv DEF w, Steps

LEMMA ScanStartIInv ==
  ASSUME NEW a \in Actors, IInv, ScanStart(a)
  PROVE  IInv'
<1>1. PICK D \in SUBSET Devices : \E answer \in [D -> Fingerprints] :
        Start(a, "next", [NoJob EXCEPT !.kind = "discover",
                            !.todo = {[name |-> d, serial |-> answer[d]] : d \in D}])
  BY DEF ScanStart
<1>2. PICK answer \in [D -> Fingerprints] :
        Start(a, "next", [NoJob EXCEPT !.kind = "discover",
                            !.todo = {[name |-> d, serial |-> answer[d]] : d \in D}])
  BY <1>1
<1> DEFINE T == {[name |-> d, serial |-> answer[d]] : d \in D}
           w == [NoJob EXCEPT !.kind = "discover", !.todo = T]
<1>3. T \subseteq Found
  BY DEF Found
<1>4. w \in Jobs /\ w.kind = "discover" /\ UNCHANGED <<rows, observations, drifts>>
  BY <1>3 DEF NoJob, Jobs, Kinds, Fingerprints, ScanStart
<1> HIDE DEF w
<1>5. JobOK("next", w)'
  BY <1>4, OwesNothing
<1>6. QED
  BY <1>2, <1>4, <1>5, StartIInv DEF w, Steps

----------------------------------------------------------------------------
(* Steps of an operation under way.                                        *)
LEMMA SyncObserveIInv ==
  ASSUME NEW a \in Actors, IInv, SyncObserve(a)
  PROVE  IInv'
<1>1. PICK x \in Fingerprints :
        /\ Go(a, "reconcile", [job[a] EXCEPT !.read = x])
        /\ observations' = observations \cup
             {[name |-> job[a].payload.name, serial |-> x, read |-> x]}
  BY DEF SyncObserve
<1>2. pc[a] = "query" /\ UNCHANGED <<rows, drifts>>
  BY DEF SyncObserve
<1>3. job[a] \in Jobs /\ JobOK("query", job[a])
  BY <1>2 DEF IInv, TypeOK, JobsOK
<1>4. PICK w \in Jobs : w = [job[a] EXCEPT !.read = x]
  BY <1>3 DEF Jobs
<1>5. /\ w.payload = job[a].payload /\ w.kind = "sync" /\ w.url \in Euids /\ w.read = x
      /\ w.payload \in Payloads /\ w.base = w.payload
  BY <1>3, <1>4 DEF JobOK, InPlace, Based, Jobs
<1>6. observations' \subseteq Observations
  BY <1>1, <1>5 DEF IInv, TypeOK, Observations, Payloads
<1>7. JobOK("reconcile", w)'
  BY <1>1, <1>5 DEF JobOK, InPlace, Targeted, Traced, Based, FirstOf, OnTarget
<1>8. drifts' \subseteq Drifts
  BY <1>2 DEF IInv, TypeOK
<1>9. QED
  BY <1>1, <1>2, <1>4, <1>6, <1>7, <1>8, GoIInv DEF Steps

LEMMA SyncObserveFailsIInv ==
  ASSUME NEW a \in Actors, IInv, SyncObserveFails(a)
  PROVE  IInv'
<1>1. pc[a] = "query" /\ Go(a, "idle", NoJob) /\ UNCHANGED <<rows, observations>>
  BY DEF SyncObserveFails
<1>2. job[a].url \in Euids
  BY <1>1 DEF IInv, JobsOK, JobOK, InPlace
<1>3. drifts' \subseteq Drifts /\ drifts \subseteq drifts'
  BY <1>2 DEF SyncObserveFails, IInv, TypeOK, Drifts, Fingerprints
<1>4. JobOK("idle", NoJob)' /\ NoJob \in Jobs /\ "idle" \in Steps \ {"commit"}
  BY OwesNothing, NoJobType DEF Steps
<1>5. observations' \subseteq Observations
  BY <1>1 DEF IInv, TypeOK
<1>6. QED
  BY <1>1, <1>3, <1>4, <1>5, GoIInv

LEMMA ReconcileIInv ==
  ASSUME NEW a \in Actors, IInv, Reconcile(a)
  PROVE  IInv'
<1>1. /\ pc[a] = "reconcile" /\ UNCHANGED <<rows, observations>>
      /\ Go(a, "find", [job[a] EXCEPT !.payload = Fill(job[a].payload, job[a].read)])
  BY DEF Reconcile
<1>2. job[a] \in Jobs /\ JobOK("reconcile", job[a])
  BY <1>1 DEF IInv, TypeOK, JobsOK
<1>3. PICK p \in Payloads : p = job[a].payload
  BY <1>2 DEF JobOK, InPlace
<1>4. PICK x \in Fingerprints : x = job[a].read
  BY <1>2 DEF Jobs
<1>5. PICK q \in Payloads : q = Fill(p, x)
  BY FillType
<1>6. PICK w \in Jobs : w = [job[a] EXCEPT !.payload = q]
  BY <1>2, <1>5 DEF Jobs
<1>7. /\ w.payload = q /\ w.read = x /\ w.kind = "sync" /\ w.base = p
      /\ w.url \in Euids /\ w.url = job[a].url
  BY <1>2, <1>3, <1>4, <1>6 DEF JobOK, InPlace, Based, Jobs
<1>8. q.name = p.name /\ (Mismatch(q, x) => q = p)
  BY <1>3, <1>4, <1>5 DEF Fill, Mismatch, Payloads
<1>9. drifts' = IF Mismatch(p, x)
                THEN drifts \cup {[euid |-> w.url, curated |-> p.serial, read |-> x]}
                ELSE drifts
  BY <1>3, <1>4, <1>7 DEF Reconcile
<1>10. drifts' \subseteq Drifts /\ drifts \subseteq drifts'
  BY <1>3, <1>4, <1>7, <1>9 DEF Drifts, Payloads, IInv, TypeOK
<1>11. Traced("find", w)'
  <2>1. [name |-> q.name, serial |-> x, read |-> x] \in observations'
    BY <1>1, <1>2, <1>3, <1>4, <1>8 DEF JobOK, Traced
  <2>2. Mismatch(q, x) => [euid |-> w.url, curated |-> q.serial, read |-> x] \in drifts'
    BY <1>8, <1>9
  <2>3. QED
    BY <2>1, <2>2, <1>7 DEF Traced
<1>12. Based("find", w)'
  BY <1>5, <1>7 DEF Based
<1>13. JobOK("find", w)'
  BY <1>7, <1>11, <1>12 DEF JobOK, InPlace, Targeted, FirstOf, OnTarget
<1>14. Go(a, "find", w) /\ "find" \in Steps \ {"commit"}
  BY <1>1, <1>3, <1>4, <1>5, <1>6 DEF Steps
<1>15. observations' \subseteq Observations /\ observations \subseteq observations' /\ rows' = rows
  BY <1>1 DEF IInv, TypeOK
<1>16. QED
  BY <1>10, <1>13, <1>14, <1>15, GoIInv

LEMMA ScanObserveIInv ==
  ASSUME NEW a \in Actors, IInv, ScanObserve(a)
  PROVE  IInv'
<1>1. /\ pc[a] = "observe" /\ UNCHANGED <<rows, drifts>>
      /\ Go(a, "next", [NoJob EXCEPT !.kind = "discover", !.todo = job[a].todo])
  BY DEF ScanObserve
<1>2. job[a] \in Jobs /\ job[a].payload \in Payloads
  BY <1>1 DEF IInv, TypeOK, JobsOK, JobOK, InPlace
<1>3. PICK w \in Jobs :
        w = [NoJob EXCEPT !.kind = "discover", !.todo = job[a].todo] /\ w.kind = "discover"
  <2> DEFINE v == [NoJob EXCEPT !.kind = "discover", !.todo = job[a].todo]
  <2>1. job[a].todo \in SUBSET Found
    BY <1>2 DEF Jobs
  <2>2. v \in Jobs /\ v.kind = "discover"
    BY <2>1 DEF NoJob, Jobs, Kinds, Fingerprints
  <2>3. QED
    BY <2>2
<1>4. observations' \subseteq Observations /\ observations \subseteq observations'
  BY <1>2 DEF ScanObserve, IInv, TypeOK, Observations, Payloads, Jobs
<1>5. JobOK("next", w)' /\ "next" \in Steps \ {"commit"}
  BY <1>3, OwesNothing DEF Steps
<1>6. drifts' \subseteq Drifts
  BY <1>1 DEF IInv, TypeOK
<1>7. QED
  BY <1>1, <1>3, <1>4, <1>5, <1>6, GoIInv

(* A scan, or any operation, that ends.                                    *)
LEMMA EndIInv ==
  ASSUME NEW a \in Actors, IInv, ScanEnd(a) \/ Abort(a)
  PROVE  IInv'
<1>1. pc[a] # "idle" /\ Go(a, "idle", NoJob) /\ UNCHANGED <<rows, observations, drifts>>
  BY DEF ScanEnd, Abort
<1>2. JobOK("idle", NoJob)' /\ NoJob \in Jobs /\ "idle" \in Steps \ {"commit"}
  BY OwesNothing, NoJobType DEF Steps
<1>3. QED
  BY <1>1, <1>2, GoIInv DEF IInv, TypeOK

(* The scan's next printer: a draft, or what the registry has, filled.     *)
LEMMA ScanReadIInv ==
  ASSUME NEW a \in Actors, IInv, ScanRead(a)
  PROVE  IInv'
<1>1. pc[a] = "next" /\ UNCHANGED <<rows, observations, drifts>>
  BY DEF ScanRead
<1>2. job[a] \in Jobs /\ job[a].kind = "discover"
  BY <1>1 DEF IInv, TypeOK, JobsOK, JobOK, InPlace
<1>3. PICK found \in job[a].todo :
        \/ /\ Named(found.name) = {}
           /\ Go(a, "find", [job[a] EXCEPT !.base = NoRow, !.payload = NewDraft(found),
                                           !.read = found.serial, !.todo = @ \ {found}])
        \/ \E e \in Named(found.name) :
             Go(a, "find", [job[a] EXCEPT !.base = rows[e], !.payload = Merged(rows[e], found),
                                          !.read = found.serial, !.todo = @ \ {found}])
  BY DEF ScanRead
<1>4. found.name \in Names /\ found.serial \in Fingerprints
  BY <1>2, <1>3, FleetAssumption DEF Jobs, Found
<1>5. PICK b \in Payloads \cup {NoRow}, p \in Payloads :
        /\ b = NoRow \/ p = Fill(b, found.serial)
        /\ Go(a, "find", [job[a] EXCEPT !.base = b, !.payload = p,
                                        !.read = found.serial, !.todo = @ \ {found}])
  <2>1. NewDraft(found) \in Payloads
    BY <1>4 DEF NewDraft, Payloads
  <2>2. ASSUME NEW e \in Named(found.name)
        PROVE  rows[e] \in Payloads /\ Merged(rows[e], found) \in Payloads
               /\ Merged(rows[e], found) = Fill(rows[e], found.serial)
    BY <1>4, FillType DEF Merged, Named, Exists, IInv, TypeOK
  <2>3. QED
    BY <1>3, <2>1, <2>2
<1>6. PICK w \in Jobs : w = [job[a] EXCEPT !.base = b, !.payload = p,
                                           !.read = found.serial, !.todo = @ \ {found}]
  BY <1>2, <1>4, <1>5 DEF Jobs
<1>7. w.base = b /\ w.payload = p /\ w.kind = "discover"
  BY <1>2, <1>6 DEF Jobs
<1>8. JobOK("find", w)'
  BY <1>4, <1>5, <1>7 DEF JobOK, InPlace, Targeted, Traced, Based, FirstOf, OnTarget
<1>9. Go(a, "find", w) /\ "find" \in Steps \ {"commit"}
  BY <1>5, <1>6 DEF Steps
<1>10. QED
  BY <1>1, <1>8, <1>9, GoIInv DEF IInv, TypeOK

(* The query of an upsert.                                                 *)
LEMMA FindIInv ==
  ASSUME NEW a \in Actors, IInv, Find(a)
  PROVE  IInv'
<1>1. PICK e \in (IF Named(job[a].payload.name) = {} THEN {NoEuid}
                  ELSE Named(job[a].payload.name)) : Upsert(a, e)
  BY DEF Find
<1>2. pc[a] = "find" /\ UNCHANGED <<rows, observations, drifts, started>>
  BY <1>1 DEF Find, Upsert
<1>3. job[a] \in Jobs /\ JobOK("find", job[a])
  BY <1>2 DEF IInv, TypeOK, JobsOK
<1>4. PICK w \in Jobs : w = [job[a] EXCEPT !.target = e]
  BY <1>1, <1>3 DEF Jobs, Named
<1>5. /\ w.payload = job[a].payload /\ w.kind = job[a].kind /\ w.url = job[a].url
      /\ w.read = job[a].read /\ w.base = job[a].base /\ w.target = e
  BY <1>3, <1>4 DEF Jobs
<1>6. Move(a, "commit", w) /\ w.payload \in Payloads
  <2>1. job' = [job EXCEPT ![a] = w] /\ pc' = [pc EXCEPT ![a] = "commit"]
    BY <1>1, <1>4 DEF Upsert
  <2>2. QED
    BY <1>2, <1>3, <1>5, <2>1 DEF Move, JobOK, InPlace
<1>7. /\ collided' = IF e = NoEuid /\ Inserting(w.payload.name) # {}
                     THEN collided \cup {w.payload.name} ELSE collided
      /\ collided' \subseteq Names /\ collided \subseteq collided'
  <2>1. collided' = IF e = NoEuid /\ Inserting(w.payload.name) # {}
                    THEN collided \cup {w.payload.name} ELSE collided
    BY <1>1, <1>5 DEF Upsert
  <2>2. w.payload.name \in Names /\ collided \subseteq Names
    BY <1>6 DEF Payloads, IInv, TypeOK
  <2>3. QED
    BY <2>1, <2>2
<1>8. e = NoEuid => Named(w.payload.name) = {}
  BY <1>1, <1>5, FleetAssumption DEF Named
<1>9. InPlace("commit", w)' /\ Traced("commit", w)' /\ Based("commit", w)'
  BY <1>2, <1>3, <1>5 DEF JobOK, InPlace, Traced, Based, Mismatch, Exists
<1>10. Targeted("commit", w)'
  BY <1>1, <1>2, <1>5 DEF Targeted, Named, Exists
<1>11. Named(w.payload.name)' = Named(w.payload.name)
  BY <1>2 DEF Named, Exists
<1>12. FirstOf("commit", w)' /\ OnTarget("commit", w)'
  BY <1>1, <1>5, <1>8, <1>11 DEF FirstOf, OnTarget
<1>13. JobOK("commit", w)' /\ "commit" \in Steps
  BY <1>9, <1>10, <1>12 DEF JobOK, Steps
<1>14. QED
  BY <1>2, <1>5, <1>6, <1>7, <1>13, MoveIInv DEF IInv, TypeOK

----------------------------------------------------------------------------
(* What a commit does to the rows: one of them becomes the payload; it did *)
(* not exist, or has the payload's name already.                           *)
LEMMA CommitRow ==
  ASSUME NEW a \in Actors, IInv, Commit(a)
  PROVE  /\ pc[a] = "commit" /\ job[a].payload \in Payloads
         /\ JobOK("commit", job[a])
         /\ \E e \in Euids :
              /\ rows' = [rows EXCEPT ![e] = job[a].payload]
              /\ \/ job[a].target = NoEuid /\ ~Exists(e)
                 \/ e = job[a].target /\ Exists(e) /\ rows[e].name = job[a].payload.name
<1>1. pc[a] = "commit" /\ JobOK("commit", job[a])
  BY DEF Commit, IInv, JobsOK
<1>2. job[a].payload \in Payloads
  BY <1>1 DEF JobOK, InPlace
<1>3. PICK e \in Euids :
        /\ e = job[a].target \/ (job[a].target = NoEuid /\ ~Exists(e))
        /\ rows' = [rows EXCEPT ![e] = job[a].payload]
  BY DEF Commit
<1>4. \/ job[a].target = NoEuid /\ ~Exists(e)
      \/ e = job[a].target /\ Exists(e) /\ rows[e].name = job[a].payload.name
  BY <1>1, <1>3, FleetAssumption DEF JobOK, Targeted
<1>5. QED
  BY <1>1, <1>2, <1>3, <1>4

(* So a row that exists goes on to exist, under its name.                  *)
LEMMA CommitKeepsNames ==
  ASSUME NEW a \in Actors, IInv, Commit(a), NEW f \in Euids, Exists(f)
  PROVE  Exists(f)' /\ rows'[f].name = rows[f].name
<1>1. PICK e \in Euids :
        /\ rows' = [rows EXCEPT ![e] = job[a].payload]
        /\ \/ job[a].target = NoEuid /\ ~Exists(e)
           \/ e = job[a].target /\ Exists(e) /\ rows[e].name = job[a].payload.name
  BY CommitRow
<1>2. job[a].payload \in Payloads
  BY CommitRow
<1>3. rows \in [Euids -> Payloads \cup {NoRow}]
  BY DEF IInv, TypeOK
<1>4. QED
  BY <1>1, <1>2, <1>3, FleetAssumption DEF Exists

(* Only an insert gives a name another row.                                *)
LEMMA CommitNamed ==
  ASSUME NEW a \in Actors, IInv, Commit(a)
  PROVE  \E e \in Euids :
           \A n : Named(n)' = IF job[a].target = NoEuid /\ n = job[a].payload.name
                             THEN Named(n) \cup {e} ELSE Named(n)
<1>1. PICK e \in Euids :
        /\ rows' = [rows EXCEPT ![e] = job[a].payload]
        /\ \/ job[a].target = NoEuid /\ ~Exists(e)
           \/ e = job[a].target /\ Exists(e) /\ rows[e].name = job[a].payload.name
  BY CommitRow
<1>2. job[a].payload \in Payloads /\ rows \in [Euids -> Payloads \cup {NoRow}]
  BY CommitRow DEF IInv, TypeOK
<1>3. \A f \in Euids : rows'[f] = IF f = e THEN job[a].payload ELSE rows[f]
  BY <1>1, <1>2
<1>4. job[a].payload # NoRow
  BY <1>2, FleetAssumption
<1>5. CASE job[a].target = NoEuid /\ ~Exists(e)
  BY <1>3, <1>4, <1>5 DEF Named, Exists
<1>6. CASE e = job[a].target /\ Exists(e) /\ rows[e].name = job[a].payload.name
  <2>1. job[a].target # NoEuid
    BY <1>6, FleetAssumption
  <2>2. QED
    BY <1>3, <1>4, <1>6, <2>1 DEF Named, Exists
<1>7. QED
  BY <1>1, <1>5, <1>6

LEMMA CommitIInv ==
  ASSUME NEW a \in Actors, IInv, Commit(a)
  PROVE  IInv'
<1>1. PICK e \in Euids :
        \A n : Named(n)' = IF job[a].target = NoEuid /\ n = job[a].payload.name
                          THEN Named(n) \cup {e} ELSE Named(n)
  BY CommitNamed
<1>2. pc[a] = "commit" /\ job[a].payload \in Payloads /\ JobOK("commit", job[a])
  BY CommitRow
<1>3. PICK s \in Steps, w \in Jobs :
        /\ Go(a, s, w)
        /\ s = "idle" \/ (s = "observe" /\ w = job[a] /\ w.kind = "discover")
  BY NoJobType DEF Commit, IInv, TypeOK, Steps
<1>4. UNCHANGED <<observations, drifts, started, collided>>
  BY <1>3 DEF Commit, Go
<1>5. TypeOK'
  <2>1. \E f \in Euids : rows' = [rows EXCEPT ![f] = job[a].payload]
    BY CommitRow
  <2>2. QED
    BY <1>2, <1>3, <1>4, <2>1 DEF IInv, TypeOK, Go
<1>6. \A n : job[a].target = NoEuid /\ n = job[a].payload.name /\ n \notin collided =>
        Named(n) = {}
  BY <1>2 DEF JobOK, FirstOf
<1>7. OneRowPerName'
  BY <1>1, <1>4, <1>6 DEF OneRowPerName, IInv
<1>8. \A b \in Actors : b # a => pc'[b] = pc[b] /\ job'[b] = job[b]
  BY <1>3 DEF Go, IInv, TypeOK
<1>9. pc'[a] = s /\ job'[a] = w
  BY <1>3 DEF Go, IInv, TypeOK
<1>10. \A n, b : b \in Inserting(n)' => b # a /\ b \in Inserting(n)
  BY <1>3, <1>8, <1>9 DEF Inserting
<1>11. Lone'
  BY <1>4, <1>10 DEF Lone, IInv
<1>12. ASSUME NEW b \in Actors  PROVE JobOK(pc[b], job[b])'
  <2>1. CASE b = a
    <3>1. pc'[b] = s /\ job'[b] = w
      BY <1>9, <2>1
    <3>2. InPlace(pc[b], job[b])' /\ Targeted(pc[b], job[b])'
      BY <1>2, <1>3, <3>1 DEF InPlace, Targeted
    <3>3. Traced(pc[b], job[b])' /\ Based(pc[b], job[b])'
      BY <1>3, <3>1 DEF Traced, Based
    <3>4. FirstOf(pc[b], job[b])' /\ OnTarget(pc[b], job[b])'
      BY <1>3, <3>1 DEF FirstOf, OnTarget
    <3>5. QED
      BY <3>2, <3>3, <3>4 DEF JobOK
  <2>2. CASE b # a
    <3>1. pc'[b] = pc[b] /\ job'[b] = job[b]
      BY <1>8, <2>2
    <3>2. JobOK(pc[b], job[b]) /\ job[b] \in Jobs
      BY DEF IInv, TypeOK, JobsOK
    <3>3. \A f \in Euids : Exists(f) => Exists(f)' /\ rows'[f].name = rows[f].name
      BY CommitKeepsNames
    <3>4. InPlace(pc[b], job[b])'
      BY <3>1, <3>2, <3>3 DEF JobOK, InPlace
    <3>5. Targeted(pc[b], job[b])'
      BY <3>1, <3>2, <3>3 DEF JobOK, Targeted, Jobs
    <3>6. Traced(pc[b], job[b])' /\ Based(pc[b], job[b])'
      BY <1>4, <3>1, <3>2 DEF JobOK, Traced, Based, Mismatch
    <3>7. FirstOf(pc[b], job[b])'
      <4>1. SUFFICES ASSUME pc[b] = "commit", job[b].target = NoEuid,
                            NEW n, n = job[b].payload.name, n \notin collided
                     PROVE  Named(n)' = {}
        BY <1>4, <3>1 DEF FirstOf
      <4>2. Named(n) = {} /\ n \in Names \ collided
        BY <3>2, <4>1 DEF JobOK, InPlace, FirstOf, Payloads
      <4>3. b \in Inserting(n)
        BY <4>1 DEF Inserting
      <4>4. ~(job[a].target = NoEuid /\ n = job[a].payload.name)
        BY <1>2, <2>2, <4>2, <4>3 DEF IInv, Lone, Inserting
      <4>5. QED
        BY <1>1, <4>2, <4>4
    <3>8. OnTarget(pc[b], job[b])'
      <4>1. SUFFICES ASSUME pc[b] = "commit", job[b].kind = "patch",
                            NEW n, n = job[b].payload.name, NEW u, u = job[b].url,
                            Named(n)' = {u}
                     PROVE  job[b].target = u
        BY <3>1 DEF OnTarget
      <4>2. Exists(u) /\ u \in Euids
        BY <3>2, <4>1 DEF JobOK, InPlace
      <4>3. u \in Named(n)
        BY <3>3, <4>1, <4>2 DEF Named
      <4>4. Named(n) \subseteq {u}
        BY <1>1, <4>1
      <4>5. QED
        BY <3>2, <4>1, <4>3, <4>4 DEF JobOK, OnTarget
    <3>9. QED
      BY <3>4, <3>5, <3>6, <3>7, <3>8 DEF JobOK
  <2>3. QED
    BY <2>1, <2>2
<1>13. QED
  BY <1>5, <1>7, <1>11, <1>12 DEF IInv, JobsOK

----------------------------------------------------------------------------
LEMMA NextIInv == IInv /\ [Next]_vars => IInv'
<1> SUFFICES ASSUME IInv, [Next]_vars  PROVE IInv'
  OBVIOUS
<1>1. CASE UNCHANGED vars
  BY <1>1 DEF vars, IInv, TypeOK, OneRowPerName, Named, Exists, Lone, Inserting, JobsOK, JobOK,
              InPlace, Targeted, Traced, Based, FirstOf, OnTarget, Mismatch
<1>2. ASSUME NEW a \in Actors,
             \/ PatchRead(a)
             \/ SyncRead(a) \/ SyncObserve(a) \/ SyncObserveFails(a) \/ Reconcile(a)
             \/ ScanStart(a) \/ ScanRead(a) \/ ScanObserve(a) \/ ScanEnd(a)
             \/ Find(a) \/ Commit(a)
             \/ Abort(a)
      PROVE  IInv'
  BY <1>2, PatchReadIInv, SyncReadIInv, SyncObserveIInv, SyncObserveFailsIInv, ReconcileIInv,
     ScanStartIInv, ScanReadIInv, ScanObserveIInv, EndIInv, FindIInv, CommitIInv
<1>3. QED
  BY <1>1, <1>2 DEF Next

LEMMA AlwaysIInv == Spec => []IInv
BY InitIInv, NextIInv, PTL DEF Spec

(* Every variable keeps its type, for any actors, printers and payloads.   *)
THEOREM TypeCorrect == Spec => []TypeOK
<1>1. IInv => TypeOK
  BY DEF IInv
<1>2. QED
  BY AlwaysIInv, <1>1, PTL

(* A stable name gets a second instance only when two operations that had  *)
(* found none were about to insert it at once.                             *)
THEOREM UniqueNames == Spec => []OneRowPerName
<1>1. IInv => OneRowPerName
  BY DEF IInv
<1>2. QED
  BY AlwaysIInv, <1>1, PTL

(* A sync leaves its observation and its drift before it writes, in any    *)
(* interleaving.                                                           *)
THEOREM SyncTraced == Spec => []SyncLeavesTrace
<1>1. IInv => SyncLeavesTrace
  BY DEF IInv, JobsOK, JobOK, Traced, SyncLeavesTrace
<1>2. QED
  BY AlwaysIInv, <1>1, PTL

(* A PATCH that does not rename writes the row of its URL, in any          *)
(* interleaving, as long as the name has no other row.                     *)
THEOREM PatchOnTarget == Spec => []PatchHitsItsRow
<1>1. IInv => PatchHitsItsRow
  BY DEF IInv, JobsOK, JobOK, OnTarget, PatchHitsItsRow
<1>2. QED
  BY AlwaysIInv, <1>1, PTL

(* Only a commit changes rows.                                             *)
LEMMA OnlyCommits ==
  ASSUME [Next]_vars, rows' # rows
  PROVE  \E a \in Actors : Commit(a)
BY DEF vars, Next, PatchRead, SyncRead, SyncObserve, SyncObserveFails, Reconcile,
       ScanStart, ScanRead, ScanObserve, ScanEnd, Find, Upsert, Abort

(* An instance is never deleted and never becomes another printer's, in    *)
(* any interleaving.                                                       *)
THEOREM NamesStay == Spec => RowKeepsName
<1>1. IInv /\ [Next]_vars =>
        [\A e \in Euids : Exists(e) => Exists(e)' /\ rows'[e].name = rows[e].name]_rows
  BY OnlyCommits, CommitKeepsNames
<1>2. QED
  BY AlwaysIInv, <1>1, PTL DEF Spec, RowKeepsName

(* Data from a printer fills a blank fingerprint and changes nothing else  *)
(* of a record that is as it was when the operation read it, whatever runs *)
(* beside it.                                                              *)
THEOREM AuthorityKept == Spec => DualAuthority
<1>1. ASSUME IInv, [Next]_vars, NEW f \in Euids, Exists(f), rows'[f] # rows[f]
      PROVE  \/ PatchCommitted
             \/ rows[f].serial = Blank /\ rows'[f] = Fill(rows[f], rows'[f].serial)
             \/ \E a \in Actors : Writes(a) /\ job[a].base # rows[f]
  <2>1. PICK a \in Actors : Commit(a)
    BY <1>1, OnlyCommits
  <2>2. PICK e \in Euids :
          /\ rows' = [rows EXCEPT ![e] = job[a].payload]
          /\ \/ job[a].target = NoEuid /\ ~Exists(e)
             \/ e = job[a].target /\ Exists(e) /\ rows[e].name = job[a].payload.name
    BY <1>1, <2>1, CommitRow
  <2>3. rows \in [Euids -> Payloads \cup {NoRow}]
    BY <1>1 DEF IInv, TypeOK
  <2>4. f = e /\ rows'[f] = job[a].payload
    BY <1>1, <2>2, <2>3
  <2>5. pc[a] = "commit" /\ JobOK("commit", job[a])
    BY <1>1, <2>1, CommitRow
  <2>6. pc'[a] # "commit"
    BY <1>1, <2>1 DEF Commit, Go, IInv, TypeOK
  <2>7. Writes(a)
    BY <1>1, <2>5, <2>6 DEF Writes
  <2>8. CASE job[a].kind = "patch"
    BY <2>7, <2>8 DEF PatchCommitted
  <2>9. CASE job[a].kind # "patch" /\ job[a].base = rows[f]
    <3>1. rows[f] \in Payloads
      BY <1>1, <2>3 DEF Exists
    <3>2. PICK x \in Fingerprints : job[a].payload = Fill(rows[f], x)
      BY <2>5, <2>9, <3>1, FleetAssumption DEF JobOK, Based
    <3>3. rows[f].serial = Blank
      BY <1>1, <2>4, <3>2 DEF Fill
    <3>4. rows'[f].serial = x
      BY <2>4, <3>1, <3>2, <3>3 DEF Fill, Payloads
    <3>5. QED
      BY <2>4, <3>2, <3>3, <3>4
  <2>10. CASE job[a].base # rows[f]
    BY <2>7, <2>10
  <2>11. QED
    BY <2>8, <2>9, <2>10
<1>2. IInv /\ [Next]_vars =>
        [\A e \in Euids :
           Exists(e) /\ rows'[e] # rows[e] =>
             \/ PatchCommitted
             \/ rows[e].serial = Blank /\ rows'[e] = Fill(rows[e], rows'[e].serial)
             \/ \E a \in Actors : Writes(a) /\ job[a].base # rows[e]]_vars
  BY <1>1
<1>3. QED
  BY AlwaysIInv, <1>2, PTL DEF Spec, DualAuthority

=============================================================================
