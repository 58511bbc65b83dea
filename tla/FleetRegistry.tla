---------------------------- MODULE FleetRegistry ----------------------------
(***************************************************************************)
(* The printer records of zebra_day/client.py: discovery, metadata sync    *)
(* and operator PATCHes over TapDB.                                        *)
(*                                                                         *)
(* An actor carries out one operation at a time: the web server's event    *)
(* loop (its handlers are async functions that call the synchronous client *)
(* and never await in between), a scan thread of the server, or a CLI      *)
(* process.  Each repository call is a database transaction of its own, so *)
(* an operation is a chain of transactions with those of other actors in   *)
(* between, and what it read first is written back last, as a whole.       *)
(* _upsert_instance is two steps, the query and the flush: nothing in the  *)
(* code locks the row or asks for a unique name.                           *)
(*                                                                         *)
(* Data: a payload is the stable name (lab/printer_id), one curated value  *)
(* standing for naming, location and label defaults, and one fingerprint   *)
(* standing for model and serial, which the code treats alike.  Requests   *)
(* for an unknown lab or printer are answered before any step taken here   *)
(* and change nothing.                                                     *)
(***************************************************************************)
EXTENDS Integers

CONSTANTS
  WebLoop,     (* the event loop of the server: PATCH, sync, discover      *)
  Threads,     (* scan threads: discover                                   *)
  Processes,   (* CLI processes: sync, discover                            *)
  Euids,       (* instance ids TapDB may give out                          *)
  Names,       (* stable names                                             *)
  Devices,     (* the names of the printers a scan of the subnet may find  *)
  Curations,   (* what an operator may enter                               *)
  Draft,       (* the curated value of an auto-created draft record        *)
  Serials,     (* fingerprints                                             *)
  Blank,       (* an empty fingerprint                                     *)
  MaxOps,      (* bound of the checked model: operations started           *)
  NoRow, NoEuid

Actors == {WebLoop} \cup Threads \cup Processes
Fingerprints == Serials \cup {Blank}
Payloads == [name : Names, curated : Curations \cup {Draft}, serial : Fingerprints]

ASSUME FleetAssumption ==
  /\ Devices \subseteq Names
  /\ Blank \notin Serials
  /\ Draft \notin Curations
  /\ NoRow \notin Payloads
  /\ NoEuid \notin Euids
  /\ MaxOps \in Nat

VARIABLES
  rows,          (* printer instances by euid                              *)
  observations,  (* printer-observation instances; `read` is what the      *)
                 (* device answered, `serial` what was stored              *)
  drifts,        (* metadata-drift instances                               *)
  pc,            (* the next step of each actor                            *)
  job,           (* the operation an actor is carrying out                 *)
  started,       (* how many operations have been started                  *)
  collided       (* history: names that two operations, neither of which   *)
                 (* had found a row, were about to insert at once          *)

vars == <<rows, observations, drifts, pc, job, started, collided>>

Steps == {"idle", "query", "reconcile", "find", "commit", "observe", "next"}
Kinds == {"none", "patch", "sync", "discover"}
Observations == [name : Names, serial : Fingerprints, read : Fingerprints]
Drifts == [euid : Euids, curated : Fingerprints, read : Fingerprints]
Found == [name : Devices, serial : Fingerprints]

(* kind; the euid in the request; the record that a sync or a scan has     *)
(* read; the payload to be written; the row the upsert found; the device's *)
(* answer; printers still to persist.                                      *)
Jobs == [kind : Kinds, url : Euids \cup {NoEuid}, base : Payloads \cup {NoRow},
         payload : Payloads \cup {NoRow}, target : Euids \cup {NoEuid},
         read : Fingerprints, todo : SUBSET Found]

NoJob == [kind |-> "none", url |-> NoEuid, base |-> NoRow, payload |-> NoRow,
          target |-> NoEuid, read |-> Blank, todo |-> {}]

TypeOK ==
  /\ rows \in [Euids -> Payloads \cup {NoRow}]
  /\ observations \subseteq Observations
  /\ drifts \subseteq Drifts
  /\ pc \in [Actors -> Steps]
  /\ job \in [Actors -> Jobs]
  /\ started \in Nat
  /\ collided \subseteq Names

Init ==
  /\ rows = [e \in Euids |-> NoRow]
  /\ observations = {}
  /\ drifts = {}
  /\ pc = [a \in Actors |-> "idle"]
  /\ job = [a \in Actors |-> NoJob]
  /\ started = 0
  /\ collided = {}

Exists(e) == rows[e] # NoRow
Named(n) == {e \in Euids : Exists(e) /\ rows[e].name = n}

----------------------------------------------------------------------------
(* How an operation moves on.                                              *)
Start(a, step, work) ==
  /\ pc[a] = "idle"
  /\ started < MaxOps
  /\ started' = started + 1
  /\ pc' = [pc EXCEPT ![a] = step]
  /\ job' = [job EXCEPT ![a] = work]
  /\ UNCHANGED collided

Go(a, step, work) ==
  /\ pc' = [pc EXCEPT ![a] = step]
  /\ job' = [job EXCEPT ![a] = work]
  /\ UNCHANGED <<started, collided>>

----------------------------------------------------------------------------
(* update_printer_metadata: the row of the euid with the changes put in.   *)
(* A changed printer_id is a change of the stable name.                    *)
Changed(p) == [name : Names, curated : Curations \cup {p.curated}, serial : Fingerprints]

PatchRead(a) ==
  /\ a = WebLoop
  /\ \E e \in Euids :
       /\ Exists(e)
       /\ \E p \in Changed(rows[e]) :
            Start(a, "find", [NoJob EXCEPT !.kind = "patch", !.url = e, !.payload = p])
  /\ UNCHANGED <<rows, observations, drifts>>

----------------------------------------------------------------------------
(* sync_printer_metadata.                                                  *)
SyncRead(a) ==
  /\ a \notin Threads
  /\ \E e \in Euids :
       /\ Exists(e)
       /\ Start(a, "query", [NoJob EXCEPT !.kind = "sync", !.url = e, !.base = rows[e],
                                          !.payload = rows[e]])
  /\ UNCHANGED <<rows, observations, drifts>>

(* The device queries and the observation.  An unreachable device answers  *)
(* Blank: send_command turns every socket error into None.                 *)
SyncObserve(a) ==
  /\ pc[a] = "query"
  /\ \E s \in Fingerprints :
       /\ Go(a, "reconcile", [job[a] EXCEPT !.read = s])
       /\ observations' = observations \cup
            {[name |-> job[a].payload.name, serial |-> s, read |-> s]}
  /\ UNCHANGED <<rows, drifts>>

(* The observation could not be stored: the except clause records a drift  *)
(* with the reason, in place of values, and the request fails.             *)
SyncObserveFails(a) ==
  /\ pc[a] = "query"
  /\ Go(a, "idle", NoJob)
  /\ drifts' = drifts \cup {[euid |-> job[a].url, curated |-> Blank, read |-> Blank]}
  /\ UNCHANGED <<rows, observations>>

Fill(p, s) == IF p.serial = Blank THEN [p EXCEPT !.serial = s] ELSE p

Mismatch(p, s) == p.serial # Blank /\ s # Blank /\ p.serial # s

ReconcileSilently(a) ==
  /\ pc[a] = "reconcile"
  /\ Go(a, "find", [job[a] EXCEPT !.payload = Fill(@, job[a].read)])
  /\ UNCHANGED <<rows, observations, drifts>>

(* A blank is filled from the device; a value that differs stays and opens *)
(* a drift record.                                                         *)
Reconcile(a) ==
  LET p == job[a].payload
      s == job[a].read
  IN /\ pc[a] = "reconcile"
     /\ Go(a, "find", [job[a] EXCEPT !.payload = Fill(p, s)])
     /\ drifts' = IF Mismatch(p, s)
                  THEN drifts \cup {[euid |-> job[a].url, curated |-> p.serial, read |-> s]}
                  ELSE drifts
     /\ UNCHANGED <<rows, observations>>

----------------------------------------------------------------------------
(* discover_printers: the probing is over (its results are complete before *)
(* the first one is persisted), then three transactions for each of them.  *)
ScanStart(a) ==
  /\ \E D \in SUBSET Devices : \E answer \in [D -> Fingerprints] :
       Start(a, "next", [NoJob EXCEPT !.kind = "discover",
                           !.todo = {[name |-> d, serial |-> answer[d]] : d \in D}])
  /\ UNCHANGED <<rows, observations, drifts>>

MergeNaming(p, found) == [Fill(p, found.serial) EXCEPT !.curated = Draft]

(* The record of a printer the registry already has: only a blank          *)
(* fingerprint is taken from the device.                                   *)
Merged(p, found) == Fill(p, found.serial)

NewBlank(found) == [name |-> found.name, curated |-> Blank, serial |-> found.serial]

NewDraft(found) == [name |-> found.name, curated |-> Draft, serial |-> found.serial]

ScanRead(a) ==
  /\ pc[a] = "next"
  /\ \E found \in job[a].todo :
       LET work(b, p) == [job[a] EXCEPT !.base = b, !.payload = p, !.read = found.serial,
                                        !.todo = @ \ {found}]
       IN \/ /\ Named(found.name) = {}
             /\ Go(a, "find", work(NoRow, NewDraft(found)))
          \/ \E e \in Named(found.name) :
               Go(a, "find", work(rows[e], Merged(rows[e], found)))
  /\ UNCHANGED <<rows, observations, drifts>>

(* The observation of a scan is taken from the record just stored.         *)
ScanObserve(a) ==
  /\ pc[a] = "observe"
  /\ Go(a, "next", [NoJob EXCEPT !.kind = "discover", !.todo = job[a].todo])
  /\ observations' = observations \cup
       {[name |-> job[a].payload.name, serial |-> job[a].payload.serial,
         read |-> job[a].read]}
  /\ UNCHANGED <<rows, drifts>>

ScanEnd(a) ==
  /\ pc[a] = "next"
  /\ job[a].todo = {}
  /\ Go(a, "idle", NoJob)
  /\ UNCHANGED <<rows, observations, drifts>>

----------------------------------------------------------------------------
(* upsert_printer through _upsert_instance: the first instance of the      *)
(* payload's stable name, if there is one ...                              *)
Inserting(n) ==
  {a \in Actors : pc[a] = "commit" /\ job[a].target = NoEuid /\ job[a].payload.name = n}

Upsert(a, e) ==
  LET n == job[a].payload.name
  IN /\ pc' = [pc EXCEPT ![a] = "commit"]
     /\ job' = [job EXCEPT ![a].target = e]
     /\ collided' = IF e = NoEuid /\ Inserting(n) # {} THEN collided \cup {n} ELSE collided
     /\ UNCHANGED <<rows, observations, drifts, started>>

FindByUrl(a) == pc[a] = "find" /\ Upsert(a, job[a].url)

NeverFind(a) == pc[a] = "find" /\ Upsert(a, NoEuid)

InsertDraft(a) ==
  /\ pc[a] = "find"
  /\ LET same == IF job[a].kind = "discover" /\ job[a].base = NoRow THEN {}
                 ELSE Named(job[a].payload.name)
     IN \E e \in (IF same = {} THEN {NoEuid} ELSE same) : Upsert(a, e)

Find(a) ==
  /\ pc[a] = "find"
  /\ LET same == Named(job[a].payload.name)
     IN \E e \in (IF same = {} THEN {NoEuid} ELSE same) : Upsert(a, e)

(* ... is overwritten as a whole, otherwise a new one is inserted.         *)
Commit(a) ==
  /\ pc[a] = "commit"
  /\ \E e \in Euids :
       /\ e = job[a].target \/ (job[a].target = NoEuid /\ ~Exists(e))
       /\ rows' = [rows EXCEPT ![e] = job[a].payload]
  /\ IF job[a].kind = "discover"
     THEN Go(a, "observe", job[a])
     ELSE Go(a, "idle", NoJob)
  /\ UNCHANGED <<observations, drifts>>

(* A transaction fails and the exception ends the operation, or the        *)
(* process is killed; what was committed stays.                            *)
Abort(a) ==
  /\ pc[a] # "idle"
  /\ Go(a, "idle", NoJob)
  /\ UNCHANGED <<rows, observations, drifts>>

----------------------------------------------------------------------------
Next ==
  \E a \in Actors :
    \/ PatchRead(a)
    \/ SyncRead(a) \/ SyncObserve(a) \/ SyncObserveFails(a) \/ Reconcile(a)
    \/ ScanStart(a) \/ ScanRead(a) \/ ScanObserve(a) \/ ScanEnd(a)
    \/ Find(a) \/ Commit(a)
    \/ Abort(a)

Spec == Init /\ [][Next]_vars

----------------------------------------------------------------------------
(* The actor writes a record in this step.                                 *)
Writes(a) == pc[a] = "commit" /\ pc'[a] # "commit" /\ rows' # rows

PatchCommitted == \E a \in Actors : Writes(a) /\ job[a].kind = "patch"

(* Data that comes from a printer fills a blank fingerprint and changes    *)
(* nothing else of a record: naming, location, defaults and known          *)
(* fingerprints change only by a PATCH (discover_printers' merge,          *)
(* sync_printer_metadata), in any interleaving, with one exception.  The   *)
(* operation may write over a record that it has not read in its present   *)
(* state, as the code checks nothing when it writes.                       *)
DualAuthority ==
  [][\A e \in Euids :
       Exists(e) /\ rows'[e] # rows[e] =>
         \/ PatchCommitted
         \/ rows[e].serial = Blank /\ rows'[e] = Fill(rows[e], rows'[e].serial)
         \/ \E a \in Actors : Writes(a) /\ job[a].base # rows[e]]_vars

(* A stable name has one instance, in any interleaving, although nothing   *)
(* but the query before the insert prevents a second one; the one way to   *)
(* get it is that two operations had found none and both went on to insert *)
(* theirs.  A draft that discovery decided on before somebody else         *)
(* inserted the printer does not, nor does a PATCH that renames.           *)
OneRowPerName == \A n \in Names \ collided : \A e, f \in Named(n) : e = f

(* An instance is never deleted and never becomes another printer's, in    *)
(* any interleaving: a PATCH that renames goes to the row of the new name. *)
RowKeepsName ==
  [][\A e \in Euids :
       Exists(e) => Exists(e)' /\ rows'[e].name = rows[e].name]_rows

(* A sync leaves its trace before it writes the record, in any             *)
(* interleaving: the device's answer is an observation, and when it        *)
(* contradicts the value that is about to be written back, a drift.        *)
SyncLeavesTrace ==
  \A a \in Actors :
    LET p == job[a].payload
        s == job[a].read
    IN pc[a] \in {"find", "commit"} /\ job[a].kind = "sync" =>
         /\ [name |-> p.name, serial |-> s, read |-> s] \in observations
         /\ Mismatch(p, s) =>
              [euid |-> job[a].url, curated |-> p.serial, read |-> s] \in drifts

(* A PATCH that does not rename writes the row of the euid in its URL, in  *)
(* any interleaving, unless the printer's name has got several instances:  *)
(* then the code, which looks the row up by its name, may hit another one. *)
PatchHitsItsRow ==
  \A a \in Actors :
    /\ pc[a] = "commit" /\ job[a].kind = "patch"
    /\ Named(job[a].payload.name) = {job[a].url}
    => job[a].target = job[a].url

----------------------------------------------------------------------------
(* What docs/major_refactor.md says of discovery and sync, without any     *)
(* condition on what runs beside them: the curated part of a record        *)
(* changes only by a PATCH.                                                *)
CuratedNeverOverwritten ==
  [][\A e \in Euids :
       Exists(e) /\ rows'[e].curated # rows[e].curated => PatchCommitted]_vars

(* What docs/major_refactor.md asks of observations: they are what the     *)
(* printer said, kept apart from the curated record.                       *)
ObservationsAreReadings == \A o \in observations : o.serial = o.read
=============================================================================
