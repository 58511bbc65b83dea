----------------------------- MODULE ScanStream -----------------------------
(***************************************************************************)
(* The network scan of the operator UI: the /config/scan/stream and        *)
(* /config/scan/cancel routes (zebra_day/web/routers/ui.py), the probe     *)
(* loop of printer_protocol.py, the persisting loop of client.py and the   *)
(* page's EventSource (zebra_day/static/js/zebra_modern.js).               *)
(*                                                                         *)
(* Four parties run side by side: the route handlers on the event loop,    *)
(* the response generator in a pool thread, the scan worker in a daemon    *)
(* thread, and the page.  They share the registry network_scans, which     *)
(* nothing locks, and one queue per scan.                                  *)
(*                                                                         *)
(* A progress callback reads the cancel flag and puts its event.  Nobody   *)
(* can tell a cancel that lands between the two from one that lands after  *)
(* both, so a callback is one step.  Storing a printer is one step here;   *)
(* FleetRegistry takes it apart.                                           *)
(***************************************************************************)
EXTENDS Integers, Sequences

CONSTANTS
  ScanIds,      (* the uuids of the scans                                  *)
  Hosts         (* how many addresses a scan probes (254 in the code)      *)

ASSUME ScanAssumption == Hosts \in Nat \ {0}

VARIABLES
  scans,        (* app.state.network_scans                                 *)
  worker,       (* the next step of a scan's worker thread                 *)
  offset,       (* the address being probed                                *)
  results,      (* the printers found by the probe loop                    *)
  stored,       (* the printers that reached the registry                  *)
  queue,        (* the events the worker has put                           *)
  stream,       (* where the response generator stands                     *)
  page,         (* what the operator's page shows                          *)
  announced,    (* the printers the page has announced                     *)
  inTime        (* history: a cancel came before the last callback         *)

workerVars == <<worker, offset, results, stored>>
pageVars == <<page, announced>>
vars == <<scans, workerVars, queue, stream, pageVars, inTime>>

Addresses == 1..Hosts
Probing == {"begin", "checking", "found", "checked", "done"}
Alive == Probing \cup {"persist", "finally", "last"}
Ahead == {"unstarted", "init", "open"}
Watching == {"waiting", "scanning"}
Events ==
  [kind : {"checking", "found", "checked"}, host : Addresses]
    \cup [kind : {"done", "cancelled", "error", "end"}, host : {0}]

TypeOK ==
  /\ scans \in [ScanIds -> {"absent", "live", "cancelled"}]
  /\ worker \in [ScanIds -> {"none", "ended", "killed"} \cup Alive]
  /\ offset \in [ScanIds -> Addresses]
  /\ results \in [ScanIds -> SUBSET Addresses]
  /\ stored \in [ScanIds -> SUBSET Addresses]
  /\ queue \in [ScanIds -> Seq(Events)]
  /\ stream \in [ScanIds -> {"none", "ended", "dropped"} \cup Ahead]
  /\ page \in [ScanIds -> Watching \cup {"none", "redirecting", "error", "lost", "left"}]
  /\ announced \in [ScanIds -> SUBSET Addresses]
  /\ inTime \in [ScanIds -> BOOLEAN]

Init ==
  /\ scans = [s \in ScanIds |-> "absent"]
  /\ worker = [s \in ScanIds |-> "none"]
  /\ offset = [s \in ScanIds |-> 1]
  /\ results = [s \in ScanIds |-> {}]
  /\ stored = [s \in ScanIds |-> {}]
  /\ queue = [s \in ScanIds |-> <<>>]
  /\ stream = [s \in ScanIds |-> "none"]
  /\ page = [s \in ScanIds |-> "none"]
  /\ announced = [s \in ScanIds |-> {}]
  /\ inTime = [s \in ScanIds |-> FALSE]

----------------------------------------------------------------------------
(* The routes.                                                             *)

(* startNetworkScan opens the stream; the handler enters the scan in the   *)
(* registry and returns a response whose generator has not begun.          *)
OpenStream(s) ==
  /\ stream[s] = "none"
  /\ scans' = [scans EXCEPT ![s] = "live"]
  /\ stream' = [stream EXCEPT ![s] = "unstarted"]
  /\ page' = [page EXCEPT ![s] = "waiting"]
  /\ UNCHANGED <<workerVars, queue, announced, inTime>>

(* config_scan_cancel, for an id that init has given out.  A scan that is  *)
(* not in the registry gets the same answer and nothing happens.           *)
Cancel(s) ==
  /\ stream[s] \notin {"none", "unstarted"}
  /\ scans[s] = "live"
  /\ scans' = [scans EXCEPT ![s] = "cancelled"]
  /\ inTime' = [inTime EXCEPT ![s] = worker[s] \in Probing \cup {"none"}]
  /\ UNCHANGED <<workerVars, queue, stream, pageVars>>

----------------------------------------------------------------------------
(* The worker thread.                                                      *)
Event(kind, h) == [kind |-> kind, host |-> h]
Put(s, e) == queue' = [queue EXCEPT ![s] = Append(@, e)]
Step(s, step) == worker' = [worker EXCEPT ![s] = step]

(* progress: the callback raises _ScanCancelled, which the worker answers  *)
(* with a "done" that says cancelled, or puts the event and returns.       *)
CallbackUnchecked(s, e, step) ==
  /\ Put(s, e)
  /\ Step(s, step)

CallbackGoesOn(s, e, step) ==
  IF scans[s] = "cancelled"
  THEN Put(s, Event("cancelled", 0)) /\ Step(s, step)
  ELSE Put(s, e) /\ Step(s, step)

Callback(s, e, step) ==
  IF scans[s] = "cancelled"
  THEN Put(s, Event("cancelled", 0)) /\ Step(s, "finally")
  ELSE Put(s, e) /\ Step(s, step)

(* discover_printers looks the lab up.                                     *)
Begin(s) ==
  /\ worker[s] = "begin"
  /\ Step(s, "checking")
  /\ UNCHANGED <<scans, offset, results, stored, queue, stream, pageVars, inTime>>

(* The callback before a probe, and what the probe then finds.             *)
Checking(s) ==
  /\ worker[s] = "checking"
  /\ \/ /\ Callback(s, Event("checking", offset[s]), "checked")
        /\ UNCHANGED results
     \/ /\ Callback(s, Event("checking", offset[s]), "found")
        /\ scans[s] # "cancelled"
        /\ results' = [results EXCEPT ![s] = @ \cup {offset[s]}]
  /\ UNCHANGED <<scans, offset, stored, stream, pageVars, inTime>>

Found(s) ==
  /\ worker[s] = "found"
  /\ Callback(s, Event("found", offset[s]), "checked")
  /\ UNCHANGED <<scans, offset, results, stored, stream, pageVars, inTime>>

CheckedPastTheEnd(s) ==
  /\ worker[s] = "checked"
  /\ Callback(s, Event("checked", offset[s]),
              IF offset[s] <= Hosts THEN "checking" ELSE "done")
  /\ offset' = [offset EXCEPT ![s] = @ + 1]
  /\ UNCHANGED <<scans, results, stored, stream, pageVars, inTime>>

Checked(s) ==
  /\ worker[s] = "checked"
  /\ Callback(s, Event("checked", offset[s]),
              IF offset[s] < Hosts THEN "checking" ELSE "done")
  /\ offset' = [offset EXCEPT ![s] = IF @ < Hosts THEN @ + 1 ELSE @]
  /\ UNCHANGED <<scans, results, stored, stream, pageVars, inTime>>

(* The last callback comes before anything is persisted.                   *)
AllProbed(s) ==
  /\ worker[s] = "done"
  /\ Callback(s, Event("done", 0), "persist")
  /\ UNCHANGED <<scans, offset, results, stored, stream, pageVars, inTime>>

(* One turn of the persisting loop, which takes the printers in the order  *)
(* they were found and looks at no flag.                                   *)
Persist(s) ==
  /\ worker[s] = "persist"
  /\ \E h \in results[s] \ stored[s] :
       /\ \A g \in results[s] \ stored[s] : h <= g
       /\ stored' = [stored EXCEPT ![s] = @ \cup {h}]
  /\ UNCHANGED <<scans, worker, offset, results, queue, stream, pageVars, inTime>>

Persisted(s) ==
  /\ worker[s] = "persist"
  /\ results[s] \subseteq stored[s]
  /\ Step(s, "finally")
  /\ UNCHANGED <<scans, offset, results, stored, queue, stream, pageVars, inTime>>

(* Any other exception, of the lab lookup, a probe or a transaction: the   *)
(* except clauses put an error event.                                      *)
Unhandled(s) ==
  /\ worker[s] \in {"begin", "found", "checked", "persist"}
  /\ Step(s, "ended")
  /\ UNCHANGED <<scans, offset, results, stored, queue, stream, pageVars, inTime>>

Swallowed(s) ==
  /\ worker[s] \in {"begin", "found", "checked", "persist"}
  /\ Step(s, "finally")
  /\ UNCHANGED <<scans, offset, results, stored, queue, stream, pageVars, inTime>>

Fail(s) ==
  /\ worker[s] \in {"begin", "found", "checked", "persist"}
  /\ Put(s, Event("error", 0))
  /\ Step(s, "finally")
  /\ UNCHANGED <<scans, offset, results, stored, stream, pageVars, inTime>>

(* The finally clause: out of the registry, then the sentinel.             *)
NotForgotten(s) ==
  /\ worker[s] = "finally"
  /\ Step(s, "last")
  /\ UNCHANGED <<scans, offset, results, stored, queue, stream, pageVars, inTime>>

Forget(s) ==
  /\ worker[s] = "finally"
  /\ Step(s, "last")
  /\ scans' = [scans EXCEPT ![s] = "absent"]
  /\ UNCHANGED <<offset, results, stored, queue, stream, pageVars, inTime>>

Sentinel(s) ==
  /\ worker[s] = "last"
  /\ Put(s, Event("end", 0))
  /\ Step(s, "ended")
  /\ UNCHANGED <<scans, offset, results, stored, stream, pageVars, inTime>>

----------------------------------------------------------------------------
(* The response generator and the page.  What is yielded to a page that    *)
(* has closed its EventSource goes nowhere.                                *)
SendInit(s) ==
  /\ stream[s] = "unstarted"
  /\ stream' = [stream EXCEPT ![s] = "init"]
  /\ page' = [page EXCEPT ![s] = IF @ = "waiting" THEN "scanning" ELSE @]
  /\ UNCHANGED <<scans, workerVars, queue, announced, inTime>>

StartWorker(s) ==
  /\ stream[s] = "init"
  /\ stream' = [stream EXCEPT ![s] = "open"]
  /\ Step(s, "begin")
  /\ UNCHANGED <<scans, offset, results, stored, queue, pageVars, inTime>>

(* onmessage: a printer is announced; "done", cancelled or not, and        *)
(* "error" close the EventSource.                                          *)
Shown(kind) ==
  CASE kind \in {"done", "cancelled"} -> "redirecting"
    [] kind = "error" -> "error"
    [] OTHER -> "scanning"

Deliver(s) ==
  LET e == Head(queue[s])
  IN /\ stream[s] = "open"
     /\ queue[s] # <<>>
     /\ e.kind # "end"
     /\ queue' = [queue EXCEPT ![s] = Tail(@)]
     /\ page' = [page EXCEPT ![s] = IF @ = "scanning" THEN Shown(e.kind) ELSE @]
     /\ announced' = [announced EXCEPT ![s] =
                        IF page[s] = "scanning" /\ e.kind = "found" THEN @ \cup {e.host} ELSE @]
     /\ UNCHANGED <<scans, workerVars, stream, inTime>>

(* The sentinel ends the response; onerror fires on a page still reading.  *)
EndStream(s) ==
  /\ stream[s] = "open"
  /\ queue[s] # <<>>
  /\ Head(queue[s]).kind = "end"
  /\ queue' = [queue EXCEPT ![s] = Tail(@)]
  /\ stream' = [stream EXCEPT ![s] = "ended"]
  /\ page' = [page EXCEPT ![s] = IF @ = "scanning" THEN "lost" ELSE @]
  /\ UNCHANGED <<scans, workerVars, announced, inTime>>

(* The server notices that the page is gone at the next thing yielded, at  *)
(* the latest the keepalive that follows 15 seconds without an event, and  *)
(* never resumes the generator; a worker that has been started goes on.    *)
DropStream(s) ==
  /\ stream[s] \in Ahead
  /\ page[s] \notin Watching
  /\ stream' = [stream EXCEPT ![s] = "dropped"]
  /\ UNCHANGED <<scans, workerVars, queue, pageVars, inTime>>

(* The operator closes the tab, or starts another scan in it, which closes *)
(* the EventSource of this one.                                            *)
Leave(s) ==
  /\ page[s] \in Watching
  /\ page' = [page EXCEPT ![s] = "left"]
  /\ UNCHANGED <<scans, workerVars, queue, stream, announced, inTime>>

(* The server process ends: the registry and the queues are gone, daemon   *)
(* threads die where they are, what was stored stays.                      *)
ServerDies ==
  /\ \E s \in ScanIds : stream[s] \in Ahead \/ worker[s] \in Alive
  /\ scans' = [s \in ScanIds |-> "absent"]
  /\ worker' = [s \in ScanIds |-> IF worker[s] \in Alive THEN "killed" ELSE worker[s]]
  /\ queue' = [s \in ScanIds |-> <<>>]
  /\ stream' = [s \in ScanIds |-> IF stream[s] \in Ahead THEN "dropped" ELSE stream[s]]
  /\ page' = [s \in ScanIds |-> IF page[s] \in Watching THEN "lost" ELSE page[s]]
  /\ UNCHANGED <<offset, results, stored, announced, inTime>>

----------------------------------------------------------------------------
Work(s) ==
  \/ Begin(s) \/ Checking(s) \/ Found(s) \/ Checked(s) \/ AllProbed(s)
  \/ Persist(s) \/ Persisted(s) \/ Fail(s) \/ Forget(s) \/ Sentinel(s)

Respond(s) ==
  \/ SendInit(s) \/ StartWorker(s) \/ Deliver(s) \/ EndStream(s) \/ DropStream(s)

Next ==
  \/ \E s \in ScanIds :
       OpenStream(s) \/ Cancel(s) \/ Work(s) \/ Respond(s) \/ Leave(s)
  \/ ServerDies

(* Probes and database calls time out, so a worker gets on; the server     *)
(* resumes a generator as long as its page reads, and drops it otherwise.  *)
Fairness == \A s \in ScanIds : WF_vars(Work(s)) /\ WF_vars(Respond(s))

Spec == Init /\ [][Next]_vars
FairSpec == Spec /\ Fairness

----------------------------------------------------------------------------
(* A cancel that comes before the last progress callback is obeyed: the    *)
(* worker never stores a printer, whatever it had found (progress,         *)
(* worker's except _ScanCancelled, and the order of client.py's loops).    *)
CancelInTime == \A s \in ScanIds : inTime[s] => stored[s] = {}

(* As long as a worker can still be stopped, a cancel finds its scan in    *)
(* the registry; once it has ended, its entry is gone (the finally clause).*)
EntryFollowsWorker ==
  \A s \in ScanIds :
    /\ worker[s] \in Probing => scans[s] # "absent"
    /\ worker[s] \in {"last", "ended", "killed"} => scans[s] = "absent"

(* A response that runs to its sentinel has given the page a verdict       *)
(* before: "Scan Connection Lost" is not how a scan ends.                  *)
VerdictBeforeEnd ==
  \A s \in ScanIds : stream[s] = "ended" => page[s] \notin Watching \cup {"lost"}

(* The sentinel is the worker's last word: nothing is put after it, and    *)
(* after a cancelled "done" only the sentinel.                             *)
NothingAfterTheEnd ==
  \A s \in ScanIds : \A i, j \in DOMAIN queue[s] :
    /\ i < j
    /\ queue[s][i].kind \in {"cancelled", "error", "end"}
    => queue[s][i].kind # "end" /\ queue[s][j].kind = "end"

(* An operator who stays on the page is told how the scan ended.           *)
PageLearns ==
  \A s \in ScanIds : page[s] \in Watching ~> page[s] \notin Watching

(* The generator gives its pool thread back: by the sentinel while the     *)
(* page reads, by the keepalive when it has left.                          *)
StreamEnds ==
  \A s \in ScanIds : stream[s] \in Ahead ~> stream[s] \notin Ahead

----------------------------------------------------------------------------
(* What the page says when it redirects: the printers it has announced are *)
(* in the lab's list.                                                      *)
PartialResultsSaved ==
  \A s \in ScanIds : page[s] = "redirecting" => announced[s] \subseteq stored[s]
=============================================================================
