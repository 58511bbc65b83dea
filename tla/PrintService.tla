---------------------------- MODULE PrintService ----------------------------
(***************************************************************************)
(* POST /api/v1/print and the template routes (web/routers/api.py), the    *)
(* print path and the template store below them (client.py), composed with *)
(* the print rate limiter, beside CLI processes that work on the same      *)
(* template store.                                                         *)
(*                                                                         *)
(* The handlers are async functions that call the synchronous client: once *)
(* a handler has begun, the event loop runs nothing else until it returns. *)
(* `loop` is the handler it is in.  A step of a handler is one transaction *)
(* or one connection to a printer, and steps of CLI processes come between *)
(* any two of them.                                                        *)
(*                                                                         *)
(* Data: printers are not modelled beyond "found or not"; a style is what  *)
(* the request, or the defaults of the printer, make of it: a template, or *)
(* Raw for ZPL in the request, or NoStyle.  Label profiles map a name to   *)
(* itself: nothing but the seeding writes them.  The race of two inserts   *)
(* of one name is the subject of FleetRegistry; here an upsert is a step.  *)
(***************************************************************************)
EXTENDS Integers

CONSTANTS
  Clients, Requests, MaxRequests, Window, MaxConcurrent, MaxTime,
  Processes,   (* CLI processes                                            *)
  Templates,   (* template names                                           *)
  Packages,    (* those that ship with the package (etc/label_styles)      *)
  Shipped,     (* the content of a shipped template                        *)
  Contents,    (* what operators save                                      *)
  Unfillable,  (* the contents that ask for a field no request has         *)
  Blank,       (* empty content                                            *)
  MaxCopies,   (* copies in a request: 1..MaxCopies (1..100 in the code)   *)
  Raw, NoStyle

ASSUME PrintAssumption ==
  /\ MaxConcurrent \in Nat \ {0}
  /\ Packages \subseteq Templates
  /\ Unfillable \subseteq Contents
  /\ Shipped \notin Contents
  /\ Blank \notin Contents \cup {Shipped}
  /\ {Raw, NoStyle} \cap Templates = {}
  /\ Raw # NoStyle
  /\ MaxCopies \in Nat \ {0}

VARIABLES
  now, log, permits, phase, stamp, admitted,   (* as in PrintRateLimiter   *)
  templates,   (* the template instances, by name                          *)
  loop,        (* the handler the event loop is in                         *)
  cli,         (* the command each CLI process is in                       *)
  current,     (* history: the live contents the template of the print     *)
               (* under way has had since it was admitted                  *)
  paper,       (* labels handed to the printer, per request                *)
  job,         (* the print-job record of a request                        *)
  asked,       (* history: the copies each request asked for               *)
  answer       (* the response to each request                             *)

limiterVars == <<now, log, permits, phase, stamp, admitted>>
printVars == <<paper, job, asked, answer>>
vars == <<limiterVars, templates, loop, cli, current, printVars>>

L == INSTANCE PrintRateLimiter WITH
  now <- now, log <- log, permits <- permits, phase <- phase, stamp <- stamp,
  admitted <- admitted

Styles == Templates \cup {Raw, NoStyle}
Texts == Contents \cup {Shipped, Blank}
Sources == {"none", "package", "user", "deleted"}
Verdicts == {"none", "ok", "not_found", "bad_request", "too_many", "error"}

Idle == [step |-> "idle", request |-> NoStyle, style |-> NoStyle, copies |-> 0,
         text |-> Blank, verdict |-> "none"]

TypeOK ==
  /\ L!TypeOK
  /\ templates \in [Templates -> [text : Texts, source : Sources]]
  /\ loop \in
       [step : {"idle", "printer", "template", "send", "job", "release", "readback", "delete"},
        request : Requests \cup {NoStyle}, style : Styles, copies : 0..MaxCopies,
        text : Texts \cup {Raw}, verdict : Verdicts]
  /\ cli \in [Processes -> [step : {"idle", "seed", "command", "delete"},
                            todo : SUBSET Packages, style : Styles]]
  /\ current \subseteq Texts
  /\ paper \in [Requests -> 0..MaxCopies]
  /\ job \in [Requests -> {"none", "submitted", "failed"}]
  /\ asked \in [Requests -> 0..MaxCopies]
  /\ answer \in [Requests -> Verdicts]

(* A server that has seeded its templates and served nothing yet. *)
Init ==
  /\ L!Init
  /\ templates = [n \in Templates |->
                    IF n \in Packages THEN [text |-> Shipped, source |-> "package"]
                    ELSE [text |-> Blank, source |-> "none"]]
  /\ loop = Idle
  /\ cli = [p \in Processes |-> [step |-> "idle", todo |-> {}, style |-> NoStyle]]
  /\ current = {}
  /\ paper = [r \in Requests |-> 0]
  /\ job = [r \in Requests |-> "none"]
  /\ asked = [r \in Requests |-> 0]
  /\ answer = [r \in Requests |-> "none"]

----------------------------------------------------------------------------
(* The template store.  get_template shows neither a deleted template nor  *)
(* one without content.                                                    *)
VisibleUnchecked(n) == templates[n].source # "none"

Visible(n) ==
  /\ templates[n].source \notin {"none", "deleted"}
  /\ templates[n].text # Blank

(* The content of a row that an operator has reason to see printed. *)
Live(row) == IF row.source \in {"package", "user"} THEN {row.text} \ {Blank} ELSE {}

Upsert(n, text, source) ==
  /\ templates' = [templates EXCEPT ![n] = [text |-> text, source |-> source]]
  /\ current' = IF loop.style = n THEN current \cup Live(templates'[n]) ELSE current

Tick == L!Tick /\ UNCHANGED <<templates, loop, cli, current, printVars>>

----------------------------------------------------------------------------
(* print_label of api.py.  The limiter decides first.                      *)
Arrive(c, r) ==
  /\ loop.step = "idle"
  /\ L!Acquire(c, r)
  /\ IF phase'[r] = "running"
     THEN \E style \in Styles, n \in 1..MaxCopies :
            /\ loop' = [Idle EXCEPT !.step = "printer", !.request = r,
                                    !.style = style, !.copies = n]
            /\ asked' = [asked EXCEPT ![r] = n]
            /\ current' = IF style \in Templates THEN Live(templates[style]) ELSE {}
            /\ UNCHANGED answer
     ELSE /\ answer' = [answer EXCEPT ![r] = "too_many"]
          /\ UNCHANGED <<loop, asked, current>>
  /\ UNCHANGED <<templates, cli, paper, job>>

GoOn(step) == loop' = [loop EXCEPT !.step = step]
Conclude(verdict) == loop' = [loop EXCEPT !.step = "release", !.verdict = verdict]

(* resolve_print_request: the printer is unknown in that lab, or neither   *)
(* request nor printer names a style.                                      *)
NotResolved ==
  /\ loop.step = "printer"
  /\ Conclude("not_found")
  /\ UNCHANGED <<limiterVars, templates, cli, current, printVars>>

Resolved ==
  /\ loop.step = "printer"
  /\ loop.style # NoStyle
  /\ IF loop.style = Raw
     THEN loop' = [loop EXCEPT !.step = "send", !.text = Raw]
     ELSE GoOn("template")
  /\ UNCHANGED <<limiterVars, templates, cli, current, printVars>>

(* build_label: the template is read, here and only here, and filled in.   *)
BuildLabel ==
  /\ loop.step = "template"
  /\ IF ~Visible(loop.style) THEN Conclude("not_found")
     ELSE IF templates[loop.style].text \in Unfillable THEN Conclude("bad_request")
     ELSE loop' = [loop EXCEPT !.step = "send", !.text = templates[loop.style].text]
  /\ UNCHANGED <<limiterVars, templates, cli, current, printVars>>

(* A transaction fails before anything was sent. *)
ReadFails ==
  /\ loop.step \in {"printer", "template"}
  /\ Conclude("error")
  /\ UNCHANGED <<limiterVars, templates, cli, current, printVars>>

SendOneMore ==
  LET r == loop.request
  IN /\ loop.step = "send"
     /\ paper' = [paper EXCEPT ![r] = @ + 1]
     /\ loop' = IF paper[r] = loop.copies
                THEN [loop EXCEPT !.step = "job", !.verdict = "ok"] ELSE loop
     /\ UNCHANGED <<limiterVars, templates, cli, current, job, asked, answer>>

(* One connection to the printer for each copy. *)
SendCopy ==
  LET r == loop.request
  IN /\ loop.step = "send"
     /\ paper[r] < loop.copies
     /\ paper' = [paper EXCEPT ![r] = @ + 1]
     /\ loop' = IF paper[r] + 1 = loop.copies
                THEN [loop EXCEPT !.step = "job", !.verdict = "ok"] ELSE loop
     /\ UNCHANGED <<limiterVars, templates, cli, current, job, asked, answer>>

SendFailsQuietly ==
  /\ loop.step = "send"
  /\ loop' = [loop EXCEPT !.step = "job", !.verdict = "ok"]
  /\ UNCHANGED <<limiterVars, templates, cli, current, printVars>>

(* A copy is not taken: the loop over the copies ends.  Text that cannot   *)
(* be encoded fails with the first copy, and as a ValueError.              *)
SendFails ==
  /\ loop.step = "send"
  /\ \E v \in {"error", "bad_request"} :
       /\ v = "bad_request" => paper[loop.request] = 0
       /\ loop' = [loop EXCEPT !.step = "job", !.verdict = v]
  /\ UNCHANGED <<limiterVars, templates, cli, current, printVars>>

RecordAlwaysSubmitted ==
  /\ loop.step = "job"
  /\ job' = [job EXCEPT ![loop.request] = "submitted"]
  /\ GoOn("release")
  /\ UNCHANGED <<limiterVars, templates, cli, current, paper, asked, answer>>

(* The finally clause of the client's print_label. *)
RecordJob ==
  /\ loop.step = "job"
  /\ job' = [job EXCEPT ![loop.request] =
               IF loop.verdict = "ok" THEN "submitted" ELSE "failed"]
  /\ GoOn("release")
  /\ UNCHANGED <<limiterVars, templates, cli, current, paper, asked, answer>>

(* The job record cannot be stored: its exception takes the place of the   *)
(* outcome, whatever has been printed.                                     *)
RecordFails ==
  /\ loop.step = "job"
  /\ Conclude("error")
  /\ UNCHANGED <<limiterVars, templates, cli, current, printVars>>

RespondWithoutRelease ==
  /\ loop.step = "release"
  /\ IF loop.verdict = "ok" THEN L!Release(loop.request) ELSE UNCHANGED limiterVars
  /\ answer' = [answer EXCEPT ![loop.request] = loop.verdict]
  /\ loop' = Idle
  /\ UNCHANGED <<templates, cli, current, paper, job, asked>>

RespondReleasingTwice ==
  /\ loop.step = "release"
  /\ permits' = IF loop.verdict = "ok" THEN permits + 1 ELSE permits + 2
  /\ phase' = [phase EXCEPT ![loop.request] = "done"]
  /\ answer' = [answer EXCEPT ![loop.request] = loop.verdict]
  /\ loop' = Idle
  /\ UNCHANGED <<now, log, stamp, admitted, templates, cli, current, paper, job, asked>>

(* The finally clause of the handler, and the response. *)
Respond ==
  /\ loop.step = "release"
  /\ L!Release(loop.request)
  /\ answer' = [answer EXCEPT ![loop.request] = loop.verdict]
  /\ loop' = Idle
  /\ UNCHANGED <<templates, cli, current, paper, job, asked>>

----------------------------------------------------------------------------
(* save_template of api.py reads back what it has saved, for the response. *)
SaveTemplate(n) ==
  /\ loop.step = "idle"
  /\ \E text \in Contents \cup {Blank} : Upsert(n, text, "user")
  /\ loop' = [Idle EXCEPT !.step = "readback", !.style = n]
  /\ UNCHANGED <<limiterVars, cli, printVars>>

ReadBack ==
  /\ loop.step = "readback"
  /\ loop' = Idle
  /\ UNCHANGED <<limiterVars, templates, cli, current, printVars>>

(* delete_template: look, then overwrite. *)
DeleteTemplate(n) ==
  /\ loop.step = "idle"
  /\ Visible(n)
  /\ loop' = [Idle EXCEPT !.step = "delete", !.style = n]
  /\ UNCHANGED <<limiterVars, templates, cli, current, printVars>>

DeleteCommit ==
  /\ loop.step = "delete"
  /\ Upsert(loop.style, Blank, "deleted")
  /\ loop' = Idle
  /\ UNCHANGED <<limiterVars, cli, printVars>>

----------------------------------------------------------------------------
(* A CLI command constructs a client, and that seeds: each shipped         *)
(* template is upserted, whatever is there.                                *)
CliDo(p, step, todo, style) ==
  cli' = [cli EXCEPT ![p] = [step |-> step, todo |-> todo, style |-> style]]

CliStart(p) ==
  /\ cli[p].step = "idle"
  /\ CliDo(p, "seed", Packages, NoStyle)
  /\ UNCHANGED <<limiterVars, templates, loop, current, printVars>>

CliSeed(p) ==
  /\ cli[p].step = "seed"
  /\ \E n \in cli[p].todo :
       /\ Upsert(n, Shipped, "package")
       /\ CliDo(p, "seed", cli[p].todo \ {n}, NoStyle)
  /\ UNCHANGED <<limiterVars, loop, printVars>>

CliSeeded(p) ==
  /\ cli[p].step = "seed"
  /\ cli[p].todo = {}
  /\ CliDo(p, "command", {}, NoStyle)
  /\ UNCHANGED <<limiterVars, templates, loop, current, printVars>>

(* template save; *)
CliSave(p) ==
  /\ cli[p].step = "command"
  /\ \E n \in Templates, text \in Contents \cup {Blank} : Upsert(n, text, "user")
  /\ CliDo(p, "idle", {}, NoStyle)
  /\ UNCHANGED <<limiterVars, loop, printVars>>

(* template delete; *)
CliDelete(p) ==
  /\ cli[p].step = "command"
  /\ \E n \in Templates : Visible(n) /\ CliDo(p, "delete", {}, n)
  /\ UNCHANGED <<limiterVars, templates, loop, current, printVars>>

CliDeleteCommit(p) ==
  /\ cli[p].step = "delete"
  /\ Upsert(cli[p].style, Blank, "deleted")
  /\ CliDo(p, "idle", {}, NoStyle)
  /\ UNCHANGED <<limiterVars, loop, printVars>>

(* any other command, an error, or the process is killed where it is. *)
CliQuit(p) ==
  /\ cli[p].step # "idle"
  /\ CliDo(p, "idle", {}, NoStyle)
  /\ UNCHANGED <<limiterVars, templates, loop, current, printVars>>

----------------------------------------------------------------------------
Handle ==
  \/ NotResolved \/ Resolved \/ BuildLabel \/ ReadFails
  \/ SendCopy \/ SendFails \/ RecordJob \/ RecordFails \/ Respond
  \/ ReadBack \/ DeleteCommit

Next ==
  \/ Tick
  \/ \E c \in Clients, r \in Requests : Arrive(c, r)
  \/ \E n \in Templates : SaveTemplate(n) \/ DeleteTemplate(n)
  \/ Handle
  \/ \E p \in Processes :
       \/ CliStart(p) \/ CliSeed(p) \/ CliSeeded(p)
       \/ CliSave(p) \/ CliDelete(p) \/ CliDeleteCommit(p) \/ CliQuit(p)

(* A handler that has begun is run to its end: nothing else gets the loop, *)
(* and a connection to a printer is given up after its timeout.            *)
Fairness == WF_vars(Handle)

Spec == Init /\ [][Next]_vars
FairSpec == Spec /\ Fairness

----------------------------------------------------------------------------
(* Seen from the limiter, the service is the limiter: what a handler does, *)
(* on any of its paths, is at most one acquire and, when that admitted it, *)
(* one release.                                                            *)
LimiterSpec == L!Spec

(* With max_concurrent at least 1 the semaphore refuses nobody: a handler  *)
(* that holds a permit holds the event loop too, so requests queue in      *)
(* front of the loop and not at the limiter.                               *)
NeverBusy == \A r \in Requests : phase[r] # "busy"

(* What the caller is told is what came out of the printer: "ok" means all *)
(* copies and a job that says so; 404, 400 and 429 mean no label.  Only an *)
(* error leaves it open.                                                   *)
AnswerTellsPaper ==
  \A r \in Requests :
    /\ answer[r] = "ok" => paper[r] = asked[r] /\ job[r] = "submitted"
    /\ answer[r] \in {"not_found", "bad_request", "too_many"} => paper[r] = 0

(* What the job record says is what came out of the printer: submitted     *)
(* means every copy, failed means that one was not taken; and an answered  *)
(* request whose labels have no job was answered with an error.            *)
JobTellsPaper ==
  \A r \in Requests :
    /\ job[r] = "submitted" => paper[r] = asked[r]
    /\ job[r] = "failed" => paper[r] < asked[r] /\ answer[r] \notin {"ok", "not_found"}
    /\ job[r] = "none" /\ paper[r] > 0 => answer[r] \in {"none", "error"}

(* What is sent is a content the template had, undeleted, at some moment   *)
(* between the admission of the request and the send, whatever CLI         *)
(* processes do to the template meanwhile.                                 *)
PrintsCurrentTemplate ==
  loop.step = "send" /\ loop.style # Raw => loop.text \in current \ Unfillable

(* A print that was admitted is answered and gives its permit back.        *)
PrintsEnd == \A r \in Requests : phase[r] = "running" ~> phase[r] = "done"

----------------------------------------------------------------------------
(* What docs/tapdb_hard_migration_plan.md says of the shipped templates:   *)
(* they are bootstrap seeds only.  Seeding fills what was never there.     *)
SeedOnlyFills ==
  [][\A n \in Templates :
       templates'[n] # templates[n] /\ templates'[n].source = "package" =>
         templates[n].source \in {"none", "package"}]_templates
=============================================================================
