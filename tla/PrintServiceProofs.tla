------------------------- MODULE PrintServiceProofs -------------------------
(***************************************************************************)
(* Proofs about PrintService, for any requests, templates, CLI processes   *)
(* and limits.  The argument runs along the handler that the event loop is *)
(* in: it holds the one permit that is out (Holder), what it has printed   *)
(* and recorded fits the verdict it is about to give (AtHand), and every   *)
(* request it is not about has been answered truly or not at all (Told).   *)
(***************************************************************************)
EXTENDS PrintService, TLAPS

Handling == {"printer", "template", "send", "job", "release"}

\* The permits are those of the semaphore and that of the handler.
Holder ==
  /\ loop.step \in Handling =>
       /\ loop.request \in Requests /\ permits = MaxConcurrent - 1
       /\ \A r \in Requests : phase[r] = "running" <=> r = loop.request
  /\ loop.step \notin Handling =>
       permits = MaxConcurrent /\ \A r \in Requests : phase[r] # "running"

\* Verdict v is true of what came out of the printer for request r.
Outcome(v, r) ==
  /\ v # "none"
  /\ v = "ok" => paper[r] = asked[r] /\ job[r] = "submitted"
  /\ v \in {"not_found", "bad_request", "too_many"} => paper[r] = 0
  /\ job[r] = "submitted" => paper[r] = asked[r]
  /\ job[r] = "failed" => paper[r] < asked[r] /\ v \notin {"ok", "not_found"}
  /\ job[r] = "none" /\ paper[r] > 0 => v = "error"

Told ==
  \A r \in Requests :
    /\ phase[r] \in {"new", "running"} => answer[r] = "none"
    /\ phase[r] = "new" => paper[r] = 0 /\ job[r] = "none"
    /\ phase[r] \in {"rate_limited", "done"} => Outcome(answer[r], r)

AtHand ==
  loop.step \in Handling =>
    LET r == loop.request
    IN /\ asked[r] = loop.copies
       /\ loop.step \in {"printer", "template"} =>
            job[r] = "none" /\ paper[r] = 0 /\ 0 < loop.copies
       /\ loop.step = "send" => job[r] = "none" /\ paper[r] < loop.copies
       /\ loop.step = "job" =>
            /\ job[r] = "none" /\ loop.verdict \in {"ok", "error", "bad_request"}
            /\ IF loop.verdict = "ok" THEN paper[r] = loop.copies ELSE paper[r] < loop.copies
            /\ loop.verdict = "bad_request" => paper[r] = 0
       /\ loop.step = "release" => Outcome(loop.verdict, r)

\* What the template of the print under way is now, it has been since.
Templated ==
  /\ loop.step \in {"printer", "template", "send"} /\ loop.style \in Templates =>
       Live(templates[loop.style]) \subseteq current
  /\ loop.step \in {"template", "delete"} => loop.style \in Templates
  /\ \A p \in Processes : cli[p].step = "delete" => cli[p].style \in Templates

IInv == TypeOK /\ NeverBusy /\ Holder /\ Told /\ AtHand /\ Templated /\ PrintsCurrentTemplate

-----------------------------------------------------------------------------

LEMMA Initially == Init => IInv
<1> SUFFICES ASSUME Init PROVE IInv
  OBVIOUS
<1>1. /\ now = 0 /\ permits = MaxConcurrent /\ phase = [r \in Requests |-> "new"]
      /\ stamp = [r \in Requests |-> 0] /\ log = [c \in Clients |-> {}]
      /\ admitted = [c \in Clients |-> {}]
  BY DEF Init, L!Init
<1>2. loop = Idle /\ Idle.step = "idle" /\ Idle.verdict = "none" /\ Idle.copies = 0
      /\ current = {}
  BY DEF Init, Idle
<1>3. /\ paper = [r \in Requests |-> 0] /\ job = [r \in Requests |-> "none"]
      /\ asked = [r \in Requests |-> 0] /\ answer = [r \in Requests |-> "none"]
  BY DEF Init
<1>4. TypeOK
  <2>1. L!TypeOK
    BY <1>1, PrintAssumption DEF L!TypeOK, L!Phases
  <2>2. templates \in [Templates -> [text : Texts, source : Sources]]
    BY DEF Init, Texts, Sources
  <2>3. loop \in
       [step : {"idle", "printer", "template", "send", "job", "release", "readback", "delete"},
        request : Requests \cup {NoStyle}, style : Styles, copies : 0..MaxCopies,
        text : Texts \cup {Raw}, verdict : Verdicts]
    BY <1>2, PrintAssumption DEF Idle, Styles, Texts, Verdicts
  <2>4. cli \in [Processes -> [step : {"idle", "seed", "command", "delete"},
                              todo : SUBSET Packages, style : Styles]]
    BY DEF Init, Styles
  <2>5. paper \in [Requests -> 0..MaxCopies] /\ asked \in [Requests -> 0..MaxCopies]
    BY <1>3, PrintAssumption
  <2> QED BY <1>2, <1>3, <2>1, <2>2, <2>3, <2>4, <2>5 DEF TypeOK, Verdicts
<1>5. NeverBusy /\ Holder /\ Told /\ AtHand
  BY <1>1, <1>2, <1>3 DEF NeverBusy, Holder, Told, AtHand, Handling
<1>6. Templated /\ PrintsCurrentTemplate
  <2>1. \A p \in Processes : cli[p].step = "idle"
    BY DEF Init
  <2> QED BY <1>2, <2>1 DEF Templated, PrintsCurrentTemplate
<1> QED BY <1>4, <1>5, <1>6 DEF IInv

-----------------------------------------------------------------------------
(* Steps beside the handler: of the clock and of CLI processes.            *)

LEMMA LiveTexts ==
  ASSUME NEW row \in [text : Texts, source : Sources]
  PROVE  Live(row) \subseteq Texts
BY DEF Live

LEMMA Upserted ==
  ASSUME TypeOK, NEW n \in Templates, NEW text \in Texts, NEW source \in Sources,
         Upsert(n, text, source)
  PROVE  /\ templates' \in [Templates -> [text : Texts, source : Sources]]
         /\ current' \subseteq Texts /\ current \subseteq current'
         /\ loop.style \in Templates /\ Live(templates[loop.style]) \subseteq current =>
              Live(templates'[loop.style]) \subseteq current'
<1>1. templates' = [templates EXCEPT ![n] = [text |-> text, source |-> source]]
      /\ current' = IF loop.style = n THEN current \cup Live(templates'[n]) ELSE current
  BY DEF Upsert
<1>2. templates' \in [Templates -> [text : Texts, source : Sources]] /\ current \subseteq Texts
  BY <1>1 DEF TypeOK
<1>3. Live(templates'[n]) \subseteq Texts
  BY <1>2, LiveTexts
<1>4. ASSUME loop.style \in Templates, Live(templates[loop.style]) \subseteq current
      PROVE  Live(templates'[loop.style]) \subseteq current'
  <2>1. CASE loop.style = n
    BY <1>1, <2>1
  <2>2. CASE loop.style # n
    <3>1. templates'[loop.style] = templates[loop.style] /\ current' = current
      BY <1>1, <1>4, <2>2 DEF TypeOK
    <3> QED BY <1>4, <3>1
  <2> QED BY <2>1, <2>2
<1> QED BY <1>1, <1>2, <1>3, <1>4

LEMMA AsideInv ==
  ASSUME IInv, UNCHANGED <<loop, permits, phase, paper, job, asked, answer>>, TypeOK',
         current \subseteq current',
         loop.style \in Templates /\ Live(templates[loop.style]) \subseteq current =>
           Live(templates'[loop.style]) \subseteq current',
         \A p \in Processes : cli'[p].step = "delete" => cli'[p].style \in Templates
  PROVE  IInv'
<1>1. NeverBusy' /\ Holder' /\ Told'
  BY DEF IInv, NeverBusy, Holder, Told, Outcome
<1>2. AtHand'
  BY DEF IInv, AtHand, Outcome
<1>3. Templated' /\ PrintsCurrentTemplate'
  BY DEF IInv, Templated, PrintsCurrentTemplate
<1> QED BY <1>1, <1>2, <1>3 DEF IInv

LEMMA TickInv ==
  ASSUME IInv, Tick
  PROVE  IInv'
<1>1. /\ now' = now + 1 /\ UNCHANGED <<log, permits, phase, stamp, admitted>>
      /\ UNCHANGED <<templates, loop, cli, current, paper, job, asked, answer>>
  BY DEF Tick, L!Tick, printVars
<1>2. TypeOK'
  BY <1>1 DEF IInv, TypeOK, L!TypeOK
<1> QED BY <1>1, <1>2, AsideInv DEF IInv, Templated

CliStep(p) ==
  \/ CliStart(p) \/ CliSeed(p) \/ CliSeeded(p)
  \/ CliSave(p) \/ CliDelete(p) \/ CliDeleteCommit(p) \/ CliQuit(p)

LEMMA CliInv ==
  ASSUME IInv, NEW p \in Processes, CliStep(p)
  PROVE  IInv'
<1>1. UNCHANGED limiterVars /\ UNCHANGED loop /\ UNCHANGED printVars
      /\ UNCHANGED <<loop, permits, phase, paper, job, asked, answer>>
  BY DEF CliStep, CliStart, CliSeed, CliSeeded, CliSave, CliDelete, CliDeleteCommit, CliQuit,
         limiterVars, printVars
<1>2. PICK step \in {"idle", "seed", "command", "delete"}, todo \in SUBSET Packages,
           style \in Styles :
        CliDo(p, step, todo, style) /\ (step = "delete" => style \in Templates)
  <2>1. CASE CliStart(p)
    BY <2>1 DEF CliStart, Styles
  <2>2. CASE CliSeed(p)
    <3>1. PICK n \in cli[p].todo : CliDo(p, "seed", cli[p].todo \ {n}, NoStyle)
      BY <2>2 DEF CliSeed
    <3>2. cli[p].todo \ {n} \in SUBSET Packages /\ NoStyle \in Styles
      BY DEF IInv, TypeOK, Styles
    <3> QED BY <3>1, <3>2
  <2>3. CASE CliSeeded(p) \/ CliSave(p) \/ CliDeleteCommit(p) \/ CliQuit(p)
    BY <2>3 DEF CliSeeded, CliSave, CliDeleteCommit, CliQuit, Styles
  <2>4. CASE CliDelete(p)
    BY <2>4 DEF CliDelete, Styles
  <2> QED BY <2>1, <2>2, <2>3, <2>4 DEF CliStep
<1>3. cli' = [cli EXCEPT ![p] = [step |-> step, todo |-> todo, style |-> style]]
  BY <1>2 DEF CliDo
<1>4. /\ cli' \in [Processes -> [step : {"idle", "seed", "command", "delete"},
                                 todo : SUBSET Packages, style : Styles]]
      /\ \A q \in Processes : cli'[q].step = "delete" => cli'[q].style \in Templates
  BY <1>2, <1>3 DEF IInv, TypeOK, Templated
<1>5. \/ UNCHANGED <<templates, current>>
      \/ \E n \in Templates, text \in Texts, source \in Sources : Upsert(n, text, source)
  <2>1. CASE CliSeed(p)
    <3>1. PICK n \in cli[p].todo : Upsert(n, Shipped, "package")
      BY <2>1 DEF CliSeed
    <3>2. n \in Templates /\ Shipped \in Texts /\ "package" \in Sources
      BY PrintAssumption DEF IInv, TypeOK, Texts, Sources
    <3> QED BY <3>1, <3>2
  <2>2. CASE CliSave(p)
    <3>1. PICK n \in Templates, text \in Contents \cup {Blank} : Upsert(n, text, "user")
      BY <2>2 DEF CliSave
    <3>2. text \in Texts /\ "user" \in Sources
      BY DEF Texts, Sources
    <3> QED BY <3>1, <3>2
  <2>3. CASE CliDeleteCommit(p)
    <3>1. cli[p].style \in Templates /\ Upsert(cli[p].style, Blank, "deleted")
      BY <2>3 DEF CliDeleteCommit, IInv, Templated
    <3>2. Blank \in Texts /\ "deleted" \in Sources
      BY DEF Texts, Sources
    <3> QED BY <3>1, <3>2
  <2>4. CASE CliStart(p) \/ CliSeeded(p) \/ CliDelete(p) \/ CliQuit(p)
    BY <2>4 DEF CliStart, CliSeeded, CliDelete, CliQuit
  <2> QED BY <2>1, <2>2, <2>3, <2>4 DEF CliStep
<1>6. /\ templates' \in [Templates -> [text : Texts, source : Sources]]
      /\ current' \subseteq Texts /\ current \subseteq current'
      /\ loop.style \in Templates /\ Live(templates[loop.style]) \subseteq current =>
           Live(templates'[loop.style]) \subseteq current'
  <2>1. CASE UNCHANGED <<templates, current>>
    BY <2>1 DEF IInv, TypeOK
  <2>2. ASSUME NEW n \in Templates, NEW text \in Texts, NEW source \in Sources,
               Upsert(n, text, source)
        PROVE  /\ templates' \in [Templates -> [text : Texts, source : Sources]]
               /\ current' \subseteq Texts /\ current \subseteq current'
               /\ loop.style \in Templates /\ Live(templates[loop.style]) \subseteq current =>
                    Live(templates'[loop.style]) \subseteq current'
    BY <2>2, Upserted DEF IInv
  <2> QED BY <1>5, <2>1, <2>2
<1>7. TypeOK'
  <2>1. L!TypeOK'
    BY <1>1 DEF IInv, TypeOK, L!TypeOK, limiterVars
  <2> QED BY <1>1, <1>4, <1>6, <2>1 DEF IInv, TypeOK, printVars
<1> QED BY <1>1, <1>4, <1>6, <1>7, AsideInv

-----------------------------------------------------------------------------
(* A request arrives.                                                      *)

LEMMA ArriveInv ==
  ASSUME IInv, NEW c \in Clients, NEW r \in Requests, Arrive(c, r)
  PROVE  IInv'
<1>1. /\ loop.step = "idle" /\ UNCHANGED <<templates, cli, paper, job>>
      /\ permits = MaxConcurrent /\ \A q \in Requests : phase[q] # "running"
  BY DEF Arrive, IInv, Holder, Handling
<1>2. \/ L!Admit(c, r) \/ L!RefuseRate(c, r)
  BY <1>1, PrintAssumption DEF Arrive, L!Acquire, L!RefuseBusy
<1>3. phase[r] = "new" /\ answer[r] = "none" /\ paper[r] = 0 /\ job[r] = "none"
  BY <1>2 DEF L!Admit, L!RefuseRate, IInv, Told
<1>4. CASE L!Admit(c, r)
  <2>1. /\ phase' = [phase EXCEPT ![r] = "running"] /\ permits' = permits - 1
        /\ log' = [log EXCEPT ![c] = L!Kept(c) \cup {r}]
        /\ stamp' = [stamp EXCEPT ![r] = now]
        /\ admitted' = [admitted EXCEPT ![c] = admitted[c] \cup {r}] /\ now' = now
    BY <1>4 DEF L!Admit
  <2>2. phase'[r] = "running"
    BY <2>1 DEF IInv, TypeOK, L!TypeOK
  <2>3. PICK style \in Styles, n \in 1..MaxCopies :
          /\ loop' = [Idle EXCEPT !.step = "printer", !.request = r,
                                  !.style = style, !.copies = n]
          /\ asked' = [asked EXCEPT ![r] = n]
          /\ current' = IF style \in Templates THEN Live(templates[style]) ELSE {}
          /\ UNCHANGED answer
    BY <2>2 DEF Arrive
  <2>4. /\ loop' = [step |-> "printer", request |-> r, style |-> style, copies |-> n,
                    text |-> Blank, verdict |-> "none"]
        /\ n \in 0..MaxCopies /\ 0 < n
    <3>1. n \in 0..MaxCopies /\ 0 < n
      BY PrintAssumption
    <3>2. loop' = [Idle EXCEPT !.step = "printer", !.request = r, !.style = style, !.copies = n]
      BY <2>3
    <3> QED BY <3>1, <3>2 DEF Idle
  <2>5. current' \subseteq Texts
    <3>1. ASSUME style \in Templates PROVE Live(templates[style]) \subseteq Texts
      BY <3>1, LiveTexts DEF IInv, TypeOK
    <3> QED BY <2>3, <3>1
  <2>6. TypeOK'
    <3>1. L!TypeOK'
      <4>1. L!Kept(c) \subseteq Requests
        BY DEF L!Kept, IInv, TypeOK, L!TypeOK
      <4>2. permits' \in 0..MaxConcurrent
        BY <1>1, <2>1, PrintAssumption
      <4> QED BY <2>1, <4>1, <4>2 DEF IInv, TypeOK, L!TypeOK, L!Phases
    <3>2. loop' \in
            [step : {"idle", "printer", "template", "send", "job", "release", "readback",
                     "delete"},
             request : Requests \cup {NoStyle}, style : Styles, copies : 0..MaxCopies,
             text : Texts \cup {Raw}, verdict : Verdicts]
      BY <2>4 DEF Texts, Verdicts
    <3> QED BY <1>1, <2>3, <2>4, <2>5, <3>1, <3>2 DEF IInv, TypeOK
  <2>7. /\ loop'.step = "printer" /\ loop'.request = r /\ loop'.copies = n
        /\ loop'.style = style
    BY <2>4
  <2>8. NeverBusy' /\ Holder'
    BY <1>1, <2>1, <2>7 DEF IInv, TypeOK, L!TypeOK, NeverBusy, Holder, Handling
  <2>9. asked'[r] = n /\ \A q \in Requests \ {r} : asked'[q] = asked[q] /\ phase'[q] = phase[q]
    BY <2>1, <2>3 DEF IInv, TypeOK, L!TypeOK
  <2>10. Told' /\ AtHand'
    BY <1>1, <1>3, <2>2, <2>3, <2>4, <2>7, <2>9 DEF IInv, Told, AtHand, Outcome, Handling
  <2>11. Templated' /\ PrintsCurrentTemplate'
    BY <1>1, <2>3, <2>7 DEF IInv, Templated, PrintsCurrentTemplate
  <2> QED BY <2>6, <2>8, <2>10, <2>11 DEF IInv
<1>5. CASE L!RefuseRate(c, r)
  <2>1. /\ phase' = [phase EXCEPT ![r] = "rate_limited"]
        /\ log' = [log EXCEPT ![c] = L!Kept(c)]
        /\ UNCHANGED <<now, permits, stamp, admitted>>
    BY <1>5 DEF L!RefuseRate
  <2>2. phase'[r] = "rate_limited" /\ \A q \in Requests \ {r} : phase'[q] = phase[q]
    BY <2>1 DEF IInv, TypeOK, L!TypeOK
  <2>3. answer' = [answer EXCEPT ![r] = "too_many"] /\ UNCHANGED <<loop, asked, current>>
    BY <2>2 DEF Arrive
  <2>4. TypeOK'
    <3>1. L!TypeOK'
      <4>1. L!Kept(c) \subseteq Requests
        BY DEF L!Kept, IInv, TypeOK, L!TypeOK
      <4> QED BY <2>1, <4>1 DEF IInv, TypeOK, L!TypeOK, L!Phases
    <3> QED BY <1>1, <2>3, <3>1 DEF IInv, TypeOK, Verdicts
  <2>5. NeverBusy' /\ Holder'
    BY <1>1, <2>1, <2>2, <2>3 DEF IInv, NeverBusy, Holder, Handling
  <2>6. answer'[r] = "too_many" /\ \A q \in Requests \ {r} : answer'[q] = answer[q]
    BY <2>3 DEF IInv, TypeOK
  <2>7. Told' /\ AtHand'
    BY <1>1, <1>3, <2>2, <2>3, <2>6 DEF IInv, Told, AtHand, Outcome, Handling
  <2>8. Templated' /\ PrintsCurrentTemplate'
    BY <1>1, <2>3 DEF IInv, Templated, PrintsCurrentTemplate
  <2> QED BY <2>4, <2>5, <2>7, <2>8 DEF IInv
<1> QED BY <1>2, <1>4, <1>5

-----------------------------------------------------------------------------
(* The handler.                                                            *)

\* Its type, and what it is about, while it holds the permit.
LEMMA Typed ==
  ASSUME IInv
  PROVE  /\ loop \in
              [step : {"idle", "printer", "template", "send", "job", "release", "readback",
                       "delete"},
               request : Requests \cup {NoStyle}, style : Styles, copies : 0..MaxCopies,
               text : Texts \cup {Raw}, verdict : Verdicts]
         /\ paper \in [Requests -> 0..MaxCopies] /\ job \in [Requests -> {"none", "submitted", "failed"}]
         /\ asked \in [Requests -> 0..MaxCopies] /\ answer \in [Requests -> Verdicts]
         /\ templates \in [Templates -> [text : Texts, source : Sources]] /\ current \subseteq Texts
         /\ \A r \in Requests : paper[r] \in Nat /\ asked[r] \in Nat
         /\ loop.copies \in Nat /\ MaxCopies \in Nat
<1>1. MaxCopies \in Nat
  BY PrintAssumption
<1>2. paper \in [Requests -> 0..MaxCopies] /\ asked \in [Requests -> 0..MaxCopies]
      /\ loop.copies \in 0..MaxCopies
  BY DEF IInv, TypeOK
<1>3. \A r \in Requests : paper[r] \in Nat /\ asked[r] \in Nat
  BY <1>1, <1>2
<1>4. loop.copies \in Nat
  BY <1>1, <1>2
<1> QED BY <1>1, <1>2, <1>3, <1>4 DEF IInv, TypeOK

\* A step of the handler that keeps the permit: everything is as it was but
\* what the loop is about to do and, for its own request, paper and job.
LEMMA HandlerInv ==
  ASSUME IInv, loop.step \in Handling, loop'.step \in Handling,
         loop' \in [step : {"idle", "printer", "template", "send", "job", "release", "readback",
                           "delete"},
                   request : Requests \cup {NoStyle}, style : Styles, copies : 0..MaxCopies,
                   text : Texts \cup {Raw}, verdict : Verdicts],
         loop'.request = loop.request,
         UNCHANGED limiterVars, UNCHANGED <<templates, cli, current, asked, answer>>,
         paper' \in [Requests -> 0..MaxCopies],
         job' \in [Requests -> {"none", "submitted", "failed"}],
         \A q \in Requests \ {loop.request} : paper'[q] = paper[q] /\ job'[q] = job[q],
         AtHand', Templated', PrintsCurrentTemplate'
  PROVE  IInv'
<1>1. UNCHANGED <<now, log, permits, phase, stamp, admitted>>
  BY DEF limiterVars
<1>2. TypeOK'
  <2>1. L!TypeOK'
    BY <1>1 DEF IInv, TypeOK, L!TypeOK
  <2> QED BY <2>1 DEF IInv, TypeOK
<1>3. NeverBusy' /\ Holder'
  BY <1>1 DEF IInv, NeverBusy, Holder
<1>4. Told'
  <2> SUFFICES ASSUME NEW q \in Requests
               PROVE  /\ phase[q] \in {"new", "running"} => answer[q] = "none"
                      /\ phase[q] = "new" => paper'[q] = 0 /\ job'[q] = "none"
                      /\ phase[q] \in {"rate_limited", "done"} => Outcome(answer[q], q)'
    BY <1>1 DEF Told
  <2>1. CASE q = loop.request
    <3>1. phase[q] = "running"
      BY <2>1 DEF IInv, Holder
    <3> QED BY <3>1 DEF IInv, Told
  <2>2. CASE q # loop.request
    <3>1. paper'[q] = paper[q] /\ job'[q] = job[q] /\ asked'[q] = asked[q] /\ answer'[q] = answer[q]
      BY <2>2
    <3> QED BY <3>1 DEF IInv, Told, Outcome
  <2> QED BY <2>1, <2>2
<1> QED BY <1>2, <1>3, <1>4 DEF IInv

\* The handler concludes before anything was sent.
LEMMA ConcludeInv ==
  ASSUME IInv, NEW v \in {"not_found", "bad_request", "error"},
         loop.step \in {"printer", "template"}, Conclude(v),
         UNCHANGED <<limiterVars, templates, cli, current, printVars>>
  PROVE  IInv'
<1>1. /\ loop' = [loop EXCEPT !.step = "release", !.verdict = v]
      /\ UNCHANGED limiterVars /\ UNCHANGED <<templates, cli, current, paper, job, asked, answer>>
  BY DEF Conclude, printVars
<1>2. /\ loop'.step = "release" /\ loop'.verdict = v /\ loop'.request = loop.request
      /\ loop'.copies = loop.copies /\ loop'.style = loop.style
      /\ loop' \in [step : {"idle", "printer", "template", "send", "job", "release", "readback",
                            "delete"},
                    request : Requests \cup {NoStyle}, style : Styles, copies : 0..MaxCopies,
                    text : Texts \cup {Raw}, verdict : Verdicts]
  BY <1>1, Typed DEF Verdicts
<1>3. AtHand'
  BY <1>1, <1>2 DEF IInv, AtHand, Outcome, Handling
<1>4. Templated' /\ PrintsCurrentTemplate'
  BY <1>1, <1>2 DEF IInv, Templated, PrintsCurrentTemplate
<1> QED BY <1>1, <1>2, <1>3, <1>4, Typed, HandlerInv DEF Handling

LEMMA ResolvedInv ==
  ASSUME IInv, Resolved
  PROVE  IInv'
<1>1. /\ loop.step = "printer" /\ loop.style # NoStyle
      /\ UNCHANGED limiterVars /\ UNCHANGED <<templates, cli, current, paper, job, asked, answer>>
  BY DEF Resolved, printVars
<1>2. \/ loop.style = Raw /\ loop' = [loop EXCEPT !.step = "send", !.text = Raw]
      \/ loop.style # Raw /\ loop' = [loop EXCEPT !.step = "template"]
  BY DEF Resolved, GoOn
<1>3. /\ loop'.step \in {"send", "template"} /\ loop'.request = loop.request
      /\ loop'.copies = loop.copies /\ loop'.style = loop.style
      /\ loop'.step = "send" <=> loop.style = Raw
      /\ loop' \in [step : {"idle", "printer", "template", "send", "job", "release", "readback",
                            "delete"},
                    request : Requests \cup {NoStyle}, style : Styles, copies : 0..MaxCopies,
                    text : Texts \cup {Raw}, verdict : Verdicts]
  BY <1>2, Typed
<1>4. AtHand'
  BY <1>1, <1>3 DEF IInv, AtHand, Handling
<1>5. loop.style \in Templates \/ loop.style = Raw
  BY <1>1, Typed DEF Styles
<1>6. Templated' /\ PrintsCurrentTemplate'
  BY <1>1, <1>3, <1>5 DEF IInv, Templated, PrintsCurrentTemplate
<1> QED BY <1>1, <1>3, <1>4, <1>6, Typed, HandlerInv DEF Handling

LEMMA BuildInv ==
  ASSUME IInv, BuildLabel
  PROVE  IInv'
<1>1. loop.step = "template" /\ loop.style \in Templates
      /\ UNCHANGED <<limiterVars, templates, cli, current, printVars>>
  BY DEF BuildLabel, IInv, Templated
<1>2. CASE Conclude("not_found") \/ Conclude("bad_request")
  BY <1>1, <1>2, ConcludeInv
<1>3. CASE /\ Visible(loop.style) /\ templates[loop.style].text \notin Unfillable
           /\ loop' = [loop EXCEPT !.step = "send", !.text = templates[loop.style].text]
  <2>1. templates[loop.style] \in [text : Texts, source : Sources]
    BY <1>1, Typed
  <2>2. templates[loop.style].text \in Live(templates[loop.style])
    BY <1>3, <2>1 DEF Visible, Live, Sources
  <2>3. templates[loop.style].text \in current \ Unfillable
    BY <1>1, <1>3, <2>2 DEF IInv, Templated
  <2>4. /\ loop'.step = "send" /\ loop'.request = loop.request /\ loop'.copies = loop.copies
        /\ loop'.style = loop.style /\ loop'.text = templates[loop.style].text
        /\ loop' \in [step : {"idle", "printer", "template", "send", "job", "release", "readback",
                              "delete"},
                      request : Requests \cup {NoStyle}, style : Styles, copies : 0..MaxCopies,
                      text : Texts \cup {Raw}, verdict : Verdicts]
    BY <1>3, <2>1, Typed
  <2>5. UNCHANGED limiterVars /\ UNCHANGED <<templates, cli, current, paper, job, asked, answer>>
    BY <1>1 DEF printVars
  <2>6. AtHand'
    BY <1>1, <2>4, <2>5 DEF IInv, AtHand, Handling
  <2>7. Templated' /\ PrintsCurrentTemplate'
    BY <1>1, <2>3, <2>4, <2>5 DEF IInv, Templated, PrintsCurrentTemplate
  <2> QED BY <1>1, <2>4, <2>5, <2>6, <2>7, Typed, HandlerInv DEF Handling
<1> QED BY <1>2, <1>3 DEF BuildLabel

LEMMA SendCopyInv ==
  ASSUME IInv, SendCopy
  PROVE  IInv'
<1> DEFINE r == loop.request
<1>1. /\ loop.step = "send" /\ r \in Requests /\ paper[r] < loop.copies /\ job[r] = "none"
      /\ asked[r] = loop.copies /\ paper' = [paper EXCEPT ![r] = paper[r] + 1]
      /\ UNCHANGED limiterVars /\ UNCHANGED <<templates, cli, current, job, asked, answer>>
  BY DEF SendCopy, IInv, Holder, AtHand, Handling
<1>2. \/ /\ paper[r] + 1 = loop.copies
         /\ loop' = [loop EXCEPT !.step = "job", !.verdict = "ok"]
      \/ paper[r] + 1 # loop.copies /\ loop' = loop
  BY DEF SendCopy
<1>3. paper[r] + 1 \in 0..MaxCopies
  <2>1. paper[r] \in Nat /\ loop.copies \in 0..MaxCopies /\ MaxCopies \in Nat
    BY <1>1, Typed
  <2> QED BY <1>1, <2>1
<1>4. /\ paper' \in [Requests -> 0..MaxCopies] /\ paper'[r] = paper[r] + 1
      /\ \A q \in Requests \ {r} : paper'[q] = paper[q]
  BY <1>1, <1>3, Typed
<1>5. /\ loop'.request = r /\ loop'.copies = loop.copies /\ loop'.style = loop.style
      /\ loop'.text = loop.text
      /\ \/ loop'.step = "job" /\ loop'.verdict = "ok" /\ paper'[r] = loop.copies
         \/ loop'.step = "send" /\ paper'[r] # loop.copies
      /\ loop' \in [step : {"idle", "printer", "template", "send", "job", "release", "readback",
                            "delete"},
                    request : Requests \cup {NoStyle}, style : Styles, copies : 0..MaxCopies,
                    text : Texts \cup {Raw}, verdict : Verdicts]
  BY <1>1, <1>2, <1>4, Typed DEF Verdicts
<1>6. paper'[r] <= loop.copies
  <2>1. paper[r] \in Nat /\ loop.copies \in Nat
    BY <1>1, Typed
  <2> QED BY <1>1, <1>4, <2>1
<1>7. AtHand'
  <2>1. paper'[r] \in Nat /\ loop.copies \in Nat
    BY <1>1, <1>4, Typed
  <2>2. loop'.step = "send" => paper'[r] < loop.copies
    BY <1>5, <1>6, <2>1
  <2> QED BY <1>1, <1>5, <2>2 DEF AtHand
<1>8. Templated' /\ PrintsCurrentTemplate'
  BY <1>1, <1>5 DEF IInv, Templated, PrintsCurrentTemplate
<1> QED BY <1>1, <1>4, <1>5, <1>7, <1>8, Typed, HandlerInv DEF Handling

LEMMA SendFailsInv ==
  ASSUME IInv, SendFails
  PROVE  IInv'
<1>1. PICK v \in {"error", "bad_request"} :
        /\ v = "bad_request" => paper[loop.request] = 0
        /\ loop' = [loop EXCEPT !.step = "job", !.verdict = v]
  BY DEF SendFails
<1>2. /\ loop.step = "send"
      /\ UNCHANGED limiterVars /\ UNCHANGED <<templates, cli, current, paper, job, asked, answer>>
  BY DEF SendFails, printVars
<1>3. /\ loop'.step = "job" /\ loop'.verdict = v /\ loop'.request = loop.request
      /\ loop'.copies = loop.copies /\ loop'.style = loop.style
      /\ loop' \in [step : {"idle", "printer", "template", "send", "job", "release", "readback",
                            "delete"},
                    request : Requests \cup {NoStyle}, style : Styles, copies : 0..MaxCopies,
                    text : Texts \cup {Raw}, verdict : Verdicts]
  BY <1>1, Typed DEF Verdicts
<1>4. AtHand'
  BY <1>1, <1>2, <1>3 DEF IInv, AtHand, Handling
<1>5. Templated' /\ PrintsCurrentTemplate'
  BY <1>2, <1>3 DEF IInv, Templated, PrintsCurrentTemplate
<1> QED BY <1>2, <1>3, <1>4, <1>5, Typed, HandlerInv DEF Handling

LEMMA RecordInv ==
  ASSUME IInv, RecordJob \/ RecordFails
  PROVE  IInv'
<1> DEFINE r == loop.request
<1>1. /\ loop.step = "job" /\ r \in Requests /\ job[r] = "none" /\ asked[r] = loop.copies
      /\ loop.verdict \in {"ok", "error", "bad_request"}
      /\ loop.verdict = "ok" => paper[r] = loop.copies
      /\ loop.verdict # "ok" => paper[r] < loop.copies
      /\ loop.verdict = "bad_request" => paper[r] = 0
      /\ UNCHANGED limiterVars /\ UNCHANGED <<templates, cli, current, paper, asked, answer>>
  BY DEF RecordJob, RecordFails, IInv, Holder, AtHand, Handling, printVars
<1>2. \/ /\ job' = [job EXCEPT ![r] = IF loop.verdict = "ok" THEN "submitted" ELSE "failed"]
         /\ loop' = [loop EXCEPT !.step = "release"]
      \/ job' = job /\ loop' = [loop EXCEPT !.step = "release", !.verdict = "error"]
  BY DEF RecordJob, RecordFails, GoOn, Conclude, printVars
<1>3. /\ job' \in [Requests -> {"none", "submitted", "failed"}]
      /\ \A q \in Requests \ {r} : job'[q] = job[q]
      /\ \/ loop'.verdict = loop.verdict /\ loop.verdict = "ok" /\ job'[r] = "submitted"
         \/ loop'.verdict = loop.verdict /\ loop.verdict # "ok" /\ job'[r] = "failed"
         \/ loop'.verdict = "error" /\ job'[r] = "none"
  BY <1>1, <1>2, Typed
<1>4. /\ loop'.step = "release" /\ loop'.request = r
      /\ loop'.copies = loop.copies /\ loop'.style = loop.style
      /\ loop' \in [step : {"idle", "printer", "template", "send", "job", "release", "readback",
                            "delete"},
                    request : Requests \cup {NoStyle}, style : Styles, copies : 0..MaxCopies,
                    text : Texts \cup {Raw}, verdict : Verdicts]
  BY <1>2, Typed DEF Verdicts
<1>5. paper[r] \in Nat /\ loop.copies \in Nat
  BY <1>1, Typed
<1>6. /\ loop'.verdict # "none"
      /\ loop'.verdict = "ok" => paper[r] = asked[r] /\ job'[r] = "submitted"
      /\ loop'.verdict \in {"not_found", "bad_request", "too_many"} => paper[r] = 0
      /\ job'[r] = "submitted" => paper[r] = asked[r]
      /\ job'[r] = "failed" => paper[r] < asked[r] /\ loop'.verdict \notin {"ok", "not_found"}
      /\ job'[r] = "none" /\ paper[r] > 0 => loop'.verdict = "error"
  <2>1. CASE loop'.verdict = loop.verdict /\ loop.verdict = "ok" /\ job'[r] = "submitted"
    BY <1>1, <2>1
  <2>2. CASE loop'.verdict = loop.verdict /\ loop.verdict # "ok" /\ job'[r] = "failed"
    BY <1>1, <2>2
  <2>3. CASE loop'.verdict = "error" /\ job'[r] = "none"
    BY <2>3
  <2> QED BY <1>3, <2>1, <2>2, <2>3
<1>7. AtHand'
  <2>1. loop'.request = r /\ loop'.step = "release" /\ asked'[r] = loop'.copies
    BY <1>1, <1>4
  <2>2. paper' = paper /\ asked' = asked
    BY <1>1
  <2>3. Outcome(loop.verdict, loop.request)'
    BY <1>6, <2>1, <2>2 DEF Outcome
  <2> QED BY <2>1, <2>3 DEF AtHand
<1>8. Templated' /\ PrintsCurrentTemplate'
  BY <1>1, <1>4 DEF IInv, Templated, PrintsCurrentTemplate
<1> QED BY <1>1, <1>3, <1>4, <1>7, <1>8, Typed, HandlerInv DEF Handling

LEMMA RespondInv ==
  ASSUME IInv, Respond
  PROVE  IInv'
<1> DEFINE r == loop.request
<1>1. /\ loop.step = "release" /\ r \in Requests /\ permits = MaxConcurrent - 1
      /\ \A q \in Requests : phase[q] = "running" <=> q = r
      /\ Outcome(loop.verdict, r) /\ loop.verdict \in Verdicts
  BY Typed DEF Respond, IInv, Holder, AtHand, Handling
<1>2. /\ permits' = permits + 1 /\ phase' = [phase EXCEPT ![r] = "done"]
      /\ UNCHANGED <<now, log, stamp, admitted>>
      /\ answer' = [answer EXCEPT ![r] = loop.verdict] /\ loop' = Idle
      /\ UNCHANGED <<templates, cli, current, paper, job, asked>>
  BY DEF Respond, L!Release
<1>3. /\ loop'.step = "idle"
      /\ loop' \in [step : {"idle", "printer", "template", "send", "job", "release", "readback",
                            "delete"},
                    request : Requests \cup {NoStyle}, style : Styles, copies : 0..MaxCopies,
                    text : Texts \cup {Raw}, verdict : Verdicts]
  BY <1>2, PrintAssumption DEF Idle, Styles, Texts, Verdicts
<1>4. permits' = MaxConcurrent /\ permits' \in 0..MaxConcurrent
  BY <1>1, <1>2, PrintAssumption
<1>5. /\ phase' \in [Requests -> L!Phases] /\ phase'[r] = "done"
      /\ \A q \in Requests \ {r} : phase'[q] = phase[q] /\ answer'[q] = answer[q]
      /\ answer'[r] = loop.verdict /\ answer' \in [Requests -> Verdicts]
  BY <1>1, <1>2 DEF IInv, TypeOK, L!TypeOK, L!Phases
<1>6. TypeOK'
  <2>1. L!TypeOK'
    BY <1>2, <1>4, <1>5 DEF IInv, TypeOK, L!TypeOK
  <2> QED BY <1>2, <1>3, <1>5, <2>1 DEF IInv, TypeOK
<1>7. NeverBusy' /\ Holder'
  BY <1>1, <1>3, <1>4, <1>5 DEF IInv, NeverBusy, Holder, Handling
<1>8. Told'
  <2> SUFFICES ASSUME NEW q \in Requests
               PROVE  /\ phase'[q] \in {"new", "running"} => answer'[q] = "none"
                      /\ phase'[q] = "new" => paper[q] = 0 /\ job[q] = "none"
                      /\ phase'[q] \in {"rate_limited", "done"} => Outcome(answer[q], q)'
    BY <1>2 DEF Told
  <2>1. CASE q = r
    BY <1>1, <1>2, <1>5, <2>1 DEF Outcome
  <2>2. CASE q # r
    BY <1>2, <1>5, <2>2 DEF IInv, Told, Outcome
  <2> QED BY <2>1, <2>2
<1>9. AtHand' /\ Templated' /\ PrintsCurrentTemplate'
  BY <1>2, <1>3 DEF AtHand, Handling, IInv, Templated, PrintsCurrentTemplate
<1> QED BY <1>6, <1>7, <1>8, <1>9 DEF IInv

\* The template routes hold no permit, and end where they began: idle.
LEMMA RouteInv ==
  ASSUME IInv, loop.step \notin Handling, loop'.step \in {"idle", "readback", "delete"},
         loop' \in [step : {"idle", "printer", "template", "send", "job", "release", "readback",
                            "delete"},
                    request : Requests \cup {NoStyle}, style : Styles, copies : 0..MaxCopies,
                    text : Texts \cup {Raw}, verdict : Verdicts],
         UNCHANGED limiterVars, UNCHANGED <<cli, printVars>>,
         templates' \in [Templates -> [text : Texts, source : Sources]], current' \subseteq Texts,
         loop'.step = "delete" => loop'.style \in Templates
  PROVE  IInv'
<1>1. /\ UNCHANGED <<now, log, permits, phase, stamp, admitted>>
      /\ UNCHANGED <<paper, job, asked, answer>> /\ cli' = cli
  BY DEF limiterVars, printVars
<1>2. TypeOK'
  <2>1. L!TypeOK'
    BY <1>1 DEF IInv, TypeOK, L!TypeOK
  <2> QED BY <1>1, <2>1 DEF IInv, TypeOK
<1>3. loop'.step \notin Handling
  BY DEF Handling
<1>4. NeverBusy' /\ Holder' /\ Told'
  BY <1>1, <1>3 DEF IInv, NeverBusy, Holder, Told, Outcome
<1>5. AtHand' /\ Templated' /\ PrintsCurrentTemplate'
  BY <1>1, <1>3 DEF IInv, AtHand, Handling, Templated, PrintsCurrentTemplate
<1> QED BY <1>2, <1>4, <1>5 DEF IInv

LEMMA IdleTyped ==
  /\ Idle.step = "idle"
  /\ Idle \in [step : {"idle", "printer", "template", "send", "job", "release", "readback",
                       "delete"},
               request : Requests \cup {NoStyle}, style : Styles, copies : 0..MaxCopies,
               text : Texts \cup {Raw}, verdict : Verdicts]
  /\ \A n \in Templates, step \in {"readback", "delete"} :
       LET at == [Idle EXCEPT !.step = step, !.style = n]
       IN /\ at.step = step /\ at.style = n
          /\ at \in [step : {"idle", "printer", "template", "send", "job", "release", "readback",
                            "delete"},
                    request : Requests \cup {NoStyle}, style : Styles, copies : 0..MaxCopies,
                    text : Texts \cup {Raw}, verdict : Verdicts]
<1>1. 0 \in 0..MaxCopies
  BY PrintAssumption
<1>2. NoStyle \in Requests \cup {NoStyle} /\ NoStyle \in Styles /\ Blank \in Texts \cup {Raw}
      /\ "none" \in Verdicts /\ \A n \in Templates : n \in Styles
  BY DEF Styles, Texts, Verdicts
<1>3. Idle = [step |-> "idle", request |-> NoStyle, style |-> NoStyle, copies |-> 0,
              text |-> Blank, verdict |-> "none"]
  BY DEF Idle
<1>4. Idle \in [step : {"idle", "printer", "template", "send", "job", "release", "readback",
                       "delete"},
               request : Requests \cup {NoStyle}, style : Styles, copies : 0..MaxCopies,
               text : Texts \cup {Raw}, verdict : Verdicts]
  BY <1>1, <1>2, <1>3
<1>5. ASSUME NEW n \in Templates, NEW step \in {"readback", "delete"},
             NEW at, at = [Idle EXCEPT !.step = step, !.style = n]
      PROVE  /\ at.step = step /\ at.style = n
             /\ at \in [step : {"idle", "printer", "template", "send", "job", "release",
                                "readback", "delete"},
                        request : Requests \cup {NoStyle}, style : Styles,
                        copies : 0..MaxCopies, text : Texts \cup {Raw}, verdict : Verdicts]
  BY <1>2, <1>4, <1>5
<1> QED BY <1>3, <1>4, <1>5

LEMMA TemplateRoutesInv ==
  ASSUME IInv, \/ \E n \in Templates : SaveTemplate(n) \/ DeleteTemplate(n)
               \/ ReadBack \/ DeleteCommit
  PROVE  IInv'
<1>1. ASSUME NEW n \in Templates, SaveTemplate(n) PROVE IInv'
  <2>1. PICK text \in Contents \cup {Blank} : Upsert(n, text, "user")
    BY <1>1 DEF SaveTemplate
  <2>2. text \in Texts /\ "user" \in Sources
    BY DEF Texts, Sources
  <2>3. templates' \in [Templates -> [text : Texts, source : Sources]] /\ current' \subseteq Texts
    BY <2>1, <2>2, Upserted DEF IInv
  <2>4. /\ loop.step = "idle" /\ loop' = [Idle EXCEPT !.step = "readback", !.style = n]
        /\ UNCHANGED limiterVars /\ UNCHANGED <<cli, printVars>>
    BY <1>1 DEF SaveTemplate
  <2> QED BY <2>3, <2>4, IdleTyped, RouteInv DEF Handling
<1>2. ASSUME NEW n \in Templates, DeleteTemplate(n) PROVE IInv'
  <2>1. /\ loop.step = "idle" /\ loop' = [Idle EXCEPT !.step = "delete", !.style = n]
        /\ UNCHANGED limiterVars /\ UNCHANGED <<cli, printVars>> /\ UNCHANGED <<templates, current>>
    BY <1>2 DEF DeleteTemplate
  <2> QED BY <2>1, IdleTyped, Typed, RouteInv DEF Handling
<1>3. CASE ReadBack
  <2>1. /\ loop.step = "readback" /\ loop' = Idle
        /\ UNCHANGED limiterVars /\ UNCHANGED <<cli, printVars>> /\ UNCHANGED <<templates, current>>
    BY <1>3 DEF ReadBack
  <2> QED BY <2>1, IdleTyped, Typed, RouteInv DEF Handling
<1>4. CASE DeleteCommit
  <2>1. /\ loop.step = "delete" /\ loop' = Idle /\ Upsert(loop.style, Blank, "deleted")
        /\ UNCHANGED limiterVars /\ UNCHANGED <<cli, printVars>>
    BY <1>4 DEF DeleteCommit
  <2>2. loop.style \in Templates /\ Blank \in Texts /\ "deleted" \in Sources
    BY <2>1 DEF IInv, Templated, Texts, Sources
  <2>3. templates' \in [Templates -> [text : Texts, source : Sources]] /\ current' \subseteq Texts
    BY <2>1, <2>2, Upserted DEF IInv
  <2> QED BY <2>1, <2>3, IdleTyped, RouteInv DEF Handling
<1> QED BY <1>1, <1>2, <1>3, <1>4

-----------------------------------------------------------------------------

LEMMA Inductive == IInv /\ [Next]_vars => IInv'
<1> SUFFICES ASSUME IInv, [Next]_vars PROVE IInv'
  OBVIOUS
<1>1. CASE Tick
  BY <1>1, TickInv
<1>2. ASSUME NEW c \in Clients, NEW r \in Requests, Arrive(c, r) PROVE IInv'
  BY <1>2, ArriveInv
<1>3. CASE \/ \E n \in Templates : SaveTemplate(n) \/ DeleteTemplate(n)
           \/ ReadBack \/ DeleteCommit
  BY <1>3, TemplateRoutesInv
<1>4. CASE NotResolved \/ ReadFails
  BY <1>4, ConcludeInv DEF NotResolved, ReadFails
<1>5. CASE Resolved \/ BuildLabel \/ SendCopy \/ SendFails
  BY <1>5, ResolvedInv, BuildInv, SendCopyInv, SendFailsInv
<1>6. CASE RecordJob \/ RecordFails \/ Respond
  BY <1>6, RecordInv, RespondInv
<1>7. ASSUME NEW p \in Processes, CliStep(p) PROVE IInv'
  BY <1>7, CliInv
<1>8. CASE UNCHANGED vars
  <2>1. UNCHANGED <<now, log, permits, phase, stamp, admitted, templates, loop, cli, current,
                    paper, job, asked, answer>>
    BY <1>8 DEF vars, limiterVars, printVars
  <2>2. TypeOK'
    BY <2>1 DEF IInv, TypeOK, L!TypeOK
  <2> QED BY <2>1, <2>2, AsideInv DEF IInv, Templated
<1> QED BY <1>1, <1>2, <1>3, <1>4, <1>5, <1>6, <1>7, <1>8 DEF Next, Handle, CliStep

LEMMA Invariant == Spec => []IInv
BY Initially, Inductive, PTL DEF Spec

\* The state of the limiter, the store, the loop and the answers is well typed.
THEOREM TypeCorrect == Spec => []TypeOK
<1>1. IInv => TypeOK
  BY DEF IInv
<1> QED BY <1>1, Invariant, PTL

\* Whatever max_concurrent is, from 1 up: the semaphore never refuses a print,
\* for a handler that holds a permit holds the event loop too.
THEOREM SemaphoreIdle == Spec => []NeverBusy
<1>1. IInv => NeverBusy
  BY DEF IInv
<1> QED BY <1>1, Invariant, PTL

\* Whichever step of a print fails, its answer is true of the labels.
THEOREM AnswersTrue == Spec => []AnswerTellsPaper
<1>1. IInv => AnswerTellsPaper
  <2> SUFFICES ASSUME IInv, NEW r \in Requests, answer[r] # "none"
               PROVE  /\ answer[r] = "ok" => paper[r] = asked[r] /\ job[r] = "submitted"
                      /\ answer[r] \in {"not_found", "bad_request", "too_many"} => paper[r] = 0
    BY DEF AnswerTellsPaper
  <2>1. phase[r] \in {"rate_limited", "done"}
    BY DEF IInv, Told, NeverBusy, TypeOK, L!TypeOK, L!Phases
  <2> QED BY <2>1 DEF IInv, Told, Outcome
<1> QED BY <1>1, Invariant, PTL

\* Whichever step of a print fails, its job record is true of the labels.
THEOREM JobsTrue == Spec => []JobTellsPaper
<1>1. IInv => JobTellsPaper
  <2> SUFFICES ASSUME IInv, NEW r \in Requests
               PROVE  /\ job[r] = "submitted" => paper[r] = asked[r]
                      /\ job[r] = "failed" => paper[r] < asked[r] /\ answer[r] \notin {"ok", "not_found"}
                      /\ job[r] = "none" /\ paper[r] > 0 => answer[r] \in {"none", "error"}
    BY DEF JobTellsPaper
  <2>1. CASE phase[r] \in {"rate_limited", "done"}
    BY <2>1 DEF IInv, Told, Outcome
  <2>2. CASE phase[r] = "new"
    BY <2>2, Typed DEF IInv, Told
  <2>3. CASE phase[r] = "running"
    <3>1. loop.step \in Handling /\ r = loop.request /\ answer[r] = "none"
      BY <2>3 DEF IInv, Holder, Told
    <3> QED BY <3>1 DEF IInv, AtHand, Outcome, Handling
  <2> QED BY <2>1, <2>2, <2>3 DEF IInv, NeverBusy, TypeOK, L!TypeOK, L!Phases
<1> QED BY <1>1, Invariant, PTL

\* Whatever CLI processes do to a template: what is sent is a content that it
\* had, undeleted, at some moment since the print was admitted.
THEOREM CurrentTemplatePrinted == Spec => []PrintsCurrentTemplate
<1>1. IInv => PrintsCurrentTemplate
  BY DEF IInv
<1> QED BY <1>1, Invariant, PTL

-----------------------------------------------------------------------------
(* The service, seen from the limiter, is the limiter.                     *)

LEMMA BesideTheLimiter ==
  ASSUME UNCHANGED limiterVars PROVE UNCHANGED L!vars
BY DEF limiterVars, L!vars

LEMMA StepsOfTheLimiter == IInv /\ [Next]_vars => [L!Next]_(L!vars)
<1> SUFFICES ASSUME IInv, [Next]_vars PROVE [L!Next]_(L!vars)
  OBVIOUS
<1>1. CASE Tick
  BY <1>1 DEF Tick, L!Next
<1>2. ASSUME NEW c \in Clients, NEW r \in Requests, Arrive(c, r) PROVE L!Next
  BY <1>2 DEF Arrive, L!Next
<1>3. CASE Respond
  <2>1. loop.request \in Requests /\ L!Release(loop.request)
    BY <1>3 DEF Respond, IInv, Holder, Handling
  <2> QED BY <2>1 DEF L!Next
<1>4. CASE \/ NotResolved \/ Resolved \/ BuildLabel \/ ReadFails
           \/ SendCopy \/ SendFails \/ RecordJob \/ RecordFails
           \/ ReadBack \/ DeleteCommit
           \/ \E n \in Templates : SaveTemplate(n) \/ DeleteTemplate(n)
  <2>1. UNCHANGED limiterVars
    BY <1>4 DEF NotResolved, Resolved, BuildLabel, ReadFails, SendCopy, SendFails, RecordJob,
         RecordFails, ReadBack, DeleteCommit, SaveTemplate, DeleteTemplate
  <2> QED BY <2>1, BesideTheLimiter
<1>5. ASSUME NEW p \in Processes, CliStep(p) PROVE UNCHANGED L!vars
  <2>1. UNCHANGED limiterVars
    BY <1>5 DEF CliStep, CliStart, CliSeed, CliSeeded, CliSave, CliDelete, CliDeleteCommit, CliQuit
  <2> QED BY <2>1, BesideTheLimiter
<1>6. CASE UNCHANGED vars
  BY <1>6, BesideTheLimiter DEF vars
<1> QED BY <1>1, <1>2, <1>3, <1>4, <1>5, <1>6 DEF Next, Handle, CliStep

\* Whatever a print does and wherever it fails, it acquires at most once and,
\* when that admitted it, releases once: the limiter's own theorems hold here.
THEOREM ServiceIsLimiter == Spec => LimiterSpec
<1>1. Init => L!Init
  BY DEF Init
<1> QED BY <1>1, Invariant, StepsOfTheLimiter, PTL DEF Spec, LimiterSpec, L!Spec

=============================================================================
