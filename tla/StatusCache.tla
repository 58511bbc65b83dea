---------------------------- MODULE StatusCache ----------------------------
(***************************************************************************)
(* The live status of printers (zebra_day/cmd_mgr.py), as "zday printer    *)
(* list --live" asks for it: a status is put together from five queries,   *)
(* each a connection of its own that may fail, while time passes and the   *)
(* printer changes, and it is kept for Ttl under the time at which the     *)
(* call began.  Calls come one after another.                              *)
(***************************************************************************)
EXTENDS Naturals, Sequences

CONSTANTS
  Printers, NoPrinter,
  Conditions,  \* what a printer may be found to be
  Ttl,         \* CACHE_TTL
  MaxClock,    \* bound: time
  MaxTurns     \* bound: changes of the printers' conditions

ASSUME StatusAssumption ==
  Ttl \in Nat \ {0} /\ MaxClock \in Nat /\ MaxTurns \in Nat /\ NoPrinter \notin Printers

Times == 0..MaxClock

Queries == <<"host_id", "serial", "error_status", "odometer", "host_status">>
Fields == {Queries[i] : i \in DOMAIN Queries}
NoStatus == [f \in Fields |-> ""]

VARIABLES
  clock,
  condition, \* of each printer, now
  turns,     \* how often one has changed
  past,      \* the conditions of a printer in each unit of time so far
  asking,    \* the printer that is asked for, or NoPrinter
  forced,    \* force_refresh
  now,       \* when the call began
  step,      \* queries made: 0 before the cache is looked up
  status,    \* what they have brought so far
  cached,    \* the printers with an entry in the cache
  stored,    \* its status
  stamp,     \* its time
  answer     \* the last answer

statusVars == <<clock, condition, turns, past, asking, forced, now, step, status,
          cached, stored, stamp, answer>>
printers == <<clock, condition, turns, past>>
call == <<asking, forced, now, step, status>>
cache == <<cached, stored, stamp>>

Found(conditions) ==
  /\ clock = 0 /\ turns = 0 /\ condition = conditions
  /\ past = [p \in Printers |-> [t \in Times |-> IF t = 0 THEN {condition[p]} ELSE {}]]
  /\ asking = NoPrinter /\ forced = FALSE /\ now = 0 /\ step = 0 /\ status = NoStatus
  /\ cached = {} /\ stored = [p \in Printers |-> NoStatus]
  /\ stamp = [p \in Printers |-> 0] /\ answer = NoStatus

StatusInit == \E conditions \in [Printers -> Conditions] : Found(conditions)

-----------------------------------------------------------------------------
(* Time and the printers.                                                  *)

Witnessed(t, to) ==
  past' = [p \in Printers |-> [past[p] EXCEPT ![t] = past[p][t] \cup {to[p]}]]

Tick ==
  /\ clock < MaxClock /\ clock' = clock + 1 /\ Witnessed(clock + 1, condition)
  /\ UNCHANGED <<condition, turns, call, cache, answer>>

Turn(p, c) ==
  /\ turns < MaxTurns /\ turns' = turns + 1
  /\ condition[p] # c /\ condition' = [condition EXCEPT ![p] = c] /\ Witnessed(clock, condition')
  /\ UNCHANGED <<clock, call, cache, answer>>

-----------------------------------------------------------------------------
(* get_cached_status.                                                      *)

Ask(p, force) ==
  /\ asking = NoPrinter /\ asking' = p
  /\ forced' = force /\ now' = clock /\ answer' = NoStatus
  /\ UNCHANGED <<step, status, printers, cache>>

Fresh(p) == p \in cached /\ ~forced /\ now - stamp[p] < Ttl

Returns(s) ==
  /\ answer' = s /\ asking' = NoPrinter /\ forced' = FALSE /\ now' = 0
  /\ step' = 0 /\ status' = NoStatus

Hit ==
  /\ asking # NoPrinter /\ step = 0 /\ Fresh(asking)
  /\ Returns(stored[asking]) /\ UNCHANGED <<printers, cache>>

\* A query takes the printer's condition at one moment, or gets no reply or
\* one that cannot be read: its field stays blank.
Query ==
  /\ asking # NoPrinter /\ step < Len(Queries)
  /\ step = 0 => ~Fresh(asking)
  /\ step > 0 => status["host_id"] # ""
  /\ step' = step + 1
  /\ \E reply \in {condition[asking], ""} :
       status' = [status EXCEPT ![Queries[step + 1]] = reply]
  /\ UNCHANGED <<asking, forced, now, printers, cache, answer>>

\* Without an identification the printer counts as offline.
Finished == step = Len(Queries) \/ (step > 0 /\ status["host_id"] = "")

\* Mutant: the entry gets the time of the answer.
StoreLate ==
  /\ asking # NoPrinter /\ Finished
  /\ cached' = cached \cup {asking}
  /\ stored' = [stored EXCEPT ![asking] = status] /\ stamp' = [stamp EXCEPT ![asking] = clock]
  /\ Returns(status) /\ UNCHANGED printers

Store ==
  /\ asking # NoPrinter /\ Finished
  /\ cached' = cached \cup {asking}
  /\ stored' = [stored EXCEPT ![asking] = status] /\ stamp' = [stamp EXCEPT ![asking] = now]
  /\ Returns(status) /\ UNCHANGED printers

\* clear_printer_cache, for some printers or for all.
Clear(ps) ==
  /\ asking = NoPrinter /\ cached \cap ps # {} /\ cached' = cached \ ps
  /\ stored' = [p \in Printers |-> IF p \in ps THEN NoStatus ELSE stored[p]]
  /\ stamp' = [p \in Printers |-> IF p \in ps THEN 0 ELSE stamp[p]]
  /\ UNCHANGED <<printers, call, answer>>

StatusNext ==
  \/ Tick \/ (\E p \in Printers, c \in Conditions : Turn(p, c))
  \/ (\E p \in Printers, force \in BOOLEAN : Ask(p, force))
  \/ Hit \/ Query \/ Store
  \/ (\E p \in Printers : Clear({p})) \/ Clear(Printers)

StatusCacheSpec == StatusInit /\ [][StatusNext]_statusVars

-----------------------------------------------------------------------------

Statuses == [Fields -> Conditions \cup {""}]

StatusTypeOK ==
  /\ clock \in Times /\ turns \in 0..MaxTurns /\ condition \in [Printers -> Conditions]
  /\ past \in [Printers -> [Times -> SUBSET Conditions]]
  /\ asking \in Printers \cup {NoPrinter} /\ forced \in BOOLEAN /\ now \in 0..clock
  /\ step \in 0..Len(Queries) /\ status \in Statuses /\ answer \in Statuses
  /\ cached \subseteq Printers /\ stored \in [Printers -> Statuses]
  /\ stamp \in [Printers -> 0..clock]

Promised == INSTANCE FreshStatus WITH
  clock <- clock, past <- past, asking <- asking, since <- now, answer <- answer

\* Nothing older than the time to live.  However slow the printers are and
\* whatever they do between the queries, each field of an answer is blank or
\* was the printer's condition within Ttl before the call, or during it.
StatusSpec == Promised!Spec

=============================================================================
