---------------------------- MODULE FreshStatus ----------------------------
(***************************************************************************)
(* What a caller of get_cached_status may count on: every field of the     *)
(* status it is given is what the printer answered at a time no more than  *)
(* Ttl before the call, or is blank because the printer did not answer.    *)
(* There is no cache here, only what the printers' conditions have been.   *)
(***************************************************************************)
EXTENDS Naturals

CONSTANTS Printers, Conditions, Fields, Ttl, MaxClock, NoPrinter

Times == 0..MaxClock

\* The fields of a status are blank where it says nothing of the printer.
NoStatus == [f \in Fields |-> ""]

VARIABLES
  clock,
  past,     \* the conditions of a printer in each unit of time so far
  asking,   \* the printer that is asked for, or NoPrinter
  since,    \* when the call began
  answer    \* the last answer

vars == <<clock, past, asking, since, answer>>

\* The conditions of printer p since time t.
Since(p, t) == UNION {past[p][u] : u \in {v \in Times : t <= v}}

Init ==
  /\ clock = 0 /\ past \in [Printers -> [Times -> SUBSET Conditions]]
  /\ asking = NoPrinter /\ since = 0 /\ answer = NoStatus

\* Time and the printers' conditions go on, and add to the past only.
World ==
  /\ clock' \in {clock, clock + 1}
  /\ \E to \in [Printers -> Conditions] :
       past' = [p \in Printers |-> [past[p] EXCEPT ![clock'] = @ \cup {to[p]}]]
  /\ UNCHANGED <<asking, since, answer>>

Ask(p) ==
  /\ asking = NoPrinter /\ asking' = p /\ since' = clock /\ answer' = NoStatus
  /\ UNCHANGED <<clock, past>>

\* What no field of an answer may be older than.
Oldest == IF since < Ttl THEN 0 ELSE since - Ttl + 1

Answer ==
  /\ asking # NoPrinter /\ asking' = NoPrinter /\ since' = 0
  /\ answer' \in [Fields -> {""} \cup Since(asking, Oldest)]
  /\ UNCHANGED <<clock, past>>

Next == World \/ (\E p \in Printers : Ask(p)) \/ Answer

Spec == Init /\ [][Next]_vars

=============================================================================
