--------------------------- MODULE PrintAdmission ---------------------------
(***************************************************************************)
(* What the print rate limiter of zebra_day/web/middleware.py promises,    *)
(* without saying how it keeps its books: a sliding window over the        *)
(* complete history of admissions, and a cap on the print operations in    *)
(* progress.  A request is admitted exactly when both limits allow it, the *)
(* rate limit being looked at first.                                       *)
(***************************************************************************)
EXTENDS Integers, FiniteSets

CONSTANTS
  Clients,        (* client addresses                                      *)
  Requests,       (* print requests, each sent once                        *)
  MaxRequests,    (* admissions per client and window                      *)
  Window,         (* length of the window, in clock units                  *)
  MaxConcurrent   (* print operations in progress at a time                *)

VARIABLES
  now,            (* the wall clock                                        *)
  phase,          (* what became of each request                           *)
  stamp,          (* the clock reading at which a request was admitted     *)
  admitted        (* the requests admitted so far, per client              *)

absVars == <<now, phase, stamp, admitted>>

Running == {r \in Requests : phase[r] = "running"}

(* The admissions of client c in the window that ends now. *)
InWindow(c) == {r \in admitted[c] : stamp[r] > now - Window}

----------------------------------------------------------------------------
AbsInit ==
  /\ now = 0
  /\ phase = [r \in Requests |-> "new"]
  /\ stamp = [r \in Requests |-> 0]
  /\ admitted = [c \in Clients |-> {}]

(* Time passes. *)
AbsTick ==
  /\ now' \in {t \in Nat : t > now}
  /\ UNCHANGED <<phase, stamp, admitted>>

AbsAdmit(c, r) ==
  /\ phase[r] = "new"
  /\ Cardinality(InWindow(c)) < MaxRequests
  /\ Cardinality(Running) < MaxConcurrent
  /\ phase' = [phase EXCEPT ![r] = "running"]
  /\ stamp' = [stamp EXCEPT ![r] = now]
  /\ admitted' = [admitted EXCEPT ![c] = @ \cup {r}]
  /\ UNCHANGED now

AbsRefuseRate(c, r) ==
  /\ phase[r] = "new"
  /\ Cardinality(InWindow(c)) >= MaxRequests
  /\ phase' = [phase EXCEPT ![r] = "rate_limited"]
  /\ UNCHANGED <<now, stamp, admitted>>

AbsRefuseBusy(c, r) ==
  /\ phase[r] = "new"
  /\ Cardinality(InWindow(c)) < MaxRequests
  /\ Cardinality(Running) >= MaxConcurrent
  /\ phase' = [phase EXCEPT ![r] = "busy"]
  /\ UNCHANGED <<now, stamp, admitted>>

AbsFinish(r) ==
  /\ phase[r] = "running"
  /\ phase' = [phase EXCEPT ![r] = "done"]
  /\ UNCHANGED <<now, stamp, admitted>>

AbsNext ==
  \/ AbsTick
  \/ \E c \in Clients, r \in Requests :
       AbsAdmit(c, r) \/ AbsRefuseRate(c, r) \/ AbsRefuseBusy(c, r)
  \/ \E r \in Requests : AbsFinish(r)

AbsSpec == AbsInit /\ [][AbsNext]_absVars
=============================================================================
