-------------------------- MODULE PrintRateLimiter --------------------------
(***************************************************************************)
(* PrintRateLimiter (zebra_day/web/middleware.py): acquire and release as  *)
(* coroutines of one asyncio event loop call them.                         *)
(*                                                                         *)
(* acquire has no await between taking the (then always free) asyncio.Lock *)
(* and the semaphore's fast path, so a call is one step: it prunes the     *)
(* client's log, then refuses on the rate, or refuses because no permit is *)
(* left, or records the reading and takes a permit.  release is called     *)
(* once for each admitted request (the handler's finally clause), after    *)
(* any delay.                                                              *)
(*                                                                         *)
(* The list of readings kept for a client is the set of the requests they  *)
(* were taken for; stamp[r] is the reading.  `admitted` is a history       *)
(* variable: what the code has forgotten, the properties still see.        *)
(***************************************************************************)
EXTENDS Integers, FiniteSets

CONSTANTS
  Clients,        (* client addresses                                      *)
  Requests,       (* print requests, each sent once                        *)
  MaxRequests,    (* max_requests: admissions per client and window        *)
  Window,         (* window_seconds, in clock units                        *)
  MaxConcurrent,  (* max_concurrent: the semaphore's initial value         *)
  MaxTime         (* bound of the checked clock                            *)

ASSUME LimiterAssumption ==
  /\ MaxRequests \in Nat
  /\ Window \in Nat
  /\ MaxConcurrent \in Nat
  /\ MaxTime \in Nat

VARIABLES
  now,            (* time.time()                                           *)
  log,            (* _request_times                                        *)
  permits,        (* _semaphore._value                                     *)
  phase,          (* what became of each request                           *)
  stamp,          (* the reading recorded for an admitted request          *)
  admitted        (* history: the requests admitted so far, per client     *)

vars == <<now, log, permits, phase, stamp, admitted>>

Phases == {"new", "running", "rate_limited", "busy", "done"}

(* The requests that hold a permit. *)
Running == {r \in Requests : phase[r] = "running"}

TypeOK ==
  /\ now \in Nat
  /\ log \in [Clients -> SUBSET Requests]
  /\ permits \in 0..MaxConcurrent
  /\ phase \in [Requests -> Phases]
  /\ stamp \in [Requests -> Nat]
  /\ admitted \in [Clients -> SUBSET Requests]

Init ==
  /\ now = 0
  /\ log = [c \in Clients |-> {}]
  /\ permits = MaxConcurrent
  /\ phase = [r \in Requests |-> "new"]
  /\ stamp = [r \in Requests |-> 0]
  /\ admitted = [c \in Clients |-> {}]

----------------------------------------------------------------------------
(* Faulty variants, for the mutants: the window's edge moved either way,   *)
(* the comparison with the limit off by one, and a refusal that runs the   *)
(* handler's release.                                                      *)
KeptTooLong(c) == {r \in log[c] : stamp[r] >= now - Window}
KeptTooShort(c) == {r \in log[c] : stamp[r] > now - Window + 1}

(* The readings of c that survive the pruning of an acquire call. *)
Kept(c) == {r \in log[c] : stamp[r] > now - Window}

RateExceededOffByOne(c) == Cardinality(Kept(c)) > MaxRequests
RateExceeded(c) == Cardinality(Kept(c)) >= MaxRequests

----------------------------------------------------------------------------
Tick ==
  /\ now < MaxTime
  /\ now' = now + 1
  /\ UNCHANGED <<log, permits, phase, stamp, admitted>>

(* acquire answers (True, ""). *)
Admit(c, r) ==
  /\ phase[r] = "new"
  /\ ~RateExceeded(c)
  /\ permits > 0
  /\ log' = [log EXCEPT ![c] = Kept(c) \cup {r}]
  /\ stamp' = [stamp EXCEPT ![r] = now]
  /\ admitted' = [admitted EXCEPT ![c] = @ \cup {r}]
  /\ permits' = permits - 1
  /\ phase' = [phase EXCEPT ![r] = "running"]
  /\ UNCHANGED now

RefuseRateAndRelease(c, r) ==
  /\ phase[r] = "new"
  /\ RateExceeded(c)
  /\ log' = [log EXCEPT ![c] = Kept(c)]
  /\ phase' = [phase EXCEPT ![r] = "rate_limited"]
  /\ permits' = permits + 1
  /\ UNCHANGED <<now, stamp, admitted>>

(* acquire answers (False, "Rate limit exceeded..."); the pruned log stays. *)
RefuseRate(c, r) ==
  /\ phase[r] = "new"
  /\ RateExceeded(c)
  /\ log' = [log EXCEPT ![c] = Kept(c)]
  /\ phase' = [phase EXCEPT ![r] = "rate_limited"]
  /\ UNCHANGED <<now, permits, stamp, admitted>>

(* acquire answers (False, "Too many concurrent print operations..."): the *)
(* reading is not recorded.                                                *)
RefuseBusy(c, r) ==
  /\ phase[r] = "new"
  /\ ~RateExceeded(c)
  /\ permits = 0
  /\ log' = [log EXCEPT ![c] = Kept(c)]
  /\ phase' = [phase EXCEPT ![r] = "busy"]
  /\ UNCHANGED <<now, permits, stamp, admitted>>

Acquire(c, r) == Admit(c, r) \/ RefuseRate(c, r) \/ RefuseBusy(c, r)

(* release, when the operation of an admitted request is over. *)
Release(r) ==
  /\ phase[r] = "running"
  /\ permits' = permits + 1
  /\ phase' = [phase EXCEPT ![r] = "done"]
  /\ UNCHANGED <<now, log, stamp, admitted>>

Next ==
  \/ Tick
  \/ \E c \in Clients, r \in Requests : Acquire(c, r)
  \/ \E r \in Requests : Release(r)

Spec == Init /\ [][Next]_vars

----------------------------------------------------------------------------
(* The admissions of c in the window that ends at reading t. *)
WindowEndingAt(c, t) ==
  {b \in admitted[c] : stamp[b] > t - Window /\ stamp[b] <= t}

(* No window of window_seconds that ends with an admission holds more than *)
(* max_requests admissions of one client, over the whole history and not   *)
(* only over what the pruned list still shows (PrintRateLimiter.acquire).  *)
WindowBound ==
  \A c \in Clients : \A a \in admitted[c] :
    Cardinality(WindowEndingAt(c, stamp[a])) <= MaxRequests

(* Every permit that is not in the semaphore belongs to exactly one print  *)
(* in progress: none leaks on a refusal and none is released twice.        *)
PermitsBalance == permits + Cardinality(Running) = MaxConcurrent

(* Pruning with the reading of one call never drops an admission that a    *)
(* later call must still count.                                            *)
LogKeepsWindow ==
  \A c \in Clients : \A r \in admitted[c] :
    stamp[r] > now - Window => r \in log[c]

(* The limiter decides exactly as one that remembers every admission and   *)
(* counts the prints in progress: it admits nothing it should refuse, and  *)
(* refuses nothing, for either reason, that it should admit.               *)
Admission == INSTANCE PrintAdmission WITH
  now <- now, phase <- phase, stamp <- stamp, admitted <- admitted
AdmissionSpec == Admission!AbsSpec
=============================================================================
