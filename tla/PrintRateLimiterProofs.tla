----------------------- MODULE PrintRateLimiterProofs -----------------------
(***************************************************************************)
(* Proofs about PrintRateLimiter for all clients, requests and limits: the *)
(* type invariant, the three safety invariants, and the refinement of      *)
(* PrintAdmission.                                                         *)
(*                                                                         *)
(* None of the safety invariants is inductive alone.  WindowBound is kept  *)
(* by an admission because the pruned log is all there is in the window    *)
(* (LogKeepsWindow), and that needs the log to hold only admitted requests *)
(* with readings in the past (Bookkeeping).                                *)
(***************************************************************************)
EXTENDS PrintRateLimiter, FiniteSetTheorems, TLAPS

Bookkeeping ==
  /\ IsFiniteSet(Running)
  /\ \A c \in Clients :
       /\ log[c] \subseteq admitted[c]
       /\ IsFiniteSet(log[c])
       /\ \A r \in admitted[c] : stamp[r] <= now /\ phase[r] # "new"

IInv == TypeOK /\ Bookkeeping /\ LogKeepsWindow /\ PermitsBalance /\ WindowBound

----------------------------------------------------------------------------
(* A subset of a finite set is finite and no larger. *)
LEMMA SubsetBound ==
  ASSUME NEW S, IsFiniteSet(S), NEW T, T \subseteq S
  PROVE  /\ IsFiniteSet(T)
         /\ Cardinality(T) \in Nat
         /\ Cardinality(S) \in Nat
         /\ Cardinality(T) <= Cardinality(S)
BY FS_Subset, FS_CardinalityType

(* One more element is counted once. *)
LEMMA AddOne ==
  ASSUME NEW S, IsFiniteSet(S), NEW x, x \notin S
  PROVE  /\ IsFiniteSet(S \cup {x})
         /\ Cardinality(S \cup {x}) = Cardinality(S) + 1
BY FS_AddElement

LEMMA RemoveOne ==
  ASSUME NEW S, IsFiniteSet(S), NEW x, x \in S
  PROVE  /\ IsFiniteSet(S \ {x})
         /\ Cardinality(S \ {x}) = Cardinality(S) - 1
BY FS_RemoveElement

(* The pruned log is finite, and it is exactly the client's admissions in  *)
(* the window that ends now: the log that acquire prunes loses nothing.    *)
LEMMA KeptIsWindow ==
  ASSUME IInv, NEW c \in Clients
  PROVE  /\ Kept(c) \subseteq log[c]
         /\ IsFiniteSet(Kept(c))
         /\ Cardinality(Kept(c)) \in Nat
         /\ Kept(c) = {r \in admitted[c] : stamp[r] > now - Window}
         /\ Kept(c) = WindowEndingAt(c, now)
<1>1. Kept(c) \subseteq log[c]
  BY DEF Kept
<1>2. IsFiniteSet(Kept(c)) /\ Cardinality(Kept(c)) \in Nat
  BY <1>1, SubsetBound DEF IInv, Bookkeeping
<1>3. Kept(c) = {r \in admitted[c] : stamp[r] > now - Window}
  BY DEF IInv, Bookkeeping, LogKeepsWindow, Kept
<1>4. Kept(c) = WindowEndingAt(c, now)
  BY <1>3 DEF IInv, Bookkeeping, WindowEndingAt
<1> QED
  BY <1>1, <1>2, <1>3, <1>4

----------------------------------------------------------------------------
LEMMA InitIInv == Init => IInv
<1> SUFFICES ASSUME Init
             PROVE  IInv
  OBVIOUS
<1>1. TypeOK
  BY LimiterAssumption DEF Init, TypeOK, Phases
<1>2. Running = {} /\ \A c \in Clients : admitted[c] = {} /\ log[c] = {}
  BY DEF Init, Running
<1>3. Bookkeeping /\ LogKeepsWindow /\ WindowBound
  BY <1>2, FS_EmptySet DEF Bookkeeping, LogKeepsWindow, WindowBound
<1>4. PermitsBalance
  BY <1>2, FS_EmptySet, LimiterAssumption DEF PermitsBalance, Init
<1> QED
  BY <1>1, <1>3, <1>4 DEF IInv

(* Time passing moves windows forward and nothing else. *)
LEMMA TickIInv ==
  ASSUME IInv, Tick
  PROVE  IInv'
<1>1. TypeOK'
  BY DEF IInv, Tick, TypeOK
<1>2. Bookkeeping'
  BY DEF IInv, Tick, TypeOK, Bookkeeping, Running
<1>3. LogKeepsWindow'
  BY LimiterAssumption DEF IInv, Tick, TypeOK, LogKeepsWindow
<1>4. PermitsBalance'
  BY DEF IInv, Tick, PermitsBalance, Running
<1>5. WindowBound'
  BY DEF IInv, Tick, WindowBound, WindowEndingAt
<1> QED
  BY <1>1, <1>2, <1>3, <1>4, <1>5 DEF IInv

(* A refusal prunes the log and ends the request; nobody's permit and no   *)
(* admission changes.                                                      *)
LEMMA RefuseIInv ==
  ASSUME IInv, NEW c \in Clients, NEW r \in Requests,
         RefuseRate(c, r) \/ RefuseBusy(c, r)
  PROVE  IInv'
<1> USE DEF RefuseRate, RefuseBusy
<1>1. /\ phase[r] = "new"
      /\ log' = [log EXCEPT ![c] = Kept(c)]
      /\ UNCHANGED <<now, permits, stamp, admitted>>
      /\ \A q \in Requests : q # r => phase'[q] = phase[q]
      /\ phase'[r] \notin {"new", "running"}
      /\ phase' \in [Requests -> Phases]
  BY DEF IInv, TypeOK, Phases
<1>2. TypeOK'
  BY <1>1, KeptIsWindow DEF IInv, TypeOK
<1>3. Running' = Running
  BY <1>1 DEF Running
<1>4. Bookkeeping'
  <2>1. \A d \in Clients : log'[d] \subseteq log[d] /\ IsFiniteSet(log'[d])
    BY <1>1, KeptIsWindow DEF IInv, TypeOK, Bookkeeping
  <2>2. \A d \in Clients : \A q \in admitted[d] : phase'[q] # "new"
    BY <1>1 DEF IInv, TypeOK, Bookkeeping
  <2> QED
    BY <1>1, <1>3, <2>1, <2>2 DEF IInv, Bookkeeping
<1>5. LogKeepsWindow'
  BY <1>1 DEF IInv, TypeOK, LogKeepsWindow, Kept
<1>6. PermitsBalance' /\ WindowBound'
  BY <1>1, <1>3 DEF IInv, PermitsBalance, WindowBound, WindowEndingAt
<1> QED
  BY <1>2, <1>4, <1>5, <1>6 DEF IInv

(* The end of a print gives back the one permit its request held. *)
LEMMA ReleaseIInv ==
  ASSUME IInv, NEW r \in Requests, Release(r)
  PROVE  IInv'
<1> USE DEF Release
<1>1. r \in Running /\ Running' = Running \ {r}
  BY DEF IInv, TypeOK, Running
<1>2. /\ IsFiniteSet(Running')
      /\ Cardinality(Running') = Cardinality(Running) - 1
      /\ Cardinality(Running) \in Nat
      /\ Cardinality(Running') \in Nat
  BY <1>1, RemoveOne, FS_CardinalityType DEF IInv, Bookkeeping
<1>3. PermitsBalance'
  BY <1>2 DEF IInv, TypeOK, PermitsBalance
<1>4. TypeOK'
  BY <1>2, <1>3, LimiterAssumption DEF IInv, TypeOK, Phases, PermitsBalance
<1>5. Bookkeeping'
  BY <1>2 DEF IInv, TypeOK, Bookkeeping
<1>6. LogKeepsWindow' /\ WindowBound'
  BY DEF IInv, LogKeepsWindow, WindowBound, WindowEndingAt
<1> QED
  BY <1>3, <1>4, <1>5, <1>6 DEF IInv

(* An admission: the window that ends now gains one request and stays      *)
(* within the limit, windows that ended earlier are what they were.        *)
LEMMA AdmitIInv ==
  ASSUME IInv, NEW c \in Clients, NEW r \in Requests, Admit(c, r)
  PROVE  IInv'
<1> USE DEF Admit
<1>1. /\ phase[r] = "new"
      /\ \A d \in Clients : r \notin admitted[d] /\ r \notin log[d]
      /\ \A d \in Clients : \A q \in admitted[d] : stamp'[q] = stamp[q]
      /\ stamp'[r] = now
      /\ UNCHANGED now
  BY DEF IInv, TypeOK, Bookkeeping
<1>2. /\ admitted'[c] = admitted[c] \cup {r}
      /\ log'[c] = Kept(c) \cup {r}
      /\ \A d \in Clients : d # c => admitted'[d] = admitted[d] /\ log'[d] = log[d]
  BY DEF IInv, TypeOK
<1>3. /\ r \notin Kept(c)
      /\ IsFiniteSet(Kept(c) \cup {r})
      /\ Cardinality(Kept(c) \cup {r}) \in Nat
      /\ Cardinality(Kept(c) \cup {r}) <= MaxRequests
  <2>1. r \notin Kept(c) /\ Cardinality(Kept(c)) < MaxRequests
    BY <1>1, KeptIsWindow, LimiterAssumption DEF RateExceeded
  <2>2. IsFiniteSet(Kept(c)) /\ Cardinality(Kept(c)) \in Nat
    BY KeptIsWindow
  <2>3. /\ IsFiniteSet(Kept(c) \cup {r})
        /\ Cardinality(Kept(c) \cup {r}) = Cardinality(Kept(c)) + 1
    BY <2>1, <2>2, AddOne
  <2> QED
    BY <2>1, <2>2, <2>3, LimiterAssumption
<1>4. r \notin Running /\ Running' = Running \cup {r}
  BY DEF IInv, TypeOK, Running
<1>5. /\ IsFiniteSet(Running')
      /\ Cardinality(Running') = Cardinality(Running) + 1
      /\ Cardinality(Running) \in Nat
  BY <1>4, AddOne, FS_CardinalityType DEF IInv, Bookkeeping
<1>6. PermitsBalance'
  BY <1>5 DEF IInv, TypeOK, PermitsBalance
<1>7. TypeOK'
  <2>1. permits' \in 0..MaxConcurrent
    BY LimiterAssumption DEF IInv, TypeOK
  <2>2. log' \in [Clients -> SUBSET Requests]
    BY DEF IInv, TypeOK, Kept
  <2> QED
    BY <2>1, <2>2 DEF IInv, TypeOK, Phases
<1>8. Bookkeeping'
  <2>1. \A d \in Clients : log'[d] \subseteq admitted'[d] /\ IsFiniteSet(log'[d])
    BY <1>2, <1>3, KeptIsWindow DEF IInv, Bookkeeping
  <2>2. phase'[r] # "new" /\ \A q \in Requests : q # r => phase'[q] = phase[q]
    BY DEF IInv, TypeOK
  <2>3. \A d \in Clients : \A q \in admitted'[d] : stamp'[q] <= now' /\ phase'[q] # "new"
    BY <1>1, <1>2, <2>2 DEF IInv, TypeOK, Bookkeeping
  <2> QED
    BY <1>5, <2>1, <2>3 DEF Bookkeeping
<1>9. LogKeepsWindow'
  BY <1>1, <1>2 DEF IInv, LogKeepsWindow, Kept
<1>10. WindowBound'
  <2> SUFFICES ASSUME NEW d \in Clients, NEW a \in admitted'[d]
               PROVE  Cardinality(WindowEndingAt(d, stamp[a])') <= MaxRequests
    BY DEF WindowBound
  <2>1. CASE d # c
    <3>1. WindowEndingAt(d, stamp[a])' = WindowEndingAt(d, stamp[a])
      BY <1>1, <1>2, <2>1 DEF WindowEndingAt
    <3> QED
      BY <1>2, <2>1, <3>1 DEF IInv, WindowBound
  <2>2. CASE d = c /\ stamp'[a] = now
    <3>1. WindowEndingAt(c, stamp[a])' \subseteq Kept(c) \cup {r}
      BY <1>1, <1>2, <2>2, KeptIsWindow DEF WindowEndingAt
    <3> QED
      BY <1>3, <2>2, <3>1, SubsetBound, LimiterAssumption
  <2>3. CASE d = c /\ stamp'[a] # now
    <3>1. a \in admitted[c] /\ stamp'[a] = stamp[a] /\ stamp[a] < now
      BY <1>1, <1>2, <2>3 DEF IInv, TypeOK, Bookkeeping
    <3>2. WindowEndingAt(c, stamp[a])' = WindowEndingAt(c, stamp[a])
      BY <1>1, <1>2, <3>1 DEF IInv, TypeOK, WindowEndingAt
    <3> QED
      BY <2>3, <3>1, <3>2 DEF IInv, WindowBound
  <2> QED
    BY <2>1, <2>2, <2>3
<1> QED
  BY <1>6, <1>7, <1>8, <1>9, <1>10 DEF IInv

LEMMA NextIInv == IInv /\ [Next]_vars => IInv'
<1> SUFFICES ASSUME IInv, [Next]_vars
             PROVE  IInv'
  OBVIOUS
<1>1. CASE Tick
  BY <1>1, TickIInv
<1>2. CASE \E c \in Clients, r \in Requests : Acquire(c, r)
  BY <1>2, AdmitIInv, RefuseIInv DEF Acquire
<1>3. CASE \E r \in Requests : Release(r)
  BY <1>3, ReleaseIInv
<1>4. CASE UNCHANGED vars
  BY <1>4 DEF vars, IInv, TypeOK, Bookkeeping, LogKeepsWindow, PermitsBalance,
              WindowBound, WindowEndingAt, Running
<1> QED
  BY <1>1, <1>2, <1>3, <1>4 DEF Next

LEMMA AlwaysIInv == Spec => []IInv
BY InitIInv, NextIInv, PTL DEF Spec

----------------------------------------------------------------------------
(* The limiter's variables keep their types; in particular the semaphore's *)
(* value stays between 0 and max_concurrent, although asyncio's Semaphore  *)
(* would let a stray release raise it.                                     *)
THEOREM TypeCorrect == Spec => []TypeOK
<1>1. IInv => TypeOK
  BY DEF IInv
<1> QED
  BY <1>1, AlwaysIInv, PTL

(* No client is ever admitted more than max_requests times in a window     *)
(* (PrintRateLimiter.acquire).                                             *)
THEOREM WindowBounded == Spec => []WindowBound
<1>1. IInv => WindowBound
  BY DEF IInv
<1> QED
  BY <1>1, AlwaysIInv, PTL

(* Permits are neither lost nor invented (acquire and release).            *)
THEOREM PermitsBalanced == Spec => []PermitsBalance
<1>1. IInv => PermitsBalance
  BY DEF IInv
<1> QED
  BY <1>1, AlwaysIInv, PTL

(* Pruning forgets no admission that a later call must count.              *)
THEOREM LogComplete == Spec => []LogKeepsWindow
<1>1. IInv => LogKeepsWindow
  BY DEF IInv
<1> QED
  BY <1>1, AlwaysIInv, PTL

----------------------------------------------------------------------------
(* The abstract module counts with its own instance of FiniteSets. *)
LEMMA SameCardinality ==
  ASSUME NEW S
  PROVE  Admission!Cardinality(S) = Cardinality(S)
BY DEF Cardinality, Admission!Cardinality

(* The limiter that prunes and counts permits implements the one that      *)
(* remembers every admission: the same requests are admitted, and the same *)
(* refused for the same reason.                                            *)
THEOREM ImplementsAdmission == Spec => AdmissionSpec
<1>1. Init => Admission!AbsInit
  BY DEF Init, Admission!AbsInit
<1>2. IInv /\ [Next]_vars => [Admission!AbsNext]_(Admission!absVars)
  <2> SUFFICES ASSUME IInv, [Next]_vars
               PROVE  [Admission!AbsNext]_(Admission!absVars)
    OBVIOUS
  <2>1. ASSUME Tick
        PROVE  Admission!AbsTick
    BY <2>1 DEF Tick, Admission!AbsTick, IInv, TypeOK
  <2>2. Cardinality(Running) \in Nat /\ Admission!Running = Running
    BY FS_CardinalityType DEF IInv, Bookkeeping, Running, Admission!Running
  <2>3. \A c \in Clients : Admission!InWindow(c) = Kept(c) /\ Cardinality(Kept(c)) \in Nat
    BY KeptIsWindow DEF Admission!InWindow
  <2>4. ASSUME NEW c \in Clients, NEW r \in Requests, Admit(c, r)
        PROVE  Admission!AbsAdmit(c, r)
    <3>1. Cardinality(Kept(c)) < MaxRequests
      BY <2>3, <2>4, LimiterAssumption DEF Admit, RateExceeded
    <3>2. Cardinality(Running) < MaxConcurrent
      BY <2>2, <2>4, LimiterAssumption DEF Admit, IInv, TypeOK, PermitsBalance
    <3> QED
      BY <2>2, <2>3, <2>4, <3>1, <3>2, SameCardinality DEF Admit, Admission!AbsAdmit
  <2>5. ASSUME NEW c \in Clients, NEW r \in Requests, RefuseRate(c, r)
        PROVE  Admission!AbsRefuseRate(c, r)
    BY <2>3, <2>5, SameCardinality, LimiterAssumption DEF RefuseRate, RateExceeded, Admission!AbsRefuseRate
  <2>6. ASSUME NEW c \in Clients, NEW r \in Requests, RefuseBusy(c, r)
        PROVE  Admission!AbsRefuseBusy(c, r)
    <3>1. Cardinality(Kept(c)) < MaxRequests
      BY <2>3, <2>6, LimiterAssumption DEF RefuseBusy, RateExceeded
    <3>2. Cardinality(Running) >= MaxConcurrent
      BY <2>2, <2>6, LimiterAssumption DEF RefuseBusy, IInv, TypeOK, PermitsBalance
    <3> QED
      BY <2>2, <2>3, <2>6, <3>1, <3>2, SameCardinality DEF RefuseBusy, Admission!AbsRefuseBusy
  <2>7. ASSUME NEW r \in Requests, Release(r)
        PROVE  Admission!AbsFinish(r)
    BY <2>7 DEF Release, Admission!AbsFinish
  <2>8. CASE UNCHANGED vars
    BY <2>8 DEF vars, Admission!absVars
  <2> QED
    BY <2>1, <2>4, <2>5, <2>6, <2>7, <2>8 DEF Next, Acquire, Admission!AbsNext
<1> QED
  BY <1>1, <1>2, AlwaysIInv, PTL DEF Spec, AdmissionSpec, Admission!AbsSpec
=============================================================================
