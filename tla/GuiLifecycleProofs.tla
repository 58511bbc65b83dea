------------------------- MODULE GuiLifecycleProofs -------------------------
(***************************************************************************)
(* Proofs of GuiLifecycle, for any shells, pids, endpoints and number of   *)
(* commands.                                                               *)
(*                                                                         *)
(* The argument: as long as commands have run one at a time, the one that  *)
(* runs knows what there is.  From the moment it has found no server, or   *)
(* has stopped the one it found, until it starts one, there is none; from  *)
(* then on there is only its own.  So the files, which nobody else writes, *)
(* fit the server.                                                         *)
(***************************************************************************)
EXTENDS GuiLifecycle, TLAPS

(* Steps of a command at which it knows that there is no server to be      *)
(* found, and at which the only one is its own.                            *)
Without == {"unlink", "ready", "openMeta", "writeMeta", "spawn", "unlinkPid", "clearMeta"}
WithOwn == {"wait", "openPid", "writePid"}

Alone == \A s, t \in Shells : Busy(s) /\ Busy(t) => s = t

NoneServing == \A s \in Shells : shell[s].pc \in Without => \A p \in Pids : ~Serving(p)

OnlyOwn ==
  \A s \in Shells : shell[s].pc \in WithOwn =>
    \A p \in Pids : Serving(p) => p = shell[s].pid

KillsNamed == \A s \in Shells : At(s, "kill") => pidFile = shell[s].pid

Named ==
  \A p \in Pids : Serving(p) =>
    pidFile = p \/ \E s \in Shells : shell[s].pid = p /\ shell[s].pc \in WithOwn

MetaFits ==
  /\ \A p \in Pids : Serving(p) => meta = proc[p].at
  /\ \A s \in Shells : At(s, "spawn") => meta = shell[s].at

(* A command that is to signal or to watch a process has its pid.          *)
HasPid == \A s \in Shells : shell[s].pc \in WithOwn \cup {"kill"} => shell[s].pid \in Pids

Knows == Alone /\ NoneServing /\ OnlyOwn /\ KillsNamed /\ Named /\ MetaFits

Types == TypeOK /\ HasPid
IInv == Types /\ (quiet => Knows)

----------------------------------------------------------------------------
(* What a step of one shell does to the shells.                            *)
LEMMA GoToFacts ==
  ASSUME NEW s \in Shells, NEW pc \in Waits, shell \in [Shells -> Shell], GoTo(s, pc)
  PROVE  /\ shell' \in [Shells -> Shell]
         /\ shell'[s].pc = pc
         /\ shell'[s].pid = shell[s].pid
         /\ shell'[s].at = shell[s].at
         /\ shell'[s].cmd = shell[s].cmd
         /\ \A t \in Shells : t # s => shell'[t] = shell[t]
BY DEF GoTo, Shell

LEMMA EndFacts ==
  ASSUME NEW s \in Shells,
         NEW answer \in {"already", "failed", "started", "stopped", "not running",
                         "refused", "reported"},
         shell \in [Shells -> Shell], End(s, answer)
  PROVE  /\ shell' \in [Shells -> Shell]
         /\ shell'[s].pc = "ended"
         /\ shell'[s].pid = shell[s].pid
         /\ \A t \in Shells : t # s => shell'[t] = shell[t]
<1>1. shell[s] \in Shell
  OBVIOUS
<1>2. [shell[s] EXCEPT !.pc = "ended", !.answer = answer] \in Shell
  BY <1>1 DEF Shell, Waits
<1>3. shell' = [shell EXCEPT ![s] = [shell[s] EXCEPT !.pc = "ended", !.answer = answer]]
  BY DEF End
<1>4. QED
  BY <1>1, <1>2, <1>3 DEF Shell

(* A Turn is what every step of a command is to the shells: one of them    *)
(* moves on, and the others stay where they are.                           *)
Turn(s, pc) ==
  /\ shell' \in [Shells -> Shell]
  /\ shell'[s].pc = pc
  /\ shell'[s].pid = shell[s].pid
  /\ pc # "ended" => shell'[s].at = shell[s].at
  /\ \A t \in Shells : t # s => shell'[t] = shell[t]

LEMMA GoToTurn ==
  ASSUME NEW s \in Shells, NEW pc \in Waits, shell \in [Shells -> Shell], GoTo(s, pc)
  PROVE  Turn(s, pc)
BY GoToFacts DEF Turn

LEMMA StoppedTurn ==
  ASSUME NEW s \in Shells, shell \in [Shells -> Shell], WhenStopped(s)
  PROVE  Turn(s, "ready") \/ Turn(s, "auth") \/ Turn(s, "ended")
<1>1. CASE GoTo(s, "ready")
  BY <1>1, GoToFacts DEF Turn, Waits
<1>2. CASE GoTo(s, "auth")
  BY <1>2, GoToFacts DEF Turn, Waits
<1>3. CASE End(s, "not running")
  BY <1>3, EndFacts DEF Turn
<1>4. QED
  BY <1>1, <1>2, <1>3 DEF WhenStopped

----------------------------------------------------------------------------
(* A server that was not there is there only after a Spawn; any other step *)
(* leaves servers as they are, or fewer.                                   *)
NoMoreServing ==
  \A p \in Pids : Serving(p)' => Serving(p) /\ proc'[p].at = proc[p].at

(* A step of a command, other than those that fetch a pid, keeps the       *)
(* invariant if it may go where it goes and leaves the files fitting.      *)
LEMMA MoveIInv ==
  ASSUME IInv, NEW s \in Shells, NEW pc \in Waits, Busy(s), Turn(s, pc),
         Keep, NoMoreServing,
         proc' \in [Pids -> Process],
         pidFile' \in Pids \cup {"absent", "torn"},
         meta' \in Endpoints \cup {"absent"},
         pc # "kill",
         pc \in WithOwn => shell[s].pc \in WithOwn,
         pc = "spawn" => meta' = shell[s].at,
         quiet /\ pc \in Without => \A p \in Pids : ~(Serving(p)'),
         quiet => \A p \in Pids : Serving(p)' =>
           /\ pidFile' = p \/ (shell[s].pid = p /\ pc \in WithOwn)
           /\ meta' = proc'[p].at
  PROVE  IInv'
<1>1. shell' \in [Shells -> Shell] /\ shell'[s].pc = pc /\ shell'[s].pid = shell[s].pid
  BY DEF Turn
<1>2. ASSUME NEW t \in Shells, t # s
      PROVE  shell'[t] = shell[t]
  BY <1>2 DEF Turn
<1>3. commands' = commands /\ quiet' = quiet
  BY DEF Keep
<1>4. TypeOK'
  BY <1>1, <1>3 DEF IInv, Types, TypeOK
<1>5. HasPid'
  <2> SUFFICES ASSUME NEW t \in Shells, shell'[t].pc \in WithOwn \cup {"kill"}
               PROVE  shell'[t].pid \in Pids
    BY DEF HasPid
  <2>1. CASE t = s
    BY <2>1, <1>1 DEF IInv, Types, HasPid
  <2>2. CASE t # s
    BY <2>2, <1>2 DEF IInv, Types, HasPid
  <2>3. QED
    BY <2>1, <2>2
<1>6. ASSUME quiet
      PROVE  Knows'
  <2>1. Knows
    BY <1>6 DEF IInv
  <2>2. ASSUME NEW t \in Shells, t # s
        PROVE  shell[t].pc = "ended" /\ shell'[t].pc = "ended"
    BY <2>1, <2>2, <1>2 DEF Knows, Alone, Busy
  <2>3. Alone'
    BY <2>2 DEF Alone, Busy
  <2>4. NoneServing'
    BY <1>1, <1>6, <2>2 DEF NoneServing, Without
  <2>5. OnlyOwn'
    <3> SUFFICES ASSUME NEW t \in Shells, shell'[t].pc \in WithOwn, NEW p \in Pids, Serving(p)'
                 PROVE  p = shell'[t].pid
      BY DEF OnlyOwn
    <3>1. t = s
      BY <2>2 DEF WithOwn
    <3>2. shell[s].pc \in WithOwn /\ Serving(p)
      BY <3>1, <1>1 DEF NoMoreServing
    <3>3. QED
      BY <3>1, <3>2, <1>1, <2>1 DEF Knows, OnlyOwn
  <2>6. KillsNamed'
    BY <1>1, <2>2 DEF KillsNamed, At
  <2>7. Named'
    BY <1>1, <1>6 DEF Named
  <2>8. MetaFits'
    <3>1. \A p \in Pids : Serving(p)' => meta' = proc'[p].at
      BY <1>6
    <3>2. ASSUME NEW t \in Shells, shell'[t].pc = "spawn"
          PROVE  meta' = shell'[t].at
      BY <3>2, <1>1, <2>2 DEF Turn
    <3>3. QED
      BY <3>1, <3>2 DEF MetaFits, At
  <2>9. QED
    BY <2>3, <2>4, <2>5, <2>6, <2>7, <2>8 DEF Knows
<1>7. QED
  BY <1>3, <1>4, <1>5, <1>6 DEF IInv, Types

(* What a command knows while no other runs.                               *)
LEMMA BusyKnows ==
  ASSUME IInv, quiet, NEW s \in Shells, Busy(s), NEW p \in Pids, Serving(p)
  PROVE  /\ Knows
         /\ pidFile = p \/ (shell[s].pid = p /\ shell[s].pc \in WithOwn)
         /\ meta = proc[p].at
<1>1. Knows
  BY DEF IInv
<1>2. PICK t \in Shells : pidFile = p \/ (shell[t].pid = p /\ shell[t].pc \in WithOwn)
  BY <1>1 DEF Knows, Named
<1>3. shell[t].pc \in WithOwn => t = s
  BY <1>1 DEF Knows, Alone, Busy, WithOwn
<1>4. QED
  BY <1>1, <1>2, <1>3 DEF Knows, MetaFits

LEMMA SameProc ==
  ASSUME UNCHANGED proc
  PROVE  NoMoreServing /\ \A p \in Pids : Serving(p)' <=> Serving(p)
BY DEF NoMoreServing, Serving

(* A step that touches no file and goes where nothing need be known.       *)
LEMMA LookIInv ==
  ASSUME IInv, NEW s \in Shells, NEW pc \in Waits \ (Without \cup WithOwn \cup {"kill"}),
         Busy(s), shell[s].pc \notin WithOwn, Turn(s, pc), UNCHANGED <<files, proc>>, Keep
  PROVE  IInv'
<1>1. UNCHANGED <<pidFile, meta, proc>>
  BY DEF files
<1>2. pc # "kill" /\ pc # "spawn"
  BY DEF Without
<1>3. NoMoreServing /\ \A p \in Pids : Serving(p)' <=> Serving(p)
  BY <1>1, SameProc
<1>4. quiet => \A p \in Pids : Serving(p)' => pidFile' = p /\ meta' = proc'[p].at
  BY <1>1, <1>3, BusyKnows
<1>5. /\ proc' \in [Pids -> Process]
      /\ pidFile' \in Pids \cup {"absent", "torn"}
      /\ meta' \in Endpoints \cup {"absent"}
  BY <1>1 DEF IInv, Types, TypeOK
<1>6. QED
  BY <1>2, <1>3, <1>4, <1>5, MoveIInv

(* A step after which nothing serves, or nothing is known.                 *)
LEMMA NothingIInv ==
  ASSUME IInv, NEW s \in Shells, NEW pc \in Waits \ {"kill"}, Busy(s), Turn(s, pc),
         UNCHANGED proc, Keep,
         pidFile' \in Pids \cup {"absent", "torn"},
         meta' \in Endpoints \cup {"absent"},
         pc \in WithOwn => shell[s].pc \in WithOwn,
         pc = "spawn" => meta' = shell[s].at,
         quiet => \A p \in Pids : ~Serving(p)
  PROVE  IInv'
<1>1. NoMoreServing /\ \A p \in Pids : Serving(p)' <=> Serving(p)
  BY SameProc
<1>2. proc' \in [Pids -> Process]
  BY DEF IInv, Types, TypeOK
<1>3. QED
  BY <1>1, <1>2, MoveIInv

(* A command takes the pid that the file names, to signal it.              *)
LEMMA FetchIInv ==
  ASSUME IInv, NEW s \in Shells, Busy(s), shell[s].pc \notin WithOwn, pidFile \in Pids,
         shell' = [shell EXCEPT ![s].pc = "kill", ![s].pid = pidFile],
         UNCHANGED <<pidFile, meta, proc>>, Keep
  PROVE  IInv'
<1>1. /\ shell' \in [Shells -> Shell]
      /\ shell'[s].pc = "kill" /\ shell'[s].pid = pidFile
      /\ \A t \in Shells : t # s => shell'[t] = shell[t]
  <2>1. shell \in [Shells -> Shell]
    BY DEF IInv, Types, TypeOK
  <2>2. PICK v \in Shell : v = shell[s]
    BY <2>1
  <2>3. [v EXCEPT !.pc = "kill", !.pid = pidFile] \in Shell
    BY <2>2 DEF Shell, Waits
  <2>4. shell' = [shell EXCEPT ![s] = [v EXCEPT !.pc = "kill", !.pid = pidFile]]
    BY <2>2
  <2>5. [v EXCEPT !.pc = "kill", !.pid = pidFile].pc = "kill"
    BY <2>2 DEF Shell
  <2>6. [v EXCEPT !.pc = "kill", !.pid = pidFile].pid = pidFile
    BY <2>2 DEF Shell
  <2>7. QED
    BY <2>1, <2>3, <2>4, <2>5, <2>6
<1>2. commands' = commands /\ quiet' = quiet
  BY DEF Keep
<1>3. TypeOK'
  BY <1>1, <1>2 DEF IInv, Types, TypeOK
<1>4. HasPid'
  BY <1>1 DEF IInv, Types, HasPid
<1>5. ASSUME quiet
      PROVE  Knows'
  <2>1. Knows /\ \A p \in Pids : Serving(p)' <=> Serving(p)
    BY <1>5, SameProc DEF IInv
  <2>2. ASSUME NEW t \in Shells, t # s
        PROVE  shell[t].pc = "ended" /\ shell'[t].pc = "ended"
    BY <1>1, <2>1, <2>2 DEF Knows, Alone, Busy
  <2>3. \A p \in Pids : Serving(p) => pidFile = p /\ meta = proc[p].at
    BY <1>5, BusyKnows
  <2>4. Alone' /\ KillsNamed'
    BY <1>1, <2>2 DEF Alone, Busy, KillsNamed, At
  <2>5. NoneServing' /\ OnlyOwn'
    BY <1>1, <2>2 DEF NoneServing, OnlyOwn, Without, WithOwn
  <2>6. Named'
    BY <2>1, <2>3 DEF Named
  <2>7. MetaFits'
    BY <1>1, <2>1, <2>2, <2>3 DEF MetaFits, At
  <2>8. QED
    BY <2>4, <2>5, <2>6, <2>7 DEF Knows
<1>6. QED
  BY <1>2, <1>3, <1>4, <1>5 DEF IInv, Types

LEMMA FindIInv ==
  ASSUME IInv, NEW s \in Shells, Find(s)
  PROVE  IInv'
<1> USE DEF IInv, Types, TypeOK
<1>1. ASSUME WhenStopped(s), UNCHANGED proc, UNCHANGED meta, Keep, Busy(s),
             shell[s].pc \notin WithOwn,
             pidFile' \in Pids \cup {"absent", "torn"},
             quiet => \A p \in Pids : ~Serving(p)
      PROVE  IInv'
  <2>1. PICK pc \in {"ready", "auth", "ended"} : Turn(s, pc)
    BY <1>1, StoppedTurn
  <2>2. pc \in Waits \ {"kill"} /\ pc \notin WithOwn /\ pc # "spawn"
    BY <2>1 DEF Waits, WithOwn
  <2>3. QED
    BY <1>1, <2>1, <2>2, NothingIInv
<1>2. CASE FindNoFile(s)
  <2>1. Busy(s) /\ shell[s].pc \notin WithOwn /\ pidFile = "absent"
    BY <1>2 DEF FindNoFile, Busy, WithOwn
  <2>2. quiet => \A p \in Pids : ~Serving(p)
    BY <2>1, BusyKnows, GuiAssumption
  <2>3. QED
    BY <1>1, <1>2, <2>1, <2>2 DEF FindNoFile, files
<1>3. CASE FindServer(s)
  <2>1. Busy(s) /\ shell[s].pc \notin WithOwn /\ UNCHANGED <<files, proc>> /\ Keep
    BY <1>3 DEF FindServer, Busy, WithOwn
  <2>2. CASE End(s, "already") \/ GoTo(s, "report") \/ GoTo(s, "lookAgain")
    <3>1. PICK pc \in {"ended", "report", "lookAgain"} : Turn(s, pc)
      BY <2>2, EndFacts, GoToTurn DEF Turn, Waits
    <3>2. pc \in Waits \ (Without \cup WithOwn \cup {"kill"})
      BY <3>1 DEF Waits, Without, WithOwn
    <3>3. QED
      BY <2>1, <3>1, <3>2, LookIInv
  <2>3. CASE shell' = [shell EXCEPT ![s].pc = "kill", ![s].pid = pidFile]
    BY <1>3, <2>1, <2>3, FetchIInv DEF FindServer, files
  <2>4. QED
    BY <1>3, <2>2, <2>3 DEF FindServer, WhenRunning
<1>4. CASE FindStale(s)
  <2>1. /\ Busy(s) /\ shell[s].pc \notin WithOwn /\ GoTo(s, "unlink")
        /\ UNCHANGED <<pidFile, meta, proc>> /\ Keep
    BY <1>4 DEF FindStale, Busy, WithOwn, files
  <2>2. \A p \in Pids : Serving(p) => Visible(p)
    BY DEF Serving, Visible
  <2>3. quiet => \A p \in Pids : ~Serving(p)
    BY <1>4, <2>1, <2>2, BusyKnows DEF FindStale
  <2>4. Turn(s, "unlink")
    BY <2>1, GoToTurn DEF Waits
  <2>5. QED
    BY <2>1, <2>3, <2>4, NothingIInv DEF Waits, WithOwn
<1>5. CASE UnlinkStale(s)
  <2>1. Busy(s) /\ shell[s].pc \notin WithOwn
    BY <1>5 DEF UnlinkStale, At, Busy, WithOwn
  <2>2. quiet => \A p \in Pids : ~Serving(p)
    BY <1>5 DEF UnlinkStale, At, Knows, NoneServing, Without
  <2>3. QED
    BY <1>1, <1>5, <2>1, <2>2 DEF UnlinkStale
<1>6. QED
  BY <1>2, <1>3, <1>4, <1>5 DEF Find

----------------------------------------------------------------------------
(* start.                                                                  *)

(* The starting shell gets the pid of a new server, its only one.          *)
LEMMA SpawnIInv ==
  ASSUME IInv, NEW s \in Shells, Spawn(s)
  PROVE  IInv'
<1>1. PICK p \in Pids :
        /\ Takeable(p)
        /\ proc' = [proc EXCEPT ![p] = [kind |-> "server", life |-> "booting",
                                       at |-> shell[s].at, background |-> shell[s].background]]
        /\ shell' = [shell EXCEPT ![s].pc = "wait", ![s].pid = p]
  BY DEF Spawn
<1>2. PICK v \in Shell : v = shell[s]
  BY DEF IInv, Types, TypeOK
<1>3. /\ shell[s].pc = "spawn" /\ UNCHANGED <<pidFile, meta>>
      /\ commands' = commands /\ quiet' = quiet
  BY DEF Spawn, At, Keep, files
<1>4. /\ shell' \in [Shells -> Shell]
      /\ shell'[s].pc = "wait" /\ shell'[s].pid = p
      /\ \A t \in Shells : t # s => shell'[t] = shell[t]
  <2>1. [v EXCEPT !.pc = "wait", !.pid = p] \in Shell
    BY <1>2 DEF Shell, Waits
  <2>2. shell' = [shell EXCEPT ![s] = [v EXCEPT !.pc = "wait", !.pid = p]]
    BY <1>1, <1>2
  <2>3. [v EXCEPT !.pc = "wait", !.pid = p].pc = "wait"
    BY <1>2 DEF Shell
  <2>4. [v EXCEPT !.pc = "wait", !.pid = p].pid = p
    BY <1>2 DEF Shell
  <2>5. shell \in [Shells -> Shell]
    BY DEF IInv, Types, TypeOK
  <2>6. QED
    BY <2>1, <2>2, <2>3, <2>4, <2>5
<1>5. /\ proc' \in [Pids -> Process]
      /\ proc'[p].at = v.at
      /\ \A q \in Pids : q # p => proc'[q] = proc[q]
  <2>1. v.at \in Endpoints /\ v.background \in BOOLEAN
    BY <1>2 DEF Shell
  <2>2. [kind |-> "server", life |-> "booting", at |-> v.at, background |-> v.background]
          \in Process
    BY <2>1 DEF Process
  <2>3. proc \in [Pids -> Process]
    BY DEF IInv, Types, TypeOK
  <2>4. QED
    BY <1>1, <1>2, <2>2, <2>3
<1>6. TypeOK' /\ HasPid'
  BY <1>3, <1>4, <1>5 DEF IInv, Types, TypeOK, HasPid
<1>7. ASSUME quiet
      PROVE  Knows'
  <2>1. Knows
    BY <1>7 DEF IInv
  <2>2. ASSUME NEW t \in Shells, t # s
        PROVE  shell[t].pc = "ended" /\ shell'[t].pc = "ended"
    BY <1>3, <1>4, <2>1, <2>2 DEF Knows, Alone, Busy
  <2>3. \A q \in Pids : Serving(q)' => q = p
    BY <1>3, <1>5, <2>1 DEF Knows, NoneServing, Without, Serving
  <2>4. Alone' /\ KillsNamed'
    BY <1>4, <2>2 DEF Alone, Busy, KillsNamed, At
  <2>5. NoneServing' /\ OnlyOwn'
    BY <1>4, <2>2, <2>3 DEF NoneServing, OnlyOwn, Without, WithOwn
  <2>6. Named'
    BY <1>4, <2>3 DEF Named, WithOwn
  <2>7. MetaFits'
    <3>1. meta = v.at
      BY <1>2, <1>3, <2>1 DEF Knows, MetaFits, At
    <3>2. \A t \in Shells : shell'[t].pc # "spawn"
      BY <1>4, <2>2
    <3>3. QED
      BY <1>3, <1>5, <2>3, <3>1, <3>2 DEF MetaFits, At
  <2>8. QED
    BY <2>4, <2>5, <2>6, <2>7 DEF Knows
<1>8. QED
  BY <1>3, <1>6, <1>7 DEF IInv, Types

(* What a start knows that has started its server.                         *)
LEMMA OwnKnows ==
  ASSUME IInv, quiet, NEW s \in Shells, shell[s].pc \in WithOwn, NEW p \in Pids, Serving(p)
  PROVE  shell[s].pid = p /\ meta = proc[p].at
BY DEF IInv, Knows, OnlyOwn, MetaFits

LEMMA StartIInv ==
  ASSUME IInv, NEW s \in Shells, Start(s)
  PROVE  IInv'
<1>1. TypeOK /\ shell \in [Shells -> Shell]
  BY DEF IInv, Types, TypeOK
<1>2. quiet /\ shell[s].pc \in Without => \A p \in Pids : ~Serving(p)
  BY DEF IInv, Knows, NoneServing
<1>3. CASE CheckAuth(s)
  <2>1. Busy(s) /\ shell[s].pc \notin WithOwn /\ UNCHANGED <<files, proc>> /\ Keep
    BY <1>3 DEF CheckAuth, At, Busy, WithOwn
  <2>2. PICK pc \in {"ended", "look"} : Turn(s, pc)
    BY <1>1, <1>3, EndFacts, GoToTurn DEF CheckAuth, Turn, Waits
  <2>3. pc \in Waits \ (Without \cup WithOwn \cup {"kill"})
    BY <2>2 DEF Waits, Without, WithOwn
  <2>4. QED
    BY <2>1, <2>2, <2>3, LookIInv
<1>4. CASE Ready(s)
  <2>1. /\ Busy(s) /\ shell[s].pc \in Without /\ Keep
        /\ UNCHANGED <<pidFile, meta, proc>>
    BY <1>4 DEF Ready, At, Busy, Without, files
  <2>2. PICK pc \in {"ended", "openMeta"} : Turn(s, pc)
    BY <1>1, <1>4, EndFacts, GoToTurn DEF Ready, Turn, Waits
  <2>3. pc \in Waits \ {"kill"} /\ pc \notin WithOwn /\ pc # "spawn"
    BY <2>2 DEF Waits, WithOwn
  <2>4. QED
    BY <1>1, <1>2, <2>1, <2>2, <2>3, NothingIInv DEF TypeOK
<1>5. CASE OpenMeta(s)
  <2>1. /\ Busy(s) /\ shell[s].pc \in Without /\ Keep
        /\ UNCHANGED <<pidFile, proc>> /\ meta' = "absent"
    BY <1>5 DEF OpenMeta, At, Busy, Without
  <2>2. Turn(s, "writeMeta") /\ "writeMeta" \in Waits \ {"kill"} /\ "writeMeta" \notin WithOwn
    BY <1>1, <1>5, GoToTurn DEF OpenMeta, Waits, WithOwn
  <2>3. QED
    BY <1>1, <1>2, <2>1, <2>2, NothingIInv DEF TypeOK
<1>6. CASE WriteMeta(s)
  <2>1. /\ Busy(s) /\ shell[s].pc \in Without /\ Keep
        /\ UNCHANGED <<pidFile, proc>> /\ meta' = shell[s].at
    BY <1>6 DEF WriteMeta, At, Busy, Without
  <2>2. Turn(s, "spawn") /\ "spawn" \in Waits \ {"kill"} /\ "spawn" \notin WithOwn
    BY <1>1, <1>6, GoToTurn DEF WriteMeta, Waits, WithOwn
  <2>3. shell[s].at \in Endpoints
    BY <1>1 DEF Shell
  <2>4. QED
    BY <1>1, <1>2, <2>1, <2>2, <2>3, NothingIInv DEF TypeOK
<1>7. CASE Spawn(s)
  BY <1>7, SpawnIInv
<1>8. CASE SeeDead(s)
  <2>1. /\ Busy(s) /\ shell[s].pc \in WithOwn /\ Keep
        /\ UNCHANGED <<pidFile, meta, proc>>
    BY <1>8 DEF SeeDead, At, Busy, WithOwn, files
  <2>2. Turn(s, "clearMeta") /\ "clearMeta" \in Waits \ {"kill"} /\ "clearMeta" \notin WithOwn
    BY <1>1, <1>8, GoToTurn DEF SeeDead, Waits, WithOwn
  <2>3. quiet => \A p \in Pids : ~Serving(p)
    BY <1>8, <2>1, OwnKnows DEF SeeDead, Serving
  <2>4. QED
    BY <1>1, <2>1, <2>2, <2>3, NothingIInv DEF TypeOK
<1>9. ASSUME SeeAlive(s) \/ OpenPid(s) \/ WritePid(s)
      PROVE  IInv'
  <2>1. Busy(s) /\ shell[s].pc \in WithOwn /\ Keep /\ UNCHANGED <<meta, proc>>
    BY <1>9 DEF SeeAlive, OpenPid, WritePid, At, Busy, WithOwn, files
  <2>2. NoMoreServing /\ \A p \in Pids : Serving(p)' <=> Serving(p)
    BY <2>1, SameProc
  <2>3. /\ proc' \in [Pids -> Process]
        /\ pidFile' \in Pids \cup {"absent", "torn"}
        /\ meta' \in Endpoints \cup {"absent"}
    <3>1. shell[s].pid \in Pids
      BY <2>1 DEF IInv, Types, HasPid
    <3>2. pidFile' \in {pidFile, "torn", shell[s].pid}
      BY <1>9 DEF SeeAlive, OpenPid, WritePid, files
    <3>3. QED
      BY <1>1, <2>1, <3>1, <3>2 DEF TypeOK
  <2>4. quiet => \A p \in Pids : Serving(p)' => shell[s].pid = p /\ meta' = proc'[p].at
    BY <2>1, <2>2, OwnKnows
  <2>5. PICK pc \in {"openPid", "writePid", "ended"} :
          Turn(s, pc) /\ (pc = "ended" => pidFile' = shell[s].pid)
    BY <1>1, <1>9, EndFacts, GoToTurn DEF SeeAlive, OpenPid, WritePid, Turn, Waits
  <2>6. pc \in Waits /\ pc \notin Without /\ pc # "kill" /\ pc # "spawn"
    BY <2>5 DEF Waits, Without
  <2>7. quiet => \A p \in Pids : Serving(p)' =>
          /\ pidFile' = p \/ (shell[s].pid = p /\ pc \in WithOwn)
          /\ meta' = proc'[p].at
    BY <2>4, <2>5 DEF WithOwn
  <2>8. QED
    BY <2>1, <2>2, <2>3, <2>5, <2>6, <2>7, MoveIInv
<1>10. QED
  BY <1>3, <1>4, <1>5, <1>6, <1>7, <1>8, <1>9 DEF Start

----------------------------------------------------------------------------
(* stop.                                                                   *)
LEMMA KillIInv ==
  ASSUME IInv, NEW s \in Shells, Kill(s)
  PROVE  IInv'
<1>1. PICK p \in Pids : p = shell[s].pid
  BY DEF Kill, At, IInv, Types, HasPid
<1>2. /\ Busy(s) /\ shell[s].pc = "kill" /\ shell[s].pc \notin WithOwn /\ Keep
      /\ UNCHANGED <<pidFile, meta>>
  BY DEF Kill, At, Busy, WithOwn, files
<1>3. TypeOK /\ shell \in [Shells -> Shell] /\ proc \in [Pids -> Process]
  BY DEF IInv, Types, TypeOK
<1>4. ASSUME NEW q \in Pids, Serving(q), quiet
      PROVE  q = p
  BY <1>1, <1>2, <1>4, BusyKnows DEF Knows, KillsNamed, At
<1>5. ASSUME GoTo(s, "unlinkPid"), proc' \in [Pids -> Process],
             \A q \in Pids : q # p => proc'[q] = proc[q],
             ~(Serving(p)')
      PROVE  IInv'
  <2>1. Turn(s, "unlinkPid") /\ "unlinkPid" \in Waits
    BY <1>3, <1>5, GoToTurn DEF Waits
  <2>2. NoMoreServing
    BY <1>5 DEF NoMoreServing, Serving
  <2>3. quiet => \A q \in Pids : ~(Serving(q)')
    BY <1>4, <1>5, <2>2 DEF NoMoreServing
  <2>4. QED
    BY <1>2, <1>3, <1>5, <2>1, <2>2, <2>3, MoveIInv DEF TypeOK, WithOwn
<1>6. CASE proc[p].kind = "server" /\ proc' = [proc EXCEPT ![p].life = "stopping"]
           /\ GoTo(s, "unlinkPid")
  <2>1. PICK v \in Process : v = proc[p]
    BY <1>3
  <2>2. [v EXCEPT !.life = "stopping"] \in Process
    BY <2>1 DEF Process
  <2>3. proc' = [proc EXCEPT ![p] = [v EXCEPT !.life = "stopping"]]
    BY <1>6, <2>1
  <2>4. [v EXCEPT !.life = "stopping"].life = "stopping"
    BY <2>1 DEF Process
  <2>5. QED
    BY <1>3, <1>5, <1>6, <2>2, <2>3, <2>4 DEF Serving
<1>7. CASE proc[p].kind = "ours" /\ proc' = [proc EXCEPT ![p] = NoProcess]
           /\ GoTo(s, "unlinkPid")
  <2>1. NoProcess \in Process /\ NoProcess.kind = "free"
    BY GuiAssumption DEF NoProcess, Process
  <2>2. QED
    BY <1>3, <1>5, <1>7, <2>1 DEF Serving
<1>8. CASE End(s, "failed") /\ UNCHANGED proc
  <2>1. Turn(s, "ended")
    BY <1>3, <1>8, EndFacts DEF Turn
  <2>2. "ended" \in Waits \ (Without \cup WithOwn \cup {"kill"})
    BY DEF Waits, Without, WithOwn
  <2>3. QED
    BY <1>2, <1>8, <2>1, <2>2, LookIInv DEF files
<1>9. QED
  BY <1>1, <1>6, <1>7, <1>8 DEF Kill

LEMMA StopIInv ==
  ASSUME IInv, NEW s \in Shells, Stop(s)
  PROVE  IInv'
<1>1. TypeOK /\ shell \in [Shells -> Shell]
  BY DEF IInv, Types, TypeOK
<1>2. quiet /\ shell[s].pc \in Without => \A p \in Pids : ~Serving(p)
  BY DEF IInv, Knows, NoneServing
<1>3. CASE UnlinkPid(s)
  <2>1. /\ Busy(s) /\ shell[s].pc \in Without /\ Keep
        /\ UNCHANGED <<meta, proc>> /\ pidFile' = "absent"
    BY <1>3 DEF UnlinkPid, At, Busy, Without
  <2>2. Turn(s, "clearMeta") /\ "clearMeta" \in Waits \ {"kill"} /\ "clearMeta" \notin WithOwn
    BY <1>1, <1>3, GoToTurn DEF UnlinkPid, Waits, WithOwn
  <2>3. QED
    BY <1>1, <1>2, <2>1, <2>2, NothingIInv DEF TypeOK
<1>4. CASE ClearMeta(s)
  <2>1. /\ Busy(s) /\ shell[s].pc \in Without /\ Keep
        /\ UNCHANGED <<pidFile, proc>> /\ meta' = "absent"
    BY <1>4 DEF ClearMeta, At, Busy, Without
  <2>2. PICK pc \in {"ended", "auth"} : Turn(s, pc)
    BY <1>1, <1>4, EndFacts, GoToTurn DEF ClearMeta, Turn, Waits
  <2>3. pc \in Waits \ {"kill"} /\ pc \notin WithOwn /\ pc # "spawn"
    BY <2>2 DEF Waits, WithOwn
  <2>4. QED
    BY <1>1, <1>2, <2>1, <2>2, <2>3, NothingIInv DEF TypeOK
<1>5. QED
  BY <1>3, <1>4, KillIInv DEF Stop

LEMMA ReportIInv ==
  ASSUME IInv, NEW s \in Shells, Report(s)
  PROVE  IInv'
<1>1. shell \in [Shells -> Shell] /\ meta \in Endpoints \cup {"absent"}
  BY DEF IInv, Types, TypeOK
<1>2. PICK e \in Endpoints : e = IF meta = "absent" THEN DefaultAt ELSE meta
  BY <1>1, GuiAssumption
<1>3. PICK v \in Shell : v = shell[s]
  BY <1>1
<1>4. [v EXCEPT !.pc = "ended", !.answer = "reported", !.at = e] \in Shell
  BY <1>3 DEF Shell, Waits
<1>5. shell' = [shell EXCEPT ![s] = [v EXCEPT !.pc = "ended", !.answer = "reported", !.at = e]]
  BY <1>2, <1>3 DEF Report
<1>6. [v EXCEPT !.pc = "ended", !.answer = "reported", !.at = e].pc = "ended"
  BY <1>3 DEF Shell
<1>7. [v EXCEPT !.pc = "ended", !.answer = "reported", !.at = e].pid = v.pid
  BY <1>3 DEF Shell
<1>8. Turn(s, "ended")
  BY <1>1, <1>3, <1>4, <1>5, <1>6, <1>7 DEF Turn
<1>9. /\ Busy(s) /\ shell[s].pc \notin WithOwn /\ UNCHANGED <<files, proc>> /\ Keep
      /\ "ended" \in Waits \ (Without \cup WithOwn \cup {"kill"})
  BY DEF Report, At, Busy, WithOwn, Waits, Without
<1>10. QED
  BY <1>8, <1>9, LookIInv

----------------------------------------------------------------------------
(* A command begins, or is killed.                                         *)
LEMMA InvokeIInv ==
  ASSUME IInv, NEW s \in Shells, Invoke(s)
  PROVE  IInv'
<1>1. PICK v \in Shell :
        /\ shell' = [shell EXCEPT ![s] = v]
        /\ v.pc \in {"auth", "look"}
  <2>1. PICK cmd \in {"start", "stop", "status", "restart"}, e \in Endpoints, b \in BOOLEAN :
          shell' = [shell EXCEPT ![s] =
            [pc |-> IF cmd = "start" THEN "auth" ELSE "look", cmd |-> cmd,
             answer |-> "none", at |-> e, background |-> b, pid |-> "absent"]]
    BY DEF Invoke
  <2>2. PICK c \in {"auth", "look"} : c = IF cmd = "start" THEN "auth" ELSE "look"
    OBVIOUS
  <2>3. [pc |-> c, cmd |-> cmd, answer |-> "none", at |-> e, background |-> b,
         pid |-> "absent"] \in Shell
    BY DEF Shell, Waits
  <2>4. QED
    BY <2>1, <2>2, <2>3
<1>2. /\ UNCHANGED <<pidFile, meta, proc>> /\ commands' \in 0..MaxCommands
      /\ quiet' = (quiet /\ \A t \in Shells : shell[t].pc = "ended")
  <2>1. commands < MaxCommands /\ commands' = commands + 1
    BY DEF Invoke
  <2>2. commands' \in 0..MaxCommands
    BY <2>1, GuiAssumption DEF IInv, Types, TypeOK
  <2>3. QED
    BY <2>2 DEF Invoke, files, Busy
<1>3. TypeOK'
  BY <1>1, <1>2 DEF IInv, Types, TypeOK
<1>4. HasPid'
  BY <1>1 DEF IInv, Types, TypeOK, HasPid, WithOwn
<1>5. ASSUME quiet'
      PROVE  Knows'
  <2>1. Knows /\ \A t \in Shells : shell[t].pc = "ended"
    BY <1>2, <1>5 DEF IInv
  <2>2. \A t \in Shells : (t # s => shell'[t].pc = "ended") /\ shell'[t].pc \in {"ended", "auth", "look"}
    BY <1>1, <2>1 DEF IInv, Types, TypeOK
  <2>3. \A p \in Pids : Serving(p)' <=> Serving(p)
    BY <1>2, SameProc
  <2>4. Alone'
    BY <2>2 DEF Alone, Busy
  <2>5. NoneServing' /\ OnlyOwn' /\ KillsNamed'
    BY <2>2 DEF NoneServing, OnlyOwn, KillsNamed, At, Without, WithOwn
  <2>6. Named'
    BY <1>2, <2>1, <2>3 DEF Knows, Named, WithOwn
  <2>7. MetaFits'
    BY <1>2, <2>1, <2>2, <2>3 DEF Knows, MetaFits, At
  <2>8. QED
    BY <2>4, <2>5, <2>6, <2>7 DEF Knows
<1>6. QED
  BY <1>3, <1>4, <1>5 DEF IInv, Types

LEMMA InterruptIInv ==
  ASSUME IInv, NEW s \in Shells, Interrupt(s)
  PROVE  IInv'
<1>1. shell \in [Shells -> Shell] /\ GoTo(s, "ended") /\ "ended" \in Waits
  BY DEF Interrupt, IInv, Types, TypeOK, Waits
<1>2. Turn(s, "ended")
  BY <1>1, GoToTurn
<1>3. quiet' = FALSE /\ UNCHANGED <<pidFile, meta, proc, commands>>
  BY DEF Interrupt, files
<1>4. TypeOK'
  BY <1>2, <1>3 DEF IInv, Types, TypeOK, Turn
<1>5. HasPid'
  <2> SUFFICES ASSUME NEW t \in Shells, shell'[t].pc \in WithOwn \cup {"kill"}
               PROVE  shell'[t].pid \in Pids
    BY DEF HasPid
  <2>1. t # s /\ shell'[t] = shell[t]
    BY <1>2 DEF Turn, WithOwn
  <2>2. QED
    BY <2>1 DEF IInv, Types, HasPid
<1>6. QED
  BY <1>3, <1>4, <1>5 DEF IInv, Types

----------------------------------------------------------------------------
(* Processes come and go; none of them becomes a server.                   *)
LEMMA ProcessIInv ==
  ASSUME IInv, NEW p \in Pids, Listen(p) \/ Exit(p) \/ Reuse(p)
  PROVE  IInv'
<1>1. UNCHANGED <<pidFile, meta, shell, commands, quiet>>
  BY DEF Listen, Exit, Reuse, Keep, files
<1>2. PICK v \in Process : v = proc[p]
  BY DEF IInv, Types, TypeOK
<1>3. proc \in [Pids -> Process]
  BY DEF IInv, Types, TypeOK
<1>4. PICK w \in Process :
        /\ proc' = [proc EXCEPT ![p] = w]
        /\ w.kind = "server" => v.kind = "server" /\ v.life # "stopping"
                                /\ w.background = v.background /\ w.at = v.at
  <2>1. CASE Listen(p)
    <3>1. v.kind = "server" /\ v.life = "booting"
      BY <1>2, <2>1 DEF Listen
    <3>2. proc' = [proc EXCEPT ![p] = [v EXCEPT !.life = "up"]]
      BY <1>2, <2>1 DEF Listen
    <3>3. [v EXCEPT !.life = "up"] \in Process
      BY <1>2 DEF Process
    <3>4. [v EXCEPT !.life = "up"].background = v.background
      BY <1>2 DEF Process
    <3>5. [v EXCEPT !.life = "up"].at = v.at
      BY <1>2 DEF Process
    <3>6. QED
      BY <3>1, <3>2, <3>3, <3>4, <3>5
  <2>2. CASE Exit(p)
    <3>1. NoProcess \in Process /\ NoProcess.kind = "free"
      BY GuiAssumption DEF NoProcess, Process
    <3>2. QED
      BY <2>2, <3>1 DEF Exit
  <2>3. CASE Reuse(p)
    <3>1. PICK k \in {"ours", "foreign"} : proc' = [proc EXCEPT ![p] = [v EXCEPT !.kind = k]]
      BY <1>2, <2>3 DEF Reuse
    <3>2. [v EXCEPT !.kind = k] \in Process
      BY <1>2 DEF Process
    <3>3. [v EXCEPT !.kind = k].kind = k
      BY <1>2 DEF Process
    <3>4. QED
      BY <3>1, <3>2, <3>3
  <2>4. QED
    BY <2>1, <2>2, <2>3
<1>5. proc' \in [Pids -> Process]
  BY <1>3, <1>4
<1>6. NoMoreServing
  BY <1>2, <1>3, <1>4 DEF NoMoreServing, Serving
<1>7. Types'
  BY <1>1, <1>5 DEF IInv, Types, TypeOK, HasPid
<1>8. ASSUME quiet
      PROVE  Knows'
  <2>1. Alone /\ NoneServing /\ OnlyOwn /\ KillsNamed /\ Named /\ MetaFits
    BY <1>8 DEF IInv, Knows
  <2>2. Alone' /\ KillsNamed'
    BY <1>1, <2>1 DEF Alone, Busy, KillsNamed, At
  <2>3. NoneServing' /\ OnlyOwn'
    BY <1>1, <1>6, <2>1 DEF NoneServing, OnlyOwn, NoMoreServing
  <2>4. Named' /\ MetaFits'
    BY <1>1, <1>6, <2>1 DEF Named, MetaFits, At, NoMoreServing
  <2>5. QED
    BY <2>2, <2>3, <2>4 DEF Knows
<1>9. QED
  BY <1>1, <1>7, <1>8 DEF IInv

----------------------------------------------------------------------------
LEMMA InitIInv ==
  ASSUME Init
  PROVE  IInv
<1>1. [pc |-> "ended", cmd |-> "none", answer |-> "none", at |-> DefaultAt,
       background |-> TRUE, pid |-> "absent"] \in Shell
  BY GuiAssumption DEF Shell, Waits
<1>2. NoProcess \in Process
  BY GuiAssumption DEF NoProcess, Process
<1>3. TypeOK
  BY <1>1, <1>2, GuiAssumption DEF Init, TypeOK
<1>4. \A s \in Shells : shell[s].pc = "ended"
  BY DEF Init
<1>5. \A p \in Pids : ~Serving(p)
  BY DEF Init, Serving, NoProcess
<1>6. HasPid
  BY <1>4 DEF HasPid, WithOwn
<1>7. Alone /\ NoneServing /\ OnlyOwn /\ KillsNamed
  BY <1>4, <1>5 DEF Alone, Busy, NoneServing, OnlyOwn, KillsNamed, At
<1>8. Named /\ MetaFits
  BY <1>4, <1>5 DEF Named, MetaFits, At
<1>9. QED
  BY <1>3, <1>6, <1>7, <1>8 DEF IInv, Types, Knows

LEMMA NextIInv ==
  ASSUME IInv, [Next]_vars
  PROVE  IInv'
<1>1. ASSUME NEW s \in Shells,
             Invoke(s) \/ Find(s) \/ Start(s) \/ Stop(s) \/ Report(s) \/ Interrupt(s)
      PROVE  IInv'
  BY <1>1, InvokeIInv, FindIInv, StartIInv, StopIInv, ReportIInv, InterruptIInv
<1>2. ASSUME NEW p \in Pids, Listen(p) \/ Exit(p) \/ Reuse(p)
      PROVE  IInv'
  BY <1>2, ProcessIInv
<1>3. CASE UNCHANGED vars
  BY <1>3 DEF vars, files, IInv, Types, TypeOK, HasPid, Knows, Alone, Busy, NoneServing, OnlyOwn,
              KillsNamed, Named, MetaFits, At, Serving
<1>4. QED
  BY <1>1, <1>2, <1>3 DEF Next

LEMMA Invariance == Spec => []IInv
<1>1. Init => IInv
  BY InitIInv
<1>2. IInv /\ [Next]_vars => IInv'
  BY NextIInv
<1>3. QED
  BY <1>1, <1>2, PTL DEF Spec

(* The files, shells and processes of GuiLifecycle are well typed.         *)
THEOREM TypeCorrect == Spec => []TypeOK
<1>1. IInv => TypeOK
  BY DEF IInv, Types
<1>2. QED
  BY <1>1, Invariance, PTL

(* As long as commands of gui.py do not overlap and none is killed, the    *)
(* pid file names every background server that was not stopped.            *)
THEOREM ServersNamed == Spec => []NoOrphan
<1>1. IInv => NoOrphan
  BY DEF IInv, Knows, Named, NoOrphan, WithOwn
<1>2. QED
  BY <1>1, Invariance, PTL

(* Under the same condition the metadata that status reads is that of the  *)
(* server in the pid file.                                                 *)
THEOREM MetaMatches == Spec => []MetaTellsEndpoint
<1>1. IInv => MetaTellsEndpoint
  BY DEF IInv, Knows, MetaFits, MetaTellsEndpoint
<1>2. QED
  BY <1>1, Invariance, PTL
=============================================================================
