---------------------------- MODULE GuiLifecycle ----------------------------
(***************************************************************************)
(* The commands zday gui start, stop, restart and status                   *)
(* (zebra_day/cli/gui.py), run by several shells on one machine.           *)
(*                                                                         *)
(* What the commands know of the server they read from two files of the    *)
(* state directory: gui.pid and server-meta.json.  Nothing locks either.   *)
(* write_text truncates and then writes, so another shell may find a file  *)
(* empty; an empty or absent server-meta.json reads alike.                 *)
(*                                                                         *)
(* An endpoint stands for host, port and scheme.  Log files, and the       *)
(* options that are not an endpoint, are left out.                         *)
(***************************************************************************)
EXTENDS Naturals

CONSTANTS
  Shells,        (* who runs commands                                      *)
  Pids,          (* the process ids of the machine; they are reused        *)
  Endpoints,     (* where a server may listen                              *)
  DefaultAt,     (* the endpoint of the settings                           *)
  MaxCommands    (* bound on the commands of a behaviour                   *)

ASSUME GuiAssumption ==
  /\ DefaultAt \in Endpoints
  /\ MaxCommands \in Nat
  /\ {"absent", "torn"} \cap Pids = {}
  /\ "absent" \notin Endpoints

VARIABLES
  pidFile,       (* gui.pid                                                *)
  meta,          (* server-meta.json                                       *)
  proc,          (* the processes of the machine                           *)
  shell,         (* where each shell stands in its command                 *)
  commands,      (* how many commands were begun                           *)
  quiet          (* history: commands never overlapped, none was killed    *)

files == <<pidFile, meta>>
vars == <<files, proc, shell, commands, quiet>>

(* "ours" and "foreign" are processes that are no servers, of the same     *)
(* user and of another one.                                                *)
Process ==
  [kind : {"free", "ours", "foreign", "server"},
   life : {"booting", "up", "stopping"},
   at : Endpoints,
   background : BOOLEAN]

NoProcess ==
  [kind |-> "free", life |-> "booting", at |-> DefaultAt, background |-> FALSE]

Waits == {"ended", "auth", "look", "lookAgain", "unlink", "kill", "unlinkPid", "clearMeta",
          "ready", "openMeta", "writeMeta", "spawn", "wait", "openPid", "writePid", "report"}

Shell ==
  [pc : Waits,
   cmd : {"none", "start", "stop", "status", "restart"},
   answer : {"none", "already", "failed", "started", "stopped", "not running",
             "refused", "reported"},
   at : Endpoints,
   background : BOOLEAN,
   pid : Pids \cup {"absent"}]

TypeOK ==
  /\ pidFile \in Pids \cup {"absent", "torn"}
  /\ meta \in Endpoints \cup {"absent"}
  /\ proc \in [Pids -> Process]
  /\ shell \in [Shells -> Shell]
  /\ commands \in 0..MaxCommands
  /\ quiet \in BOOLEAN

Init ==
  /\ pidFile = "absent"
  /\ meta = "absent"
  /\ proc = [p \in Pids |-> NoProcess]
  /\ shell = [s \in Shells |-> [pc |-> "ended", cmd |-> "none", answer |-> "none",
                                at |-> DefaultAt, background |-> TRUE, pid |-> "absent"]]
  /\ commands = 0
  /\ quiet = TRUE

----------------------------------------------------------------------------
(* Shells.                                                                 *)
Busy(s) == shell[s].pc # "ended"
At(s, pc) == shell[s].pc = pc
GoTo(s, pc) == shell' = [shell EXCEPT ![s].pc = pc]
End(s, answer) == shell' = [shell EXCEPT ![s].pc = "ended", ![s].answer = answer]
Keep == UNCHANGED <<commands, quiet>>

(* A shell begins a command.  restart looks for a running server before it *)
(* does what start does.                                                   *)
Invoke(s) ==
  /\ ~Busy(s)
  /\ commands < MaxCommands
  /\ \E cmd \in {"start", "stop", "status", "restart"}, e \in Endpoints, b \in BOOLEAN :
       /\ cmd # "start" => b
       /\ cmd \in {"stop", "status"} => e = DefaultAt
       /\ shell' = [shell EXCEPT ![s] =
            [pc |-> IF cmd = "start" THEN "auth" ELSE "look", cmd |-> cmd,
             answer |-> "none", at |-> e, background |-> b, pid |-> "absent"]]
  /\ commands' = commands + 1
  /\ quiet' = (quiet /\ \A t \in Shells : ~Busy(t))
  /\ UNCHANGED <<files, proc>>

(* start's first check.  restart calls start as a function and leaves out  *)
(* auth, whose default is then the option object and no mode at all.       *)
CheckAuthTooLate(s) ==
  /\ At(s, "auth")
  /\ IF shell[s].cmd = "restart" THEN End(s, "refused") ELSE GoTo(s, "look")
  /\ meta' = IF shell[s].cmd = "restart" THEN meta ELSE shell[s].at
  /\ UNCHANGED <<pidFile, proc>> /\ Keep

CheckAuth(s) ==
  /\ At(s, "auth")
  /\ IF shell[s].cmd = "restart" THEN End(s, "refused") ELSE GoTo(s, "look")
  /\ UNCHANGED <<files, proc>> /\ Keep

----------------------------------------------------------------------------
(* _running_pid: what the file names and a signal 0 reaches.               *)
VisibleWhenUp(p) == proc[p].kind \in {"ours", "server"} /\ proc[p].life = "up"
Visible(p) == proc[p].kind \in {"ours", "server"}

(* What a command does next when it has found no server, or found one.     *)
(* restart looks twice: itself, and in the stop that it calls.             *)
WhenStopped(s) ==
  \/ shell[s].cmd = "start" /\ GoTo(s, "ready")
  \/ shell[s].cmd = "restart" /\ GoTo(s, "auth")
  \/ shell[s].cmd \in {"stop", "status"} /\ End(s, "not running")

WhenRunning(s, p) ==
  \/ shell[s].cmd = "start" /\ End(s, "already")
  \/ shell[s].cmd = "status" /\ GoTo(s, "report")
  \/ shell[s].cmd = "restart" /\ At(s, "look") /\ GoTo(s, "lookAgain")
  \/ /\ shell[s].cmd = "stop" \/ At(s, "lookAgain")
     /\ shell' = [shell EXCEPT ![s].pc = "kill", ![s].pid = p]

FindNoFile(s) ==
  /\ shell[s].pc \in {"look", "lookAgain"}
  /\ pidFile = "absent"
  /\ WhenStopped(s)
  /\ UNCHANGED <<files, proc>> /\ Keep

FindServer(s) ==
  /\ shell[s].pc \in {"look", "lookAgain"}
  /\ pidFile \in Pids
  /\ Visible(pidFile)
  /\ WhenRunning(s, pidFile)
  /\ UNCHANGED <<files, proc>> /\ Keep

(* An empty file, no such process, or one of another user: the file is     *)
(* taken for stale.                                                        *)
FindStale(s) ==
  /\ shell[s].pc \in {"look", "lookAgain"}
  /\ pidFile # "absent"
  /\ pidFile \in Pids => ~Visible(pidFile)
  /\ GoTo(s, "unlink")
  /\ UNCHANGED <<files, proc>> /\ Keep

UnlinkStale(s) ==
  /\ At(s, "unlink")
  /\ pidFile' = "absent"
  /\ WhenStopped(s)
  /\ UNCHANGED <<meta, proc>> /\ Keep

----------------------------------------------------------------------------
(* start, once it has found no server.                                     *)

(* _ensure_runtime_ready and _resolve_ssl may raise.                       *)
Ready(s) ==
  /\ At(s, "ready")
  /\ GoTo(s, "openMeta") \/ End(s, "failed")
  /\ UNCHANGED <<files, proc>> /\ Keep

OpenMeta(s) ==
  /\ At(s, "openMeta")
  /\ meta' = "absent"
  /\ GoTo(s, "writeMeta")
  /\ UNCHANGED <<pidFile, proc>> /\ Keep

WriteMeta(s) ==
  /\ At(s, "writeMeta")
  /\ meta' = shell[s].at
  /\ GoTo(s, "spawn")
  /\ UNCHANGED <<pidFile, proc>> /\ Keep

(* A pid is given out again once its process is gone and a parent that     *)
(* waits for it has seen that.                                             *)
Takeable(p) ==
  /\ proc[p].kind = "free"
  /\ \A t \in Shells : At(t, "wait") => shell[t].pid # p

Spawn(s) ==
  /\ At(s, "spawn")
  /\ \E p \in Pids :
       /\ Takeable(p)
       /\ proc' = [proc EXCEPT ![p] = [kind |-> "server", life |-> "booting",
                                       at |-> shell[s].at, background |-> shell[s].background]]
       /\ shell' = [shell EXCEPT ![s].pc = "wait", ![s].pid = p]
  /\ UNCHANGED files /\ Keep

(* A background start looks once, after two seconds, whether the process   *)
(* is still there; it may not listen yet.  A foreground one waits for it.  *)
SeeAlive(s) ==
  /\ At(s, "wait")
  /\ shell[s].background
  /\ proc[shell[s].pid].kind # "free"
  /\ GoTo(s, "openPid")
  /\ UNCHANGED <<files, proc>> /\ Keep

SeeDead(s) ==
  /\ At(s, "wait")
  /\ proc[shell[s].pid].kind = "free"
  /\ GoTo(s, "clearMeta")
  /\ UNCHANGED <<files, proc>> /\ Keep

OpenPid(s) ==
  /\ At(s, "openPid")
  /\ pidFile' = "torn"
  /\ GoTo(s, "writePid")
  /\ UNCHANGED <<meta, proc>> /\ Keep

WritePid(s) ==
  /\ At(s, "writePid")
  /\ pidFile' = shell[s].pid
  /\ End(s, "started")
  /\ UNCHANGED <<meta, proc>> /\ Keep

----------------------------------------------------------------------------
(* stop, once it has found a process.                                      *)

(* SIGTERM asks a server to finish what it does; another process just ends.*)
(* A pid that is gone by now, or another user's, raises.                   *)
Kill(s) ==
  LET p == shell[s].pid
  IN /\ At(s, "kill")
     /\ \/ /\ proc[p].kind = "server"
           /\ proc' = [proc EXCEPT ![p].life = "stopping"]
           /\ GoTo(s, "unlinkPid")
        \/ /\ proc[p].kind = "ours"
           /\ proc' = [proc EXCEPT ![p] = NoProcess]
           /\ GoTo(s, "unlinkPid")
        \/ /\ ~Visible(p)
           /\ End(s, "failed")
           /\ UNCHANGED proc
     /\ UNCHANGED files /\ Keep

UnlinkPid(s) ==
  /\ At(s, "unlinkPid")
  /\ pidFile' = "absent"
  /\ GoTo(s, "clearMeta")
  /\ UNCHANGED <<meta, proc>> /\ Keep

(* The last step of a stop, of a start that failed, and of a foreground    *)
(* one.                                                                    *)
ClearMeta(s) ==
  /\ At(s, "clearMeta")
  /\ meta' = "absent"
  /\ \/ shell[s].cmd = "start" /\ End(s, "failed")
     \/ shell[s].cmd = "stop" /\ End(s, "stopped")
     \/ shell[s].cmd = "restart" /\ GoTo(s, "auth")
  /\ UNCHANGED <<pidFile, proc>> /\ Keep

(* status tells where the server listens: what the metadata says, or else  *)
(* the settings.                                                           *)
ReportUnchecked(s) ==
  /\ At(s, "report")
  /\ shell' = [shell EXCEPT ![s].pc = "ended", ![s].answer = "reported", ![s].at = meta]
  /\ UNCHANGED <<files, proc>> /\ Keep

Report(s) ==
  /\ At(s, "report")
  /\ shell' = [shell EXCEPT ![s].pc = "ended", ![s].answer = "reported",
                            ![s].at = IF meta = "absent" THEN DefaultAt ELSE meta]
  /\ UNCHANGED <<files, proc>> /\ Keep

(* A command is killed where it is.                                        *)
Interrupt(s) ==
  /\ Busy(s)
  /\ GoTo(s, "ended")
  /\ quiet' = FALSE
  /\ UNCHANGED <<files, proc, commands>>

----------------------------------------------------------------------------
(* Processes.                                                              *)

(* A server that boots listens, unless another one still does there.       *)
Taken(e) == \E q \in Pids : proc[q].kind = "server" /\ proc[q].life # "booting" /\ proc[q].at = e

Listen(p) ==
  /\ proc[p].kind = "server"
  /\ proc[p].life = "booting"
  /\ ~Taken(proc[p].at)
  /\ proc' = [proc EXCEPT ![p].life = "up"]
  /\ UNCHANGED <<files, shell>> /\ Keep

(* A process ends: done, stopped, crashed, or without its port.            *)
Exit(p) ==
  /\ proc[p].kind # "free"
  /\ proc' = [proc EXCEPT ![p] = NoProcess]
  /\ UNCHANGED <<files, shell>> /\ Keep

(* The machine gives a pid to some other program.                          *)
Reuse(p) ==
  /\ Takeable(p)
  /\ \E k \in {"ours", "foreign"} : proc' = [proc EXCEPT ![p].kind = k]
  /\ UNCHANGED <<files, shell>> /\ Keep

----------------------------------------------------------------------------
Find(s) == FindNoFile(s) \/ FindServer(s) \/ FindStale(s) \/ UnlinkStale(s)

Start(s) ==
  \/ CheckAuth(s) \/ Ready(s) \/ OpenMeta(s) \/ WriteMeta(s) \/ Spawn(s)
  \/ SeeAlive(s) \/ SeeDead(s) \/ OpenPid(s) \/ WritePid(s)

Stop(s) == Kill(s) \/ UnlinkPid(s) \/ ClearMeta(s)

Next ==
  \/ \E s \in Shells : Invoke(s) \/ Find(s) \/ Start(s) \/ Stop(s) \/ Report(s) \/ Interrupt(s)
  \/ \E p \in Pids : Listen(p) \/ Exit(p) \/ Reuse(p)

Spec == Init /\ [][Next]_vars

----------------------------------------------------------------------------
(* A background server that nobody has stopped.                            *)
Serving(p) ==
  /\ proc[p].kind = "server"
  /\ proc[p].background
  /\ proc[p].life # "stopping"

(* As long as commands do not overlap and none is killed, a background     *)
(* server can be stopped: gui.pid names it, or the start that is to write  *)
(* it there still goes on.  So there is one at most (start, _running_pid). *)
NoOrphan ==
  quiet => \A p \in Pids : Serving(p) =>
    \/ pidFile = p
    \/ \E s \in Shells : shell[s].pid = p /\ shell[s].pc \in {"wait", "openPid", "writePid"}

(* Under the same condition status tells where the server that gui.pid     *)
(* names listens, also after starts that failed, found it running or ran   *)
(* in the foreground (_write_runtime_meta and _clear_runtime_meta).        *)
MetaTellsEndpoint ==
  quiet => \A p \in Pids : pidFile = p /\ Serving(p) => meta = proc[p].at

(* A restart that has stopped the running server goes on to start one: it  *)
(* is not refused for an option that its user never gave.                  *)
RestartStarts ==
  \A s \in Shells :
    shell[s].cmd = "restart" /\ shell[s].pid \in Pids => shell[s].answer # "refused"
=============================================================================
