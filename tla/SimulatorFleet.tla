--------------------------- MODULE SimulatorFleet ---------------------------
(***************************************************************************)
(* The simulated printers of zebra_day/simulator.py in one process: a      *)
(* manager that knows printers by the port of their ZPL server, and        *)
(* printers of two servers each, which run in threads of their own.        *)
(* start binds the ZPL port first; if the HTTP port is taken it raises,    *)
(* and the ZPL server goes on serving.  Other programs take and free       *)
(* ports as they like.                                                     *)
(***************************************************************************)
EXTENDS Naturals, FiniteSets

CONSTANTS ZplPorts, HttpPorts

Ports == ZplPorts \cup HttpPorts

VARIABLES
  bound,    \* who is bound to a port: "nobody", "simulator" or "other"
  known,    \* the printers of the manager, by ZPL port
  running,  \* those whose servers run
  http,     \* the HTTP port of a printer
  starting, \* <<zpl, http>> of the start in progress, or <<>>
  stray     \* ZPL ports of starts that have raised

fleetVars == <<bound, known, running, http, starting, stray>>

FleetInit ==
  /\ bound = [p \in Ports |-> "nobody"]
  /\ known = {} /\ running = {} /\ stray = {} /\ starting = <<>>
  /\ http = [z \in ZplPorts |-> z]

Bind(ports, who) == bound' = [p \in Ports |-> IF p \in ports THEN who ELSE bound[p]]

Servers(zs) == zs \cup {http[z] : z \in zs}

\* start_printer: refused for a printer that runs or a port that is taken,
\* which changes nothing.
StartZpl(z, h) ==
  /\ starting = <<>> /\ z \notin running /\ bound[z] = "nobody"
  /\ Bind({z}, "simulator") /\ starting' = <<z, h>>
  /\ UNCHANGED <<known, running, http, stray>>

StartHttp ==
  /\ starting # <<>> /\ starting' = <<>>
  /\ LET z == starting[1]
         h == starting[2]
     IN IF bound[h] = "nobody"
        THEN /\ Bind({h}, "simulator") /\ http' = [http EXCEPT ![z] = h]
             /\ known' = known \cup {z} /\ running' = running \cup {z}
             /\ UNCHANGED stray
        ELSE /\ stray' = stray \cup {z}
             /\ UNCHANGED <<bound, known, running, http>>

\* Mutant: a printer that stops leaves its HTTP server behind.
StopZpl(zs) ==
  /\ Bind(zs \cap running, "nobody") /\ running' = running \ zs
  /\ UNCHANGED <<http, starting, stray>>

\* stop of the printers zs: nothing happens to one that does not run.
Stop(zs) ==
  /\ Bind(Servers(zs \cap running), "nobody") /\ running' = running \ zs
  /\ UNCHANGED <<http, starting, stray>>

\* Mutant: the manager forgets a printer that it does not stop.
ForgetPrinter(z) ==
  /\ starting = <<>> /\ z \in known /\ known' = known \ {z}
  /\ UNCHANGED <<bound, running, http, starting, stray>>

\* The manager forgets a printer when it stops it; its user may also call
\* stop of a printer that it has been given.
StopPrinter(z) == starting = <<>> /\ z \in known /\ Stop({z}) /\ known' = known \ {z}
StopItself(z) == starting = <<>> /\ z \in running /\ Stop({z}) /\ UNCHANGED known
StopAll == starting = <<>> /\ known # {} /\ Stop(known) /\ known' = {}

\* The servers are threads that end with their process.
Exit ==
  /\ bound' = [p \in Ports |-> IF bound[p] = "simulator" THEN "nobody" ELSE bound[p]]
  /\ known' = {} /\ running' = {} /\ starting' = <<>> /\ stray' = {} /\ UNCHANGED http

OtherProgram(p) ==
  /\ \/ bound[p] = "nobody" /\ Bind({p}, "other")
     \/ bound[p] = "other" /\ Bind({p}, "nobody")
  /\ UNCHANGED <<known, running, http, starting, stray>>

FleetNext ==
  \/ \E z \in ZplPorts : (\E h \in HttpPorts : StartZpl(z, h)) \/ StopPrinter(z) \/ StopItself(z)
  \/ StartHttp \/ StopAll \/ Exit
  \/ \E p \in Ports : OtherProgram(p)

FleetSpec == FleetInit /\ [][FleetNext]_fleetVars

-----------------------------------------------------------------------------

FleetTypeOK ==
  /\ bound \in [Ports -> {"nobody", "simulator", "other"}]
  /\ known \subseteq ZplPorts /\ running \subseteq known /\ stray \subseteq ZplPorts
  /\ http \in [ZplPorts -> Ports] /\ starting \in {<<>>} \cup (ZplPorts \X HttpPorts)

Begun == IF starting = <<>> THEN {} ELSE {starting[1]}

\* Every port is accounted for.  A simulator's port belongs to a printer that
\* the manager knows and that runs, to the start in progress, or to a start
\* that has raised, and to one of these only; a printer that runs has both
\* its ports, and they are nobody else's.
PortsAccounted ==
  /\ {p \in Ports : bound[p] = "simulator"} = Servers(running) \cup Begun \cup stray
  /\ Servers(running) \cap (Begun \cup stray) = {} /\ Begun \cap stray = {}
  /\ \A y, z \in running :
       /\ http[z] # y
       /\ y # z => http[y] # http[z]

=============================================================================
