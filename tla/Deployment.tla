----------------------------- MODULE Deployment -----------------------------
(***************************************************************************)
(* Starting zebra_day: processes of the GUI command, of the container and  *)
(* of the CLI read the configuration file, which an operator may edit at   *)
(* any time, and construct a client.  This claims the service's prefixes   *)
(* in a JSON file that services of several repositories share and nobody   *)
(* locks (client.py, _ensure_prefix_ownership_registry), within the        *)
(* transaction that seeds the identity prefixes.  The GUI command does so  *)
(* itself, and the server that it spawns does all of it again.             *)
(* A process may crash between any two steps.                              *)
(***************************************************************************)
EXTENDS Settings

CONSTANTS
  Processes,
  Versions,      \* configurations the operator may save
  Upper,         \* a domain's code in capitals, as the rows have it
  Launches,      \* command lines and their environments
  Prefixes,      \* prefixes of the package's templates
  OtherPrefixes, \* prefixes of other services
  Stranger,      \* their owner
  Registries,    \* what the shared file may hold at first
  FirstRows,     \* what the database may hold at first
  MaxEdits,      \* bound: edits of the configuration
  MaxStrangers   \* bound: claims of other services

Domains == {c.domain : c \in Versions}
Owners == {c.owner : c \in Versions}
Keys == Domains \X (Prefixes \cup OtherPrefixes)
RowKeys == {Upper[d] : d \in Domains} \X Owners

\* A claim names its owner under issuer_app_code, or under an older key.
Claims == [owner : Owners \cup {Stranger, ""}, issuer : BOOLEAN]

\* What may stand for a mode: nothing, a mode, or any other word.
Words == {""} \cup Modes \cup STRING

Environments == [keys : SUBSET STRING, flawed : SUBSET STRING, mode : Words, noAuth : BOOLEAN]

\* The container's command line has no options; a server is only spawned.
ASSUME DeploymentAssumption ==
  /\ \A c \in Versions : c.owner # "" /\ c.mode \in Words
  /\ Stranger # ""
  /\ Launches \subseteq [kind : {"gui", "container", "cli"}, auth : Words, env : Environments]
  /\ \A l \in Launches : l.kind = "container" => l.auth = "" /\ ~l.env.noAuth
  /\ Registries \subseteq [state : {"absent", "whole"}, claims : [Keys -> Claims]]
  /\ FirstRows \subseteq [RowKeys -> {"", "earlier"}]
  /\ MaxEdits \in Nat /\ MaxStrangers \in Nat

VARIABLES
  file,      \* the configuration file
  edits,     \* number of edits
  registry,  \* [state, claims]: the shared file; "torn" if it is no JSON
  strangers, \* claims other services have made
  rows,      \* per domain and owner: the identity prefix that is seeded
  at,        \* where a process stands
  run,       \* how it was launched
  cfg,       \* the configuration it has read
  asked,     \* the mode of authentication that its command has settled on
  seen,      \* the claims it has read
  raced,     \* somebody wrote the shared file over what he had not read
  held       \* claims that the file has ever had: <<domain, prefix, owner>>

deploymentVars == <<file, edits, registry, strangers, rows, at, run, cfg, asked, seen, raced, held>>
surroundings == <<file, edits, registry, strangers, rows, raced, held>>
memory == <<run, cfg, asked, seen>>

\* The memory of a process that does not run.
NoConfig == [file |-> "absent", sections |-> {}, keys |-> {}, flawed |-> {},
             mode |-> "", owner |-> "", domain |-> ""]
NoLaunch == [kind |-> "none", auth |-> "",
             env |-> [keys |-> {}, flawed |-> {}, mode |-> "", noAuth |-> FALSE]]
NoClaims == [k \in Keys |-> [owner |-> "", issuer |-> FALSE]]
Torn == [state |-> "torn", claims |-> NoClaims]

Holds(claims) ==
  {<<k[1], k[2], claims[k].owner>> : k \in {j \in Keys : claims[j].owner # ""}}

Deployed(version, shared, seeded) ==
  /\ file = version /\ edits = 0
  /\ registry = shared /\ strangers = 0 /\ rows = seeded
  /\ at = [p \in Processes |-> "off"]
  /\ run = [p \in Processes |-> NoLaunch] /\ cfg = [p \in Processes |-> NoConfig]
  /\ asked = [p \in Processes |-> ""] /\ seen = [p \in Processes |-> NoClaims]
  /\ raced = FALSE /\ held = Holds(registry.claims)

DeploymentInit ==
  \E version \in Versions, shared \in Registries, seeded \in FirstRows :
    Deployed(version, shared, seeded)

Goes(p, to) == at' = [at EXCEPT ![p] = to]

\* A step of a process that changes nothing else, and its end.
Moves(p, to) == Goes(p, to) /\ UNCHANGED <<surroundings, memory>>

Ends(p, how) ==
  /\ Goes(p, how)
  /\ run' = [run EXCEPT ![p] = NoLaunch] /\ cfg' = [cfg EXCEPT ![p] = NoConfig]
  /\ asked' = [asked EXCEPT ![p] = ""] /\ seen' = [seen EXCEPT ![p] = NoClaims]
  /\ UNCHANGED surroundings

MovesIf(ok, p, to) == IF ok THEN Moves(p, to) ELSE Ends(p, "gone")

-----------------------------------------------------------------------------
(* Settings.                                                               *)

\* container_entry.main looks at its environment before anything else.
Accepted(l) ==
  l.kind = "container" =>
    /\ l.env.mode \in Modes
    /\ {"ZEBRA_DAY_CONFIG_PATH", "HOST", "PORT"} \subseteq l.env.keys \ l.env.flawed

Launch(p) ==
  /\ at[p] = "off"
  /\ \E l \in Launches :
       IF Accepted(l)
       THEN /\ Goes(p, "begun") /\ run' = [run EXCEPT ![p] = l]
            /\ UNCHANGED <<surroundings, cfg, asked, seen>>
       ELSE Moves(p, "gone")

\* The mode: the option of the GUI command, or what its settings say; for
\* a spawned server the environment has it.
Settled(p) ==
  IF run[p].kind = "gui" /\ run[p].auth # "" THEN run[p].auth
  ELSE Mode(file, run[p].env)

Load(p) ==
  /\ at[p] = "begun"
  /\ IF Loads(file, run[p].env)
     THEN /\ Goes(p, "loaded") /\ cfg' = [cfg EXCEPT ![p] = file]
          /\ asked' = [asked EXCEPT ![p] = Settled(p)]
          /\ UNCHANGED <<surroundings, run, seen>>
     ELSE Ends(p, "gone")

\* All that a mode needs is given; the broker's address is used as a URL.
Complete(mode, c, e) ==
  /\ Needs(mode) \subseteq Given(c, e)
  /\ mode = "external_broker" => ~Flawed("login_url", c, e)

\* Mutant: the settings that the mode needs are read from the file again.
BuildFromFile(p) ==
  /\ at[p] = "loaded"
  /\ MovesIf(/\ run[p].kind = "gui" => asked[p] \in Modes
             /\ run[p].kind \in {"server", "container"} =>
                  /\ Complete(asked[p], file, run[p].env)
                  /\ "relative config_path" \notin cfg[p].flawed,
             p, "built")

\* What comes before the client: the check of the GUI command, or all that
\* create_app sets up.
Build(p) ==
  /\ at[p] = "loaded"
  /\ MovesIf(/\ run[p].kind = "gui" => asked[p] \in Modes
             /\ run[p].kind \in {"server", "container"} =>
                  /\ Complete(asked[p], cfg[p], run[p].env)
                  /\ "relative config_path" \notin cfg[p].flawed,
             p, "built")

-----------------------------------------------------------------------------
(* The shared file.                                                        *)

\* Mutant: a claim under an older key is not seen.
IssuerOnly(c, claims, x) ==
  claims[<<c.domain, x>>].issuer /\ claims[<<c.domain, x>>].owner \notin {"", c.owner}

\* Somebody else owns the prefix.
Taken(c, claims, x) == claims[<<c.domain, x>>].owner \notin {"", c.owner}

Blocked(c, claims) == \E x \in Prefixes : Taken(c, claims, x)

Claimed(c, claims) ==
  [k \in Keys |-> IF k[1] = c.domain /\ k[2] \in Prefixes
                  THEN [owner |-> c.owner, issuer |-> TRUE] ELSE claims[k]]

\* The file is read whole, and nothing is written if nothing is to be said.
ReadRegistry(p) ==
  LET c == cfg[p]
  IN /\ at[p] = "built"
     /\ IF \/ {"config_path", "prefix_ownership_registry_path"} \cap c.flawed # {}
           \/ registry.state # "whole" \/ Blocked(c, registry.claims)
        THEN Ends(p, "gone")
        ELSE IF Claimed(c, registry.claims) = registry.claims THEN Moves(p, "claimed")
        ELSE /\ Goes(p, "claiming")
             /\ seen' = [seen EXCEPT ![p] = registry.claims]
             /\ UNCHANGED <<surroundings, run, cfg, asked>>

\* write_text empties the file when it opens it.
Truncate(p) ==
  /\ at[p] = "claiming" /\ Goes(p, "writing")
  /\ registry' = Torn
  /\ raced' = (raced \/ registry # [state |-> "whole", claims |-> seen[p]])
  /\ UNCHANGED <<file, edits, strangers, rows, held, memory>>

\* If another process has written since, its longer text may stick out.
Write(p) ==
  LET claims == Claimed(cfg[p], seen[p])
  IN /\ at[p] = "writing" /\ Goes(p, "claimed")
     /\ \/ /\ registry' = [state |-> "whole", claims |-> claims]
           /\ held' = held \cup Holds(claims)
        \/ /\ registry.state = "whole"
           /\ registry' = Torn /\ UNCHANGED held
     /\ seen' = [seen EXCEPT ![p] = NoClaims]
     /\ UNCHANGED <<file, edits, strangers, rows, raced, run, cfg, asked>>

-----------------------------------------------------------------------------
(* The transaction.                                                        *)

\* The shared file has the domain as it is configured, the rows in capitals.
Row(c) == <<Upper[c.domain], c.owner>>

\* Another prefix than the package's, from an earlier version, is refused;
\* where there is none, one is inserted.
SelectRow(p) ==
  /\ at[p] = "claimed"
  /\ MovesIf(rows[Row(cfg[p])] # "earlier", p,
             IF rows[Row(cfg[p])] = "" THEN "inserting" ELSE "seeding")

\* The database takes no second row with the same key, and the loader of the
\* templates may raise; then nothing of the transaction stays.
Commit(p) ==
  /\ at[p] = "seeding" \/ (at[p] = "inserting" /\ rows[Row(cfg[p])] = "")
  /\ Goes(p, "ready")
  /\ rows' = [rows EXCEPT ![Row(cfg[p])] = "seeded"]
  /\ UNCHANGED <<file, edits, registry, strangers, raced, held, memory>>

Rollback(p) == at[p] \in {"seeding", "inserting"} /\ Ends(p, "gone")

\* The GUI command goes on to check Cognito's settings, then those of the mode
\* that the file has, and the certificates if it is to use some; and spawns
\* the server with its mode in the environment.
Spawn(p) ==
  /\ at[p] = "ready" /\ run[p].kind = "gui"
  /\ IF /\ asked[p] = "cognito" =>
             /\ Complete("cognito", cfg[p], run[p].env)
             /\ Complete(Mode(cfg[p], run[p].env), cfg[p], run[p].env)
        /\ "certificates" \in run[p].env.keys
     THEN /\ Goes(p, "begun")
          /\ run' = [run EXCEPT ![p] =
               [kind |-> "server", auth |-> run[p].auth,
                env |-> [run[p].env EXCEPT !.mode = asked[p], !.noAuth = FALSE]]]
          /\ UNCHANGED <<surroundings, cfg, asked, seen>>
     ELSE Ends(p, "gone")

-----------------------------------------------------------------------------
(* Whatever else happens.                                                  *)

Edit ==
  /\ edits < MaxEdits /\ edits' = edits + 1
  /\ file' \in Versions \ {file}
  /\ UNCHANGED <<registry, strangers, rows, at, memory, raced, held>>

\* Another service claims a prefix that is free.
StrangerClaims ==
  /\ strangers < MaxStrangers /\ strangers' = strangers + 1
  /\ registry.state = "whole"
  /\ \E k \in Keys :
       /\ registry.claims[k].owner = ""
       /\ registry' = [registry EXCEPT !.claims =
            [registry.claims EXCEPT ![k] = [owner |-> Stranger, issuer |-> TRUE]]]
       /\ held' = held \cup {<<k[1], k[2], Stranger>>}
  /\ UNCHANGED <<file, edits, rows, at, memory, raced>>

Crash(p) ==
  /\ at[p] \notin {"off", "gone", "died writing"}
  /\ Ends(p, IF at[p] = "writing" THEN "died writing" ELSE "gone")

DeploymentNext ==
  \/ \E p \in Processes :
       \/ Launch(p) \/ Load(p) \/ Build(p) \/ ReadRegistry(p) \/ Truncate(p)
       \/ Write(p) \/ SelectRow(p) \/ Commit(p) \/ Rollback(p) \/ Spawn(p) \/ Crash(p)
  \/ Edit \/ StrangerClaims

DeploymentSpec == DeploymentInit /\ [][DeploymentNext]_deploymentVars

-----------------------------------------------------------------------------

Serves(p) == at[p] = "ready" /\ run[p].kind \in {"server", "container"}

DeploymentTypeOK ==
  /\ file \in Versions /\ edits \in 0..MaxEdits /\ strangers \in 0..MaxStrangers
  /\ registry \in [state : {"absent", "torn", "whole"}, claims : [Keys -> Claims]]
  /\ rows \in [RowKeys -> {"", "earlier", "seeded"}]
  /\ at \in [Processes -> {"off", "begun", "loaded", "built", "claiming", "writing",
                           "claimed", "seeding", "inserting", "ready", "gone", "died writing"}]
  /\ run \in [Processes -> [kind : {"none", "gui", "container", "cli", "server"},
                            auth : Words, env : Environments]]
  /\ asked \in [Processes -> Words]
  /\ cfg \in [Processes -> Versions \cup {NoConfig}]
  /\ seen \in [Processes -> [Keys -> Claims]]
  /\ raced \in BOOLEAN /\ held \subseteq Domains \X (Prefixes \cup OtherPrefixes)
                                                 \X (Owners \cup {Stranger})

\* Claims are kept.  As long as nobody wrote the shared file over what he had
\* not read: every claim it ever had is there, with its first owner, whenever
\* the file is whole; it is in pieces only while somebody writes it or after
\* he died writing; and an identity prefix is seeded only for a service that
\* has all its prefixes there, in some spelling of the domain: a start that
\* fails, or is rolled back, leaves claims without rows and never rows without
\* claims.
ClaimsKept ==
  ~raced =>
    /\ registry.state = "whole" =>
         \A h \in held : registry.claims[<<h[1], h[2]>>].owner = h[3]
    /\ registry.state = "torn" => \E p \in Processes : at[p] \in {"writing", "died writing"}
    /\ \A d \in Domains, o \in Owners :
         rows[<<Upper[d], o>>] = "seeded" =>
           \E c \in Domains : Upper[c] = Upper[d] /\ \A x \in Prefixes : <<c, x, o>> \in held

\* A server serves as it was asked to.  It runs in one of the three modes,
\* the one its command settled on, although the file may be edited between
\* the command's reading of it and the server's; the settings this mode needs
\* are all in the very version of the file that the server has read; and, as
\* long as nobody raced, its prefixes are claimed for the owner in that version.
ServesAsConfigured ==
  \A p \in Processes : Serves(p) =>
    /\ asked[p] \in Modes /\ asked[p] = run[p].env.mode
    /\ run[p].auth # "" => asked[p] = run[p].auth
    /\ Loads(cfg[p], run[p].env) /\ Complete(asked[p], cfg[p], run[p].env)
    /\ ~raced => \A x \in Prefixes : <<cfg[p].domain, x, cfg[p].owner>> \in held

=============================================================================
