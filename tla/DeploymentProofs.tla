-------------------------- MODULE DeploymentProofs --------------------------
(***************************************************************************)
(* Proofs about Deployment, for any processes, configurations, launches    *)
(* and prefixes.  The invariant says of each process what it has made sure *)
(* of by the place where it stands (Fine), and of the shared file that a   *)
(* process which is writing it, and has not raced, is the only one and     *)
(* knows every claim there ever was (Shared).                              *)
(***************************************************************************)
EXTENDS Deployment, TLAPS

AfterClaim == {"claimed", "seeding", "inserting", "ready"}
AfterBuild == {"built", "claiming", "writing"} \cup AfterClaim
AfterLoad == {"loaded"} \cup AfterBuild
Places == {"off", "begun", "gone", "died writing"} \cup AfterLoad

AllHeld(c) == \A x \in Prefixes : <<c.domain, x, c.owner>> \in held

HeldIn(claims) ==
  \A d \in Domains, x \in Prefixes \cup OtherPrefixes, o \in Owners \cup {Stranger} :
    <<d, x, o>> \in held => claims[<<d, x>>].owner = o

\* The mode that process p was to settle on, from what it has read.
AskedFor(p) ==
  IF run[p].kind = "gui" /\ run[p].auth # "" THEN run[p].auth ELSE Mode(cfg[p], run[p].env)

Fine(p) ==
  /\ run[p].kind \in {"server", "container"} =>
       /\ run[p].env.mode \in Modes /\ ~run[p].env.noAuth
       /\ run[p].auth # "" => run[p].env.mode = run[p].auth
  /\ at[p] \in AfterLoad =>
       cfg[p] \in Versions /\ Loads(cfg[p], run[p].env) /\ asked[p] = AskedFor(p)
  /\ at[p] \in AfterBuild =>
       /\ run[p].kind = "gui" => asked[p] \in Modes
       /\ run[p].kind \in {"server", "container"} => Complete(asked[p], cfg[p], run[p].env)
  /\ at[p] \in {"claiming", "writing"} => ~Blocked(cfg[p], seen[p])
  /\ ~raced /\ at[p] \in AfterClaim => AllHeld(cfg[p])

\* What is seeded is claimed, in some spelling of the domain.
Claimant(d, o, c) == Upper[c] = Upper[d] /\ \A x \in Prefixes : <<c, x, o>> \in held

SeededHeld ==
  \A d \in Domains, o \in Owners :
    rows[<<Upper[d], o>>] = "seeded" => \E c \in Domains : Claimant(d, o, c)

Shared ==
  /\ registry.state = "whole" =>
       \A d \in Domains, x \in Prefixes \cup OtherPrefixes :
         LET o == registry.claims[<<d, x>>].owner IN o # "" => <<d, x, o>> \in held
  /\ ~raced =>
       /\ registry.state = "whole" => HeldIn(registry.claims)
       /\ registry.state = "torn" => \E p \in Processes : at[p] \in {"writing", "died writing"}
       /\ \A p \in Processes : at[p] = "writing" =>
            /\ registry.state = "torn" /\ HeldIn(seen[p])
            /\ \A q \in Processes : at[q] = "writing" => q = p
       /\ SeededHeld

IInv == DeploymentTypeOK /\ (\A p \in Processes : Fine(p)) /\ Shared

-----------------------------------------------------------------------------

LEMMA HoldsPointwise ==
  ASSUME NEW claims \in [Keys -> Claims]
  PROVE  /\ \A d, x, o : <<d, x, o>> \in Holds(claims) <=>
              /\ d \in Domains /\ x \in Prefixes \cup OtherPrefixes
              /\ claims[<<d, x>>].owner = o /\ o # ""
         /\ Holds(claims) \subseteq Domains \X (Prefixes \cup OtherPrefixes)
                                          \X (Owners \cup {Stranger})
<1>1. \A k \in Keys : claims[k].owner \in Owners \cup {Stranger, ""}
  BY DEF Claims
<1>2. \A d, x : <<d, x>> \in Keys <=> d \in Domains /\ x \in Prefixes \cup OtherPrefixes
  BY DEF Keys
<1>3. \A k \in Keys : /\ k = <<k[1], k[2]>> /\ k[1] \in Domains
                       /\ k[2] \in Prefixes \cup OtherPrefixes
  BY DEF Keys
<1>4. ASSUME NEW d, NEW x, NEW o
      PROVE  <<d, x, o>> \in Holds(claims) <=>
               /\ d \in Domains /\ x \in Prefixes \cup OtherPrefixes
               /\ claims[<<d, x>>].owner = o /\ o # ""
  <2>1. ASSUME <<d, x, o>> \in Holds(claims)
        PROVE  /\ d \in Domains /\ x \in Prefixes \cup OtherPrefixes
               /\ claims[<<d, x>>].owner = o /\ o # ""
    <3>1. PICK k \in Keys : claims[k].owner # "" /\ <<d, x, o>> = <<k[1], k[2], claims[k].owner>>
      BY <2>1 DEF Holds
    <3>2. k = <<d, x>> /\ o = claims[k].owner
      BY <1>3, <3>1
    <3> QED BY <1>2, <3>1, <3>2
  <2>2. ASSUME d \in Domains, x \in Prefixes \cup OtherPrefixes,
               claims[<<d, x>>].owner = o, o # ""
        PROVE  <<d, x, o>> \in Holds(claims)
    <3>1. <<d, x>> \in Keys /\ <<d, x>>[1] = d /\ <<d, x>>[2] = x
      BY <1>2, <2>2
    <3> QED BY <2>2, <3>1 DEF Holds
  <2> QED BY <2>1, <2>2
<1>5. ASSUME NEW h \in Holds(claims)
      PROVE  h \in Domains \X (Prefixes \cup OtherPrefixes) \X (Owners \cup {Stranger})
  <2>1. PICK k \in Keys : claims[k].owner # "" /\ h = <<k[1], k[2], claims[k].owner>>
    BY DEF Holds
  <2>2. claims[k].owner \in Owners \cup {Stranger}
    BY <1>1, <2>1
  <2> QED BY <1>3, <2>1, <2>2
<1> QED BY <1>4, <1>5

\* What a process knows and remembers when it does not run.
LEMMA NothingTyped ==
  /\ NoClaims \in [Keys -> Claims]
  /\ NoLaunch \in [kind : {"none"}, auth : Words, env : Environments]
  /\ NoLaunch.kind = "none"
<1>1. NoClaims \in [Keys -> Claims]
  BY DEF NoClaims, Claims
<1>2. [keys |-> {}, flawed |-> {}, mode |-> "", noAuth |-> FALSE] \in Environments
  <2>1. {} \in SUBSET STRING /\ "" \in Words /\ FALSE \in BOOLEAN
    BY DEF Words
  <2> QED BY <2>1 DEF Environments
<1>3. "" \in Words
  BY DEF Words
<1> QED BY <1>1, <1>2, <1>3 DEF NoLaunch

LEMMA DefaultModes == "none" \in Words /\ "cognito" \in Words
BY DEF Words, Modes

LEMMA Bounds == MaxEdits \in Nat /\ MaxStrangers \in Nat
BY DeploymentAssumption

LEMMA ConfigTypes ==
  ASSUME NEW c \in Versions
  PROVE  /\ c.domain \in Domains /\ c.owner \in Owners /\ c.owner # "" /\ c.mode \in Words
         /\ Row(c) \in RowKeys
BY DeploymentAssumption DEF Domains, Owners, Row, RowKeys

\* What a claim makes of the file for its prefixes, and for the others.
LEMMA ClaimedPointwise ==
  ASSUME NEW c \in Versions, NEW claims \in [Keys -> Claims]
  PROVE  /\ Claimed(c, claims) \in [Keys -> Claims]
         /\ \A d \in Domains, x \in Prefixes \cup OtherPrefixes :
              Claimed(c, claims)[<<d, x>>].owner =
                IF d = c.domain /\ x \in Prefixes THEN c.owner ELSE claims[<<d, x>>].owner
<1>1. [owner |-> c.owner, issuer |-> TRUE] \in Claims
  BY ConfigTypes DEF Claims
<1>2. \A d \in Domains, x \in Prefixes \cup OtherPrefixes :
        <<d, x>> \in Keys /\ <<d, x>>[1] = d /\ <<d, x>>[2] = x
  BY DEF Keys
<1> QED BY <1>1, <1>2 DEF Claimed

LEMMA Initially == DeploymentInit => IInv
<1> SUFFICES ASSUME NEW version \in Versions, NEW shared \in Registries,
                    NEW seeded \in FirstRows, Deployed(version, shared, seeded)
             PROVE  IInv
  BY DEF DeploymentInit
<1>1. registry \in [state : {"absent", "whole"}, claims : [Keys -> Claims]]
      /\ rows \in [RowKeys -> {"", "earlier"}]
  BY DeploymentAssumption DEF Deployed
<1>2. held = Holds(registry.claims) /\ registry.claims \in [Keys -> Claims]
  BY <1>1 DEF Deployed
<1>3. /\ at = [p \in Processes |-> "off"] /\ run = [p \in Processes |-> NoLaunch]
      /\ cfg = [p \in Processes |-> NoConfig] /\ asked = [p \in Processes |-> ""]
      /\ seen = [p \in Processes |-> NoClaims] /\ raced = FALSE
      /\ file \in Versions /\ edits = 0 /\ strangers = 0
  BY DEF Deployed
<1>4. DeploymentTypeOK
  <2>1. held \subseteq Domains \X (Prefixes \cup OtherPrefixes) \X (Owners \cup {Stranger})
    BY <1>2, HoldsPointwise
  <2>2. 0 \in 0..MaxEdits /\ 0 \in 0..MaxStrangers
    BY Bounds
  <2>3. registry \in [state : {"absent", "torn", "whole"}, claims : [Keys -> Claims]]
    BY <1>1
  <2>4. run \in [Processes -> [kind : {"none", "gui", "container", "cli", "server"},
                               auth : Words, env : Environments]]
    BY <1>3, NothingTyped
  <2>5. seen \in [Processes -> [Keys -> Claims]]
    BY <1>3, NothingTyped
  <2>6. asked \in [Processes -> Words] /\ cfg \in [Processes -> Versions \cup {NoConfig}]
    BY <1>3 DEF Words
  <2> QED BY <1>1, <1>3, <2>1, <2>2, <2>3, <2>4, <2>5, <2>6 DEF DeploymentTypeOK
<1>5. \A p \in Processes : Fine(p)
  BY <1>3, NothingTyped DEF Fine, AfterLoad, AfterBuild, AfterClaim
<1>6. Shared
  <2>1. \A d, x, o : <<d, x, o>> \in held <=>
          /\ d \in Domains /\ x \in Prefixes \cup OtherPrefixes
          /\ registry.claims[<<d, x>>].owner = o /\ o # ""
    BY <1>2, HoldsPointwise
  <2>2. HeldIn(registry.claims)
    BY <2>1 DEF HeldIn
  <2>3. \A d \in Domains, o \in Owners : rows[<<Upper[d], o>>] # "seeded"
    BY <1>1 DEF RowKeys
  <2>4. SeededHeld
    BY <2>3 DEF SeededHeld
  <2> QED BY <1>1, <1>3, <2>1, <2>2, <2>4 DEF Shared
<1> QED BY <1>4, <1>5, <1>6 DEF IInv

-----------------------------------------------------------------------------
(* Steps of one process.                                                   *)

\* A process that a step leaves alone is as fine as it was: the set of the
\* claims there have been only grows, and a race is never undone.
LEMMA Still ==
  ASSUME NEW p, Fine(p), held \subseteq held', raced => raced',
         at'[p] = at[p], run'[p] = run[p], cfg'[p] = cfg[p], asked'[p] = asked[p],
         seen'[p] = seen[p]
  PROVE  Fine(p)'
BY DEF Fine, AskedFor, AllHeld

\* So it stays while the set of the claims only grows.
LEMMA SeededStill ==
  ASSUME SeededHeld, rows' = rows, held \subseteq held'
  PROVE  SeededHeld'
<1> SUFFICES ASSUME NEW d \in Domains, NEW o \in Owners, rows[<<Upper[d], o>>] = "seeded"
             PROVE  \E c \in Domains : Claimant(d, o, c)'
  BY DEF SeededHeld
<1>1. PICK c \in Domains : Claimant(d, o, c)
  BY DEF SeededHeld
<1> QED BY <1>1 DEF Claimant

\* The shared part, when nobody begins or ends to write the file.
LEMMA SharedStill ==
  ASSUME Shared, UNCHANGED <<registry, raced, held>>,
         \A q \in Processes : at'[q] = "writing" => at[q] = "writing" /\ seen'[q] = seen[q],
         \A q \in Processes : at[q] \in {"writing", "died writing"} =>
                              at'[q] \in {"writing", "died writing"},
         ~raced => SeededHeld'
  PROVE  Shared'
<1>1. \A claims : HeldIn(claims) => HeldIn(claims)'
  BY DEF HeldIn
<1>2. ASSUME NEW q \in Processes, ~raced, at'[q] = "writing"
      PROVE  /\ registry.state = "torn" /\ HeldIn(seen[q])'
             /\ \A r \in Processes : at'[r] = "writing" => r = q
  <2>1. at[q] = "writing" /\ seen'[q] = seen[q]
    BY <1>2
  <2>2. HeldIn(seen[q]) /\ registry.state = "torn"
        /\ \A r \in Processes : at[r] = "writing" => r = q
    BY <1>2, <2>1 DEF Shared
  <2>3. HeldIn(seen[q])'
    <3>1. held' = held /\ seen'[q] = seen[q]
      BY <2>1
    <3>2. ASSUME NEW d \in Domains, NEW x \in Prefixes \cup OtherPrefixes,
                 NEW o \in Owners \cup {Stranger}, <<d, x, o>> \in held'
          PROVE  seen'[q][<<d, x>>].owner = o
      <4>1. seen[q][<<d, x>>].owner = o
        BY <2>2, <3>1, <3>2 DEF HeldIn
      <4> QED BY <3>1, <4>1
    <3> QED BY <3>2 DEF HeldIn
  <2> QED BY <1>2, <2>1, <2>2, <2>3
<1>3. registry.state = "torn" /\ ~raced =>
        \E q \in Processes : at'[q] \in {"writing", "died writing"}
  BY DEF Shared
<1> QED BY <1>1, <1>2, <1>3 DEF Shared

\* A step of process p that touches nothing shared, and neither begins nor
\* ends the writing of the file.
LEMMA LocalInv ==
  ASSUME IInv, NEW p \in Processes, UNCHANGED surroundings, DeploymentTypeOK', Fine(p)',
         \A q \in Processes \ {p} :
           /\ at'[q] = at[q] /\ run'[q] = run[q] /\ cfg'[q] = cfg[q] /\ asked'[q] = asked[q]
           /\ seen'[q] = seen[q],
         at[p] # "died writing", at'[p] # "writing",
         at[p] = "writing" => at'[p] = "died writing"
  PROVE  IInv'
<1>1. UNCHANGED <<registry, rows, raced, held>>
  BY DEF surroundings
<1>2. ASSUME NEW q \in Processes PROVE Fine(q)'
  BY <1>1, Still DEF IInv
<1>3. \A q \in Processes : at'[q] = "writing" => at[q] = "writing" /\ seen'[q] = seen[q]
  OBVIOUS
<1>4. \A q \in Processes : at[q] \in {"writing", "died writing"} =>
                            at'[q] \in {"writing", "died writing"}
  OBVIOUS
<1>5. ~raced => SeededHeld'
  BY <1>1, SeededStill DEF IInv, Shared
<1>6. Shared'
  BY <1>1, <1>3, <1>4, <1>5, SharedStill DEF IInv
<1> QED BY <1>2, <1>6 DEF IInv

LEMMA EndsInv ==
  ASSUME IInv, NEW p \in Processes, NEW how \in {"gone", "died writing"}, Ends(p, how),
         at[p] # "died writing", at[p] = "writing" => how = "died writing"
  PROVE  IInv'
<1>1. /\ at' = [at EXCEPT ![p] = how] /\ run' = [run EXCEPT ![p] = NoLaunch]
      /\ cfg' = [cfg EXCEPT ![p] = NoConfig] /\ asked' = [asked EXCEPT ![p] = ""]
      /\ seen' = [seen EXCEPT ![p] = NoClaims]
      /\ UNCHANGED surroundings /\ UNCHANGED <<file, edits, registry, strangers, rows, raced, held>>
  BY DEF Ends, Goes, surroundings
<1>2. /\ at \in [Processes -> Places] /\ DOMAIN run = Processes /\ DOMAIN cfg = Processes
      /\ DOMAIN asked = Processes /\ DOMAIN seen = Processes
  BY DEF IInv, DeploymentTypeOK, Places, AfterLoad, AfterBuild, AfterClaim
<1>3. DeploymentTypeOK'
  <2>1. run' \in [Processes -> [kind : {"none", "gui", "container", "cli", "server"},
                                auth : Words, env : Environments]]
    BY <1>1, NothingTyped DEF IInv, DeploymentTypeOK
  <2>2. seen' \in [Processes -> [Keys -> Claims]]
    BY <1>1, NothingTyped DEF IInv, DeploymentTypeOK
  <2>3. asked' \in [Processes -> Words]
    BY <1>1 DEF IInv, DeploymentTypeOK, Words
  <2>4. cfg' \in [Processes -> Versions \cup {NoConfig}]
    BY <1>1 DEF IInv, DeploymentTypeOK
  <2> QED BY <1>1, <2>1, <2>2, <2>3, <2>4 DEF IInv, DeploymentTypeOK
<1>4. Fine(p)'
  BY <1>1, <1>2, NothingTyped DEF Fine, AfterLoad, AfterBuild, AfterClaim
<1> QED BY <1>1, <1>2, <1>3, <1>4, LocalInv

\* A step of process p that changes only where it stands.
LEMMA MovesInv ==
  ASSUME IInv, NEW p \in Processes, NEW to \in Places, Moves(p, to),
         at[p] \notin {"writing", "died writing"}, to \notin {"claiming", "writing"},
         to \in AfterLoad => at[p] \in AfterLoad,
         to \in AfterBuild =>
           \/ at[p] \in AfterBuild
           \/ /\ run[p].kind = "gui" => asked[p] \in Modes
              /\ run[p].kind \in {"server", "container"} => Complete(asked[p], cfg[p], run[p].env),
         to \in AfterClaim => at[p] \in AfterClaim \/ (~raced => AllHeld(cfg[p]))
  PROVE  IInv'
<1>1. /\ at' = [at EXCEPT ![p] = to] /\ UNCHANGED surroundings
      /\ UNCHANGED <<file, edits, registry, strangers, rows, raced, held>>
      /\ UNCHANGED <<run, cfg, asked, seen>>
  BY DEF Moves, Goes, surroundings, memory
<1>2. at \in [Processes -> Places] /\ at' \in [Processes -> Places] /\ at'[p] = to
  BY <1>1 DEF IInv, DeploymentTypeOK, Places, AfterLoad, AfterBuild, AfterClaim
<1>3. DeploymentTypeOK'
  BY <1>1, <1>2 DEF IInv, DeploymentTypeOK, Places, AfterLoad, AfterBuild, AfterClaim
<1>4. Fine(p)'
  BY <1>1, <1>2 DEF IInv, Fine, AskedFor, AllHeld
<1> QED BY <1>1, <1>2, <1>3, <1>4, LocalInv

-----------------------------------------------------------------------------
(* The actions of one process.                                             *)

\* What every place of a process says of it, for use one at a time.
LEMMA Placed ==
  ASSUME IInv, NEW p \in Processes
  PROVE  /\ at[p] \in Places /\ DOMAIN at = Processes /\ Fine(p)
         /\ run \in [Processes -> [kind : {"none", "gui", "container", "cli", "server"},
                                   auth : Words, env : Environments]]
         /\ asked \in [Processes -> Words] /\ cfg \in [Processes -> Versions \cup {NoConfig}]
         /\ seen \in [Processes -> [Keys -> Claims]] /\ file \in Versions
         /\ registry \in [state : {"absent", "torn", "whole"}, claims : [Keys -> Claims]]
BY DEF IInv, DeploymentTypeOK, Places, AfterLoad, AfterBuild, AfterClaim

LEMMA LaunchInv ==
  ASSUME IInv, NEW p \in Processes, Launch(p)
  PROVE  IInv'
<1>1. PICK l \in Launches :
        IF Accepted(l)
        THEN /\ Goes(p, "begun") /\ run' = [run EXCEPT ![p] = l]
             /\ UNCHANGED <<surroundings, cfg, asked, seen>>
        ELSE Moves(p, "gone")
  BY DEF Launch
<1>2. at[p] = "off"
  BY DEF Launch
<1>3. CASE Accepted(l)
  <2>1. /\ at' = [at EXCEPT ![p] = "begun"] /\ run' = [run EXCEPT ![p] = l]
        /\ UNCHANGED surroundings /\ UNCHANGED <<cfg, asked, seen>>
        /\ UNCHANGED <<file, edits, registry, strangers, rows, raced, held>>
    BY <1>1, <1>3 DEF Goes, surroundings
  <2>2. /\ l \in [kind : {"gui", "container", "cli"}, auth : Words, env : Environments]
        /\ l.kind = "container" => l.auth = "" /\ ~l.env.noAuth /\ l.env.mode \in Modes
    BY <1>3, DeploymentAssumption DEF Accepted
  <2>3. DeploymentTypeOK'
    <3>1. run' \in [Processes -> [kind : {"none", "gui", "container", "cli", "server"},
                                  auth : Words, env : Environments]]
      BY <2>1, <2>2, Placed
    <3> QED BY <2>1, <3>1 DEF IInv, DeploymentTypeOK
  <2>4. at'[p] = "begun" /\ run'[p] = l
    BY <2>1, Placed
  <2>5. Fine(p)'
    BY <2>2, <2>4 DEF Fine, AfterLoad, AfterBuild, AfterClaim
  <2> QED BY <1>2, <2>1, <2>3, <2>4, <2>5, Placed, LocalInv
<1>4. CASE ~Accepted(l)
  <2>1. "gone" \in Places /\ "gone" \notin AfterLoad \cup AfterBuild \cup AfterClaim
    BY DEF Places, AfterLoad, AfterBuild, AfterClaim
  <2> QED BY <1>1, <1>2, <1>4, <2>1, MovesInv
<1> QED BY <1>3, <1>4

LEMMA LoadInv ==
  ASSUME IInv, NEW p \in Processes, Load(p)
  PROVE  IInv'
<1>1. CASE Loads(file, run[p].env)
  <2>1. /\ at' = [at EXCEPT ![p] = "loaded"] /\ cfg' = [cfg EXCEPT ![p] = file]
        /\ asked' = [asked EXCEPT ![p] = Settled(p)] /\ at[p] = "begun"
        /\ UNCHANGED surroundings /\ UNCHANGED <<run, seen>>
        /\ UNCHANGED <<file, edits, registry, strangers, rows, raced, held>>
    BY <1>1 DEF Load, Goes, surroundings
  <2>2. Settled(p) \in Words
    <3>1. file.mode \in Words /\ run[p].env.mode \in Words /\ run[p].auth \in Words
      BY Placed, ConfigTypes DEF Environments
    <3>2. Settled(p) \in {run[p].auth, run[p].env.mode, file.mode, "none", "cognito"}
      BY DEF Settled, Mode
    <3> QED BY <3>1, <3>2, DefaultModes
  <2>3. DeploymentTypeOK'
    <3>1. asked' \in [Processes -> Words] /\ cfg' \in [Processes -> Versions \cup {NoConfig}]
      BY <2>1, <2>2, Placed
    <3> QED BY <2>1, <3>1 DEF IInv, DeploymentTypeOK
  <2>4. at'[p] = "loaded" /\ cfg'[p] = file /\ asked'[p] = Settled(p)
    BY <2>1, Placed
  <2>5. Fine(p)'
    BY <1>1, <2>1, <2>4, Placed DEF Fine, AskedFor, Settled, AfterBuild, AfterClaim
  <2> QED BY <2>1, <2>3, <2>4, <2>5, Placed, LocalInv
<1>2. CASE ~Loads(file, run[p].env)
  BY <1>2, EndsInv DEF Load
<1> QED BY <1>1, <1>2

LEMMA BuildInv ==
  ASSUME IInv, NEW p \in Processes, Build(p)
  PROVE  IInv'
<1>1. at[p] = "loaded" /\ "built" \in Places /\ "built" \notin AfterClaim /\ at[p] \in AfterLoad
  BY DEF Build, Places, AfterLoad, AfterBuild, AfterClaim
<1>2. CASE Ends(p, "gone")
  BY <1>1, <1>2, EndsInv
<1>3. CASE /\ Moves(p, "built")
           /\ run[p].kind = "gui" => asked[p] \in Modes
           /\ run[p].kind \in {"server", "container"} => Complete(asked[p], cfg[p], run[p].env)
  BY <1>1, <1>3, MovesInv
<1> QED BY <1>2, <1>3 DEF Build, MovesIf

LEMMA ReadRegistryInv ==
  ASSUME IInv, NEW p \in Processes, ReadRegistry(p)
  PROVE  IInv'
<1>1. at[p] = "built" /\ at[p] \in AfterBuild /\ at[p] \in AfterLoad /\ cfg[p] \in Versions
  <2>1. at[p] = "built" /\ at[p] \in AfterBuild /\ at[p] \in AfterLoad
    BY DEF ReadRegistry, AfterBuild, AfterLoad
  <2> QED BY <2>1, Placed DEF Fine
<1>2. CASE Ends(p, "gone")
  BY <1>1, <1>2, EndsInv
<1>3. CASE /\ registry.state = "whole" /\ ~Blocked(cfg[p], registry.claims)
           /\ Claimed(cfg[p], registry.claims) = registry.claims /\ Moves(p, "claimed")
  <2>1. ASSUME NEW x \in Prefixes PROVE <<cfg[p].domain, x, cfg[p].owner>> \in held
    <3>1. registry.claims \in [Keys -> Claims] /\ cfg[p].domain \in Domains /\ cfg[p].owner # ""
      BY <1>1, Placed, ConfigTypes
    <3>2. Claimed(cfg[p], registry.claims)[<<cfg[p].domain, x>>].owner = cfg[p].owner
      BY <1>1, <3>1, ClaimedPointwise
    <3> QED BY <1>3, <3>1, <3>2 DEF IInv, Shared
  <2>2. AllHeld(cfg[p]) /\ "claimed" \in Places
    BY <2>1 DEF AllHeld, Places, AfterLoad, AfterBuild, AfterClaim
  <2> QED BY <1>1, <1>3, <2>2, MovesInv
<1>4. CASE /\ ~Blocked(cfg[p], registry.claims) /\ Goes(p, "claiming")
           /\ seen' = [seen EXCEPT ![p] = registry.claims]
           /\ UNCHANGED <<surroundings, run, cfg, asked>>
  <2>1. /\ at' = [at EXCEPT ![p] = "claiming"] /\ UNCHANGED <<run, cfg, asked>>
        /\ UNCHANGED surroundings
        /\ UNCHANGED <<file, edits, registry, strangers, rows, raced, held>>
    BY <1>4 DEF Goes, surroundings
  <2>2. DeploymentTypeOK'
    <3>1. seen' \in [Processes -> [Keys -> Claims]]
      BY <1>4, Placed
    <3> QED BY <2>1, <3>1 DEF IInv, DeploymentTypeOK
  <2>3. at'[p] = "claiming" /\ seen'[p] = registry.claims
    BY <1>4, <2>1, Placed
  <2>4. Fine(p)'
    BY <1>1, <1>4, <2>1, <2>3, Placed DEF Fine, AskedFor, AfterClaim, Blocked, Taken
  <2> QED BY <1>1, <1>4, <2>1, <2>2, <2>3, <2>4, Placed, LocalInv
<1> QED BY <1>2, <1>3, <1>4 DEF ReadRegistry

LEMMA SelectRowInv ==
  ASSUME IInv, NEW p \in Processes, SelectRow(p)
  PROVE  IInv'
<1>1. /\ at[p] = "claimed" /\ at[p] \in AfterClaim /\ at[p] \in AfterBuild /\ at[p] \in AfterLoad
      /\ {"seeding", "inserting"} \subseteq Places
  BY DEF SelectRow, Places, AfterLoad, AfterBuild, AfterClaim
<1>2. CASE Ends(p, "gone")
  BY <1>1, <1>2, EndsInv
<1>3. CASE Moves(p, "seeding") \/ Moves(p, "inserting")
  BY <1>1, <1>3, MovesInv
<1> QED BY <1>2, <1>3 DEF SelectRow, MovesIf

LEMMA SpawnInv ==
  ASSUME IInv, NEW p \in Processes, Spawn(p)
  PROVE  IInv'
<1>1. at[p] = "ready" /\ run[p].kind = "gui" /\ at[p] \in AfterBuild /\ at[p] \in AfterLoad
  BY DEF Spawn, AfterLoad, AfterBuild, AfterClaim
<1>2. CASE Ends(p, "gone")
  BY <1>1, <1>2, EndsInv
<1>3. CASE /\ Goes(p, "begun")
           /\ run' = [run EXCEPT ![p] =
                [kind |-> "server", auth |-> run[p].auth,
                 env |-> [run[p].env EXCEPT !.mode = asked[p], !.noAuth = FALSE]]]
           /\ UNCHANGED <<surroundings, cfg, asked, seen>>
  <2>1. /\ at' = [at EXCEPT ![p] = "begun"] /\ UNCHANGED surroundings
        /\ UNCHANGED <<cfg, asked, seen>>
        /\ UNCHANGED <<file, edits, registry, strangers, rows, raced, held>>
    BY <1>3 DEF Goes, surroundings
  <2>2. asked[p] \in Modes /\ asked[p] \in Words /\ (run[p].auth # "" => asked[p] = run[p].auth)
    BY <1>1, Placed DEF Fine, AskedFor
  <2> DEFINE E == [run[p].env EXCEPT !.mode = asked[p], !.noAuth = FALSE]
  <2>3. E \in Environments /\ E.mode = asked[p] /\ E.noAuth = FALSE
    <3>1. run[p].env \in Environments
      BY Placed
    <3> QED BY <2>2, <3>1 DEF Environments
  <2>4. /\ run'[p] = [kind |-> "server", auth |-> run[p].auth, env |-> E]
        /\ at'[p] = "begun" /\ run' = [run EXCEPT ![p] = run'[p]]
    BY <1>3, <2>1, Placed
  <2> HIDE DEF E
  <2>5. DeploymentTypeOK'
    <3>1. run' \in [Processes -> [kind : {"none", "gui", "container", "cli", "server"},
                                  auth : Words, env : Environments]]
      BY <2>3, <2>4, Placed
    <3> QED BY <2>1, <3>1 DEF IInv, DeploymentTypeOK
  <2>6. /\ run'[p].kind = "server" /\ run'[p].env.mode = asked[p] /\ run'[p].env.noAuth = FALSE
        /\ run'[p].auth = run[p].auth
    BY <2>3, <2>4
  <2>7. Fine(p)'
    BY <2>2, <2>4, <2>6 DEF Fine, AfterLoad, AfterBuild, AfterClaim
  <2> QED BY <1>1, <2>1, <2>4, <2>5, <2>7, Placed, LocalInv
<1> QED BY <1>2, <1>3 DEF Spawn

LEMMA TruncateInv ==
  ASSUME IInv, NEW p \in Processes, Truncate(p)
  PROVE  IInv'
<1>1. /\ at[p] = "claiming" /\ at' = [at EXCEPT ![p] = "writing"] /\ registry' = Torn
      /\ raced' = (raced \/ registry # [state |-> "whole", claims |-> seen[p]])
      /\ UNCHANGED <<file, edits, strangers, rows, held, run, cfg, asked, seen>>
  BY DEF Truncate, Goes, memory
<1>2. registry'.state = "torn" /\ at'[p] = "writing" /\ cfg[p] \in Versions
  BY <1>1, Placed DEF Torn, Fine, AfterLoad, AfterBuild
<1>3. DeploymentTypeOK'
  <2>1. registry' \in [state : {"absent", "torn", "whole"}, claims : [Keys -> Claims]]
    BY <1>1, NothingTyped DEF Torn
  <2>2. raced' \in BOOLEAN
    BY <1>1 DEF IInv, DeploymentTypeOK
  <2> QED BY <1>1, <2>1, <2>2 DEF IInv, DeploymentTypeOK
<1>4. ASSUME NEW q \in Processes PROVE Fine(q)'
  <2>1. CASE q = p
    BY <1>1, <1>2, <2>1, Placed DEF Fine, AskedFor, AfterLoad, AfterBuild, AfterClaim, Blocked,
       Taken
  <2>2. CASE q # p
    BY <1>1, <2>2, Placed, Still
  <2> QED BY <2>1, <2>2
<1>5. Shared'
  <2>1. SUFFICES ASSUME ~raced'
                 PROVE  /\ HeldIn(seen[p])'
                        /\ \A q \in Processes \ {p} : at'[q] # "writing"
                        /\ SeededHeld'
    BY <1>1, <1>2 DEF Shared
  <2>2. ~raced /\ registry.state = "whole" /\ registry.claims = seen[p]
    <3>1. ~raced /\ registry = [state |-> "whole", claims |-> seen[p]]
      BY <1>1, <2>1
    <3> QED BY <3>1
  <2>3. HeldIn(seen[p]) /\ \A q \in Processes : at[q] # "writing"
    BY <2>2 DEF IInv, Shared
  <2>4. SeededHeld'
    BY <1>1, <2>2, SeededStill DEF IInv, Shared
  <2> QED BY <1>1, <2>2, <2>3, <2>4, Placed DEF HeldIn, IInv, Shared
<1> QED BY <1>3, <1>4, <1>5 DEF IInv

LEMMA WriteInv ==
  ASSUME IInv, NEW p \in Processes, Write(p)
  PROVE  IInv'
<1> DEFINE claims == Claimed(cfg[p], seen[p])
<1>1. /\ at[p] = "writing" /\ at' = [at EXCEPT ![p] = "claimed"]
      /\ seen' = [seen EXCEPT ![p] = NoClaims]
      /\ UNCHANGED <<file, edits, strangers, rows, raced, run, cfg, asked>>
  BY DEF Write, Goes
<1>2. /\ cfg[p] \in Versions /\ seen[p] \in [Keys -> Claims] /\ ~Blocked(cfg[p], seen[p])
      /\ cfg[p].domain \in Domains /\ cfg[p].owner \in Owners /\ cfg[p].owner # ""
  BY <1>1, Placed, ConfigTypes DEF Fine, AfterLoad, AfterBuild
<1>3. claims \in [Keys -> Claims] /\ \A x \in Prefixes : claims[<<cfg[p].domain, x>>].owner = cfg[p].owner
  BY <1>2, ClaimedPointwise
<1>4. \/ /\ registry' = [state |-> "whole", claims |-> claims] /\ held' = held \cup Holds(claims)
      \/ /\ registry.state = "whole" /\ registry' = Torn /\ held' = held
  BY DEF Write
<1>5. /\ Holds(claims) \subseteq Domains \X (Prefixes \cup OtherPrefixes) \X (Owners \cup {Stranger})
      /\ \A d, x, o : <<d, x, o>> \in Holds(claims) <=>
           /\ d \in Domains /\ x \in Prefixes \cup OtherPrefixes
           /\ claims[<<d, x>>].owner = o /\ o # ""
  BY <1>3, HoldsPointwise
<1>6. ~raced => HeldIn(seen[p]) /\ registry.state = "torn"
                /\ \A q \in Processes : at[q] = "writing" => q = p
  BY <1>1 DEF IInv, Shared
<1>7. \A d \in Domains, x \in Prefixes \cup OtherPrefixes, o \in Owners \cup {Stranger} :
        <<d, x, o>> \in held => o # ""
  BY DeploymentAssumption DEF Owners
<1>8. \A d \in Domains, x \in Prefixes \cup OtherPrefixes :
        claims[<<d, x>>].owner =
          IF d = cfg[p].domain /\ x \in Prefixes THEN cfg[p].owner ELSE seen[p][<<d, x>>].owner
  BY <1>2, ClaimedPointwise
<1> HIDE DEF claims
<1>9. ASSUME ~raced PROVE HeldIn(claims)
  <2> SUFFICES ASSUME NEW d \in Domains, NEW x \in Prefixes \cup OtherPrefixes,
                      NEW o \in Owners \cup {Stranger}, <<d, x, o>> \in held
               PROVE  claims[<<d, x>>].owner = o
    BY DEF HeldIn
  <2>1. seen[p][<<d, x>>].owner = o /\ o # ""
    BY <1>6, <1>7, <1>9 DEF HeldIn
  <2>2. d = cfg[p].domain /\ x \in Prefixes => o = cfg[p].owner
    BY <1>2, <2>1 DEF Blocked, Taken
  <2> QED BY <1>8, <2>1, <2>2
<1>10. DeploymentTypeOK'
  <2>1. registry' \in [state : {"absent", "torn", "whole"}, claims : [Keys -> Claims]]
    BY <1>3, <1>4, NothingTyped DEF Torn
  <2>2. held' \subseteq Domains \X (Prefixes \cup OtherPrefixes) \X (Owners \cup {Stranger})
    BY <1>4, <1>5 DEF IInv, DeploymentTypeOK
  <2>3. seen' \in [Processes -> [Keys -> Claims]]
    BY <1>1, NothingTyped, Placed
  <2> QED BY <1>1, <2>1, <2>2, <2>3 DEF IInv, DeploymentTypeOK
<1>11. held \subseteq held'
  BY <1>4
<1>12. ~raced => AllHeld(cfg[p])'
  BY <1>1, <1>2, <1>3, <1>4, <1>5, <1>6 DEF AllHeld
<1>13. ASSUME NEW q \in Processes PROVE Fine(q)'
  <2>1. CASE q = p
    <3>1. at'[p] = "claimed" /\ UNCHANGED <<run, cfg, asked, raced>>
      BY <1>1, Placed
    <3>2. at[p] \in AfterBuild /\ at[p] \in AfterLoad
      BY <1>1 DEF AfterBuild, AfterLoad
    <3> QED BY <1>12, <2>1, <3>1, <3>2, Placed DEF Fine, AskedFor
  <2>2. CASE q # p
    BY <1>1, <1>11, <2>2, Placed, Still
  <2> QED BY <2>1, <2>2
<1>14. Shared'
  <2>1. ASSUME registry'.state = "whole",
               NEW d \in Domains, NEW x \in Prefixes \cup OtherPrefixes,
               registry'.claims[<<d, x>>].owner # ""
        PROVE  <<d, x, registry'.claims[<<d, x>>].owner>> \in held'
    <3>1. registry' = [state |-> "whole", claims |-> claims] /\ held' = held \cup Holds(claims)
      <4>1. Torn.state # "whole"
        BY DEF Torn
      <4> QED BY <1>4, <2>1, <4>1
    <3>2. registry'.claims = claims
      BY <3>1
    <3> QED BY <1>5, <2>1, <3>1, <3>2
  <2>2. ASSUME ~raced
        PROVE  /\ registry'.state = "whole" /\ HeldIn(registry.claims)'
               /\ \A q \in Processes : at'[q] # "writing"
    <3>1. registry' = [state |-> "whole", claims |-> claims] /\ held' = held \cup Holds(claims)
      BY <1>4, <1>6, <2>2
    <3>2. HeldIn(registry.claims)'
      BY <1>5, <1>9, <2>2, <3>1 DEF HeldIn
    <3> QED BY <1>1, <1>6, <2>2, <3>1, <3>2, Placed
  <2>3. ASSUME ~raced PROVE SeededHeld'
    BY <1>1, <1>11, <2>3, SeededStill DEF IInv, Shared
  <2> QED BY <1>1, <2>1, <2>2, <2>3 DEF Shared
<1> QED BY <1>10, <1>13, <1>14 DEF IInv

LEMMA CommitInv ==
  ASSUME IInv, NEW p \in Processes, Commit(p)
  PROVE  IInv'
<1>1. /\ at[p] \in {"seeding", "inserting"} /\ at' = [at EXCEPT ![p] = "ready"]
      /\ rows' = [rows EXCEPT ![Row(cfg[p])] = "seeded"]
      /\ UNCHANGED <<file, edits, registry, strangers, raced, held, run, cfg, asked, seen>>
  BY DEF Commit, Goes, memory
<1>2. at[p] \in AfterClaim /\ at[p] \in AfterBuild /\ at[p] \in AfterLoad /\ at'[p] = "ready"
  BY <1>1, Placed DEF AfterClaim, AfterBuild, AfterLoad
<1>3. cfg[p] \in Versions /\ (~raced => AllHeld(cfg[p]))
      /\ rows \in [RowKeys -> {"", "earlier", "seeded"}]
  BY <1>2, Placed DEF Fine, IInv, DeploymentTypeOK
<1>4. DeploymentTypeOK'
  BY <1>1, <1>3 DEF IInv, DeploymentTypeOK
<1>5. ASSUME NEW q \in Processes PROVE Fine(q)'
  <2>1. CASE q = p
    BY <1>1, <1>2, <2>1, Placed DEF Fine, AskedFor, AllHeld
  <2>2. CASE q # p
    BY <1>1, <2>2, Placed, Still
  <2> QED BY <2>1, <2>2
<1>6. Shared'
  <2>1. ASSUME ~raced, NEW d \in Domains, NEW o \in Owners, rows'[<<Upper[d], o>>] = "seeded"
        PROVE  \E c \in Domains : Claimant(d, o, c)'
    <3>1. CASE <<Upper[d], o>> = Row(cfg[p])
      <4>1. Upper[cfg[p].domain] = Upper[d] /\ o = cfg[p].owner /\ cfg[p].domain \in Domains
        BY <1>3, <3>1, ConfigTypes DEF Row
      <4> QED BY <1>1, <1>3, <2>1, <4>1 DEF AllHeld, Claimant
    <3>2. CASE <<Upper[d], o>> # Row(cfg[p])
      <4>1. <<Upper[d], o>> \in RowKeys
        BY DEF RowKeys
      <4>2. rows[<<Upper[d], o>>] = "seeded"
        BY <1>1, <1>3, <2>1, <3>2, <4>1
      <4>3. PICK c \in Domains : Claimant(d, o, c)
        BY <2>1, <4>2 DEF IInv, Shared, SeededHeld
      <4> QED BY <1>1, <4>3 DEF Claimant
    <3> QED BY <3>1, <3>2
  <2>2. \A q \in Processes : at'[q] = "writing" => at[q] = "writing" /\ q # p
    BY <1>1, <1>2, Placed
  <2>3. \A q \in Processes : at[q] \in {"writing", "died writing"} => at'[q] = at[q]
    BY <1>1, Placed
  <2>4. ~raced => SeededHeld'
    BY <2>1 DEF SeededHeld
  <2> QED BY <1>1, <2>2, <2>3, <2>4, SharedStill DEF IInv
<1> QED BY <1>4, <1>5, <1>6 DEF IInv

-----------------------------------------------------------------------------

LEMMA EditInv ==
  ASSUME IInv, Edit
  PROVE  IInv'
<1>1. /\ UNCHANGED <<registry, strangers, rows, at, run, cfg, asked, seen, raced, held>>
      /\ file' \in Versions /\ edits' \in 0..MaxEdits
  <2>1. edits \in 0..MaxEdits /\ edits < MaxEdits /\ edits' = edits + 1
    BY DEF Edit, IInv, DeploymentTypeOK
  <2>2. edits' \in 0..MaxEdits
    BY <2>1, Bounds
  <2> QED BY <2>2 DEF Edit, memory
<1>2. DeploymentTypeOK'
  BY <1>1 DEF IInv, DeploymentTypeOK
<1>3. ASSUME NEW q \in Processes PROVE Fine(q)'
  BY <1>1, Placed, Still
<1>4. Shared'
  <2>1. ~raced => SeededHeld'
    BY <1>1, SeededStill DEF IInv, Shared
  <2> QED BY <1>1, <2>1, SharedStill DEF IInv
<1> QED BY <1>2, <1>3, <1>4 DEF IInv

LEMMA StrangerInv ==
  ASSUME IInv, StrangerClaims
  PROVE  IInv'
<1>1. PICK k \in Keys :
        /\ registry.claims[k].owner = ""
        /\ registry' = [registry EXCEPT !.claims =
             [registry.claims EXCEPT ![k] = [owner |-> Stranger, issuer |-> TRUE]]]
        /\ held' = held \cup {<<k[1], k[2], Stranger>>}
  BY DEF StrangerClaims
<1>2. PICK e \in Domains, y \in Prefixes \cup OtherPrefixes : k = <<e, y>>
  BY DEF Keys
<1>3. /\ registry \in [state : {"absent", "torn", "whole"}, claims : [Keys -> Claims]]
      /\ registry.state = "whole" /\ strangers' \in 0..MaxStrangers
      /\ UNCHANGED <<file, edits, rows, at, run, cfg, asked, seen, raced>>
  <2>1. strangers \in 0..MaxStrangers /\ strangers < MaxStrangers /\ strangers' = strangers + 1
    BY DEF StrangerClaims, IInv, DeploymentTypeOK
  <2>2. strangers' \in 0..MaxStrangers
    BY <2>1, Bounds
  <2> QED BY <2>2 DEF StrangerClaims, memory, IInv, DeploymentTypeOK
<1>4. [owner |-> Stranger, issuer |-> TRUE] \in Claims
  BY DEF Claims
<1>5. /\ registry' \in [state : {"absent", "torn", "whole"}, claims : [Keys -> Claims]]
      /\ registry'.state = "whole" /\ held' = held \cup {<<e, y, Stranger>>}
      /\ registry'.claims =
           [registry.claims EXCEPT ![<<e, y>>] = [owner |-> Stranger, issuer |-> TRUE]]
  BY <1>1, <1>2, <1>3, <1>4
<1>6. \A d \in Domains, x \in Prefixes \cup OtherPrefixes :
        registry'.claims[<<d, x>>].owner =
          IF d = e /\ x = y THEN Stranger ELSE registry.claims[<<d, x>>].owner
  <2>1. \A d \in Domains, x \in Prefixes \cup OtherPrefixes : <<d, x>> \in Keys
    BY DEF Keys
  <2>2. registry.claims \in [Keys -> Claims]
    BY <1>3
  <2> DEFINE claim == [owner |-> Stranger, issuer |-> TRUE]
  <2>3. claim.owner = Stranger
    OBVIOUS
  <2> HIDE DEF claim
  <2>4. registry'.claims = [registry.claims EXCEPT ![<<e, y>>] = claim]
    BY <1>5 DEF claim
  <2>5. ASSUME NEW d \in Domains, NEW x \in Prefixes \cup OtherPrefixes
        PROVE  registry'.claims[<<d, x>>] =
                 IF d = e /\ x = y THEN claim ELSE registry.claims[<<d, x>>]
    BY <2>1, <2>2, <2>4
  <2> QED BY <2>3, <2>5
<1>7. DeploymentTypeOK'
  <2>1. held' \subseteq Domains \X (Prefixes \cup OtherPrefixes) \X (Owners \cup {Stranger})
    <3>1. <<e, y, Stranger>> \in
            Domains \X (Prefixes \cup OtherPrefixes) \X (Owners \cup {Stranger})
      BY <1>2
    <3> QED BY <1>5, <3>1 DEF IInv, DeploymentTypeOK
  <2> QED BY <1>3, <1>5, <2>1 DEF IInv, DeploymentTypeOK
<1>8. ASSUME NEW q \in Processes PROVE Fine(q)'
  BY <1>3, <1>5, Placed, Still
<1>9. Stranger # "" /\ registry.claims[<<e, y>>].owner = ""
  BY <1>1, <1>2, DeploymentAssumption
<1>10. Shared'
  <2>1. ASSUME NEW d \in Domains, NEW x \in Prefixes \cup OtherPrefixes,
               registry'.claims[<<d, x>>].owner # ""
        PROVE  <<d, x, registry'.claims[<<d, x>>].owner>> \in held'
    BY <1>3, <1>5, <1>6, <2>1 DEF IInv, Shared
  <2>2. ASSUME ~raced PROVE HeldIn(registry.claims)'
    <3> SUFFICES ASSUME NEW d \in Domains, NEW x \in Prefixes \cup OtherPrefixes,
                        NEW o \in Owners \cup {Stranger}, <<d, x, o>> \in held'
                 PROVE  registry'.claims[<<d, x>>].owner = o
      BY DEF HeldIn
    <3>1. CASE <<d, x, o>> \in held
      <4>1. registry.claims[<<d, x>>].owner = o
        BY <1>3, <2>2, <3>1 DEF IInv, Shared, HeldIn
      <4>2. o # ""
        BY DeploymentAssumption DEF Owners
      <4> QED BY <1>6, <1>9, <4>1, <4>2
    <3>2. CASE <<d, x, o>> = <<e, y, Stranger>>
      BY <1>6, <3>2
    <3> QED BY <1>5, <3>1, <3>2
  <2>3. ~raced => \A q \in Processes : at[q] # "writing"
    BY <1>3 DEF IInv, Shared
  <2>4. ~raced => SeededHeld'
    BY <1>3, <1>5, SeededStill DEF IInv, Shared
  <2> QED BY <1>3, <1>5, <2>1, <2>2, <2>3, <2>4 DEF IInv, Shared
<1> QED BY <1>7, <1>8, <1>10 DEF IInv

LEMMA Inductive == IInv /\ [DeploymentNext]_deploymentVars => IInv'
<1> SUFFICES ASSUME IInv, [DeploymentNext]_deploymentVars PROVE IInv'
  OBVIOUS
<1>1. ASSUME NEW p \in Processes, Launch(p) \/ Load(p) \/ Build(p) \/ ReadRegistry(p)
      PROVE  IInv'
  BY <1>1, LaunchInv, LoadInv, BuildInv, ReadRegistryInv
<1>2. ASSUME NEW p \in Processes, Truncate(p) \/ Write(p) \/ SelectRow(p) \/ Commit(p) \/ Spawn(p)
      PROVE  IInv'
  BY <1>2, TruncateInv, WriteInv, SelectRowInv, CommitInv, SpawnInv
<1>3. ASSUME NEW p \in Processes, Rollback(p) PROVE IInv'
  BY <1>3, EndsInv DEF Rollback
<1>4. ASSUME NEW p \in Processes, Crash(p) PROVE IInv'
  BY <1>4, EndsInv DEF Crash
<1>5. CASE Edit
  BY <1>5, EditInv
<1>6. CASE StrangerClaims
  BY <1>6, StrangerInv
<1>7. CASE UNCHANGED deploymentVars
  <2>1. UNCHANGED <<file, edits, registry, strangers, rows, at, run, cfg, asked, seen, raced, held>>
    BY <1>7 DEF deploymentVars
  <2>2. DeploymentTypeOK'
    BY <2>1 DEF IInv, DeploymentTypeOK
  <2>3. ASSUME NEW q \in Processes PROVE Fine(q)'
    BY <2>1, Placed, Still
  <2>4. Shared'
    <3>1. ~raced => SeededHeld'
      BY <2>1, SeededStill DEF IInv, Shared
    <3> QED BY <2>1, <3>1, SharedStill DEF IInv
  <2> QED BY <2>2, <2>3, <2>4 DEF IInv
<1> QED BY <1>1, <1>2, <1>3, <1>4, <1>5, <1>6, <1>7 DEF DeploymentNext

LEMMA Invariant == DeploymentSpec => []IInv
BY Initially, Inductive, PTL DEF DeploymentSpec

\* The files, the database and the processes are well typed.
THEOREM DeploymentTypeCorrect == DeploymentSpec => []DeploymentTypeOK
<1>1. IInv => DeploymentTypeOK
  BY DEF IInv
<1> QED BY <1>1, Invariant, PTL

\* As long as nobody wrote the shared file over what he had not read: no
\* claim is lost or changes hands, the file is in pieces only while or because
\* somebody writes it, and rows are seeded only for claimed prefixes.
THEOREM EveryClaimKept == DeploymentSpec => []ClaimsKept
<1>1. IInv => ClaimsKept
  <2> SUFFICES ASSUME IInv, ~raced PROVE ClaimsKept
    BY DEF ClaimsKept
  <2>1. ASSUME registry.state = "whole", NEW h \in held
        PROVE  registry.claims[<<h[1], h[2]>>].owner = h[3]
    <3>1. PICK d \in Domains, x \in Prefixes \cup OtherPrefixes, o \in Owners \cup {Stranger} :
            h = <<d, x, o>>
      <4>1. h \in Domains \X (Prefixes \cup OtherPrefixes) \X (Owners \cup {Stranger})
        BY DEF IInv, DeploymentTypeOK
      <4> QED BY <4>1
    <3> QED BY <2>1, <3>1 DEF IInv, Shared, HeldIn
  <2> QED BY <2>1 DEF IInv, Shared, ClaimsKept, SeededHeld, Claimant
<1> QED BY <1>1, Invariant, PTL

\* Whatever is edited, and whoever starts or dies meanwhile: a server that
\* serves does so in the mode its command settled on, and the version of the
\* file that it has read gives all that this mode needs.
THEOREM ServersAsConfigured == DeploymentSpec => []ServesAsConfigured
<1>1. IInv => ServesAsConfigured
  <2> SUFFICES ASSUME IInv, NEW p \in Processes, Serves(p)
               PROVE  /\ asked[p] \in Modes /\ asked[p] = run[p].env.mode
                      /\ run[p].auth # "" => asked[p] = run[p].auth
                      /\ Loads(cfg[p], run[p].env) /\ Complete(asked[p], cfg[p], run[p].env)
                      /\ ~raced => \A x \in Prefixes : <<cfg[p].domain, x, cfg[p].owner>> \in held
    BY DEF ServesAsConfigured
  <2>1. /\ at[p] \in AfterClaim /\ at[p] \in AfterBuild /\ at[p] \in AfterLoad
        /\ run[p].kind \in {"server", "container"}
    BY DEF Serves, AfterClaim, AfterBuild, AfterLoad
  <2>2. /\ run[p].env.mode \in Modes /\ ~run[p].env.noAuth
        /\ run[p].auth # "" => run[p].env.mode = run[p].auth
        /\ Loads(cfg[p], run[p].env) /\ asked[p] = AskedFor(p)
        /\ Complete(asked[p], cfg[p], run[p].env)
        /\ ~raced => AllHeld(cfg[p])
    BY <2>1, Placed DEF Fine
  <2>3. asked[p] = run[p].env.mode
    BY <2>1, <2>2 DEF AskedFor, Mode, Modes
  <2> QED BY <2>2, <2>3 DEF AllHeld
<1> QED BY <1>1, Invariant, PTL

=============================================================================
