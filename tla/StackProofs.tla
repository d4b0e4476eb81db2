------------------------------ MODULE StackProofs ------------------------------
(***************************************************************************)
(* Theorems about Stack, for every choice of services, environments, ports *)
(* and faults.                                                             *)
(***************************************************************************)
EXTENDS Stack, TLAPS

\* What has served could be started, and what is healthy has served and is asked
\* at a port at which it listens, by a client that its image has.
ServedInv ==
    /\ \A s \in Deployed : container[s] = "serving" => s \in served
    /\ \A s \in Deployed : health[s] = "healthy" =>
           s \in served /\ Listens(s) /\ s \in Clients
    /\ \A b \in served \cap Bridges : SettingsLoad(b) /\ HasDsn(b)

\* A probe of s can succeed.
CanBeHealthy(s) == Listens(s) /\ s \in Clients

\* What was started came after all that it depends on, and `make up` ended well only
\* when all was started.
OrderInv ==
    /\ \A s \in Deployed : container[s] # "absent" =>
           \A o \in DependsOn(s) : o \in served /\ CanBeHealthy(o)
    /\ up = "done" => \A s \in Deployed : container[s] # "absent"

\* Once the surroundings are settled nothing ends the health of a stack, and a
\* verification that began then has found nothing wrong that the probes would see.
CheckInv ==
    /\ verdict = "none" => failed = {} /\ ~begunWell
    /\ verdict \in {"passed", "failed"} =>
           checked = ToCheck /\ (verdict = "failed" <=> failed # {})
    /\ begunWell => settled /\ AllHealthy /\ \A s \in failed : AskedForMore(s)

StackInv == StackTypeOK /\ ServedInv /\ OrderInv /\ (settled => database)

-----------------------------------------------------------------------------

\* nginx depends on every other service.
LEMMA EdgeDependsOnAll ==
    ASSUME "nginx" \in Deployed
    PROVE  DependsOn("nginx") = Deployed \ {"nginx"}
  <1>1. DependsOn("nginx") = Deployed \cap (Platform \cup Bridges)
    BY DEF DependsOn, Bridges
  <1> QED
    BY <1>1, DeployedAssumption DEF Services, Platform, Bridges

\* A bridge that boots has its settings and a DSN.
LEMMA BootsMeans ==
    ASSUME NEW b \in Bridges, Boots(b)
    PROVE  SettingsLoad(b) /\ HasDsn(b)
  <1>1. CASE b = "intake"
    BY <1>1 DEF Boots, IntakeBoots, HasDsn
  <1>2. CASE b = "publisher"
    BY <1>2 DEF Boots, PublisherBoots
  <1>3. CASE b = "policy"
    BY <1>3 DEF Boots, PolicyBoots
  <1>4. CASE b = "observability"
    BY <1>4 DEF Boots, ObservabilityBoots
  <1> QED
    BY <1>1, <1>2, <1>3, <1>4 DEF Bridges

\* A settled stack whose services are all healthy answers every probe and, from the
\* host, every check.
LEMMA HealthyStacksAnswer ==
    ASSUME StackInv, settled, AllHealthy, NEW s \in Deployed
    PROVE  /\ Answers(s) /\ s \in Clients
           /\ "nginx" \in Deployed => Reachable(s)
  <1>1. database /\ \A o \in Deployed : /\ container[o] = "serving" /\ Listens(o)
                                        /\ o \in Clients
    BY DEF StackInv, ServedInv, AllHealthy
  <1>2. \A o \in Deployed : Answers(o)
    BY <1>1 DEF Answers
  <1> QED
    BY <1>1, <1>2 DEF Reachable

-----------------------------------------------------------------------------

LEMMA TypeInit == Init => StackTypeOK
  <1> SUFFICES ASSUME Init PROVE StackTypeOK
    OBVIOUS
  <1>1. database \in BOOLEAN /\ settled \in BOOLEAN /\ begunWell \in BOOLEAN
    <2>1. (Faults = {}) \in BOOLEAN
      OBVIOUS
    <2> QED
      BY <2>1 DEF Init
  <1>2. streak \in [Deployed -> 0..Retries]
    BY ConstantsAssumption DEF Init
  <1> QED
    BY <1>1, <1>2 DEF Init, StackTypeOK

LEMMA TypeStep ==
    ASSUME StackTypeOK, [Next]_vars
    PROVE  StackTypeOK'
  <1> USE ConstantsAssumption DEF StackTypeOK, ToCheck
  <1>1. ASSUME NEW s \in Deployed, Boot(s) \/ Restart(s) \/ Start(s) \/ Crash(s)
        PROVE  StackTypeOK'
    BY <1>1 DEF Boot, Restart, Start, Crash, Run, Exit, surroundings, check
  <1>2. ASSUME NEW s \in Deployed, Probe(s)
        PROVE  StackTypeOK'
    BY <1>2 DEF Probe, surroundings, check
  <1>3. ASSUME NEW s \in Deployed, CheckEndpoint(s)
        PROVE  StackTypeOK'
    BY <1>3 DEF CheckEndpoint, IsNext, docker, surroundings
  <1>4. CASE EndUp \/ Up
    BY <1>4 DEF EndUp, Up, docker, surroundings, check
  <1>5. CASE BeginCheck
    BY <1>5 DEF BeginCheck, AllHealthy, docker, surroundings
  <1>6. CASE EndCheck \/ Outage \/ Settle
    BY <1>6 DEF EndCheck, Outage, Settle, docker, surroundings, check
  <1>7. CASE UNCHANGED vars
    BY <1>7 DEF vars, docker, surroundings, check
  <1> QED
    BY <1>1, <1>2, <1>3, <1>4, <1>5, <1>6, <1>7 DEF Next, Automatic

\* What only the services, Docker and crashes change.
LEMMA ServedStep ==
    ASSUME StackInv, [Next]_vars
    PROVE  ServedInv' /\ served \subseteq served'
  <1>1. StackTypeOK /\ ServedInv
    BY DEF StackInv
  <1> USE <1>1 DEF StackTypeOK, ServedInv, Listens, HasDsn, SettingsLoad
  <1>2. ASSUME NEW s \in Deployed, Boot(s)
        PROVE  ServedInv' /\ served \subseteq served'
    <2>1. CASE /\ Boots(s) /\ container' = [container EXCEPT ![s] = "serving"]
               /\ served' = served \cup {s} /\ UNCHANGED <<health, streak>>
      <3>1. s \in Bridges => SettingsLoad(s) /\ HasDsn(s)
        BY <2>1, BootsMeans
      <3> QED
        BY <2>1, <3>1
    <2>2. CASE Exit(s)
      BY <2>2 DEF Exit
    <2> QED
      BY <1>2, <2>1, <2>2 DEF Boot
  <1>3. ASSUME NEW s \in Deployed, Restart(s) \/ Start(s) \/ Crash(s)
        PROVE  ServedInv' /\ served \subseteq served'
    BY <1>3 DEF Restart, Start, Crash, Run, Exit
  <1>4. ASSUME NEW s \in Deployed, Probe(s)
        PROVE  ServedInv' /\ served \subseteq served'
    <2>1. container' = container /\ served' = served
      BY <1>4 DEF Probe
    <2>2. \A o \in Deployed : health'[o] = "healthy" =>
             health[o] = "healthy" \/ (o = s /\ Answers(s) /\ s \in Clients)
      BY <1>4 DEF Probe
    <2> QED
      BY <2>1, <2>2 DEF Answers
  <1>5. CASE UNCHANGED docker
    BY <1>5 DEF docker
  <1> QED
    BY <1>2, <1>3, <1>4, <1>5
    DEF Next, Automatic, CheckEndpoint, EndUp, Up, BeginCheck, EndCheck, Outage, Settle, vars

\* docker compose starts what is absent, and nothing becomes absent again.
LEMMA StartStep ==
    ASSUME StackInv, [Next]_vars, NEW s \in Deployed
    PROVE  /\ container[s] # "absent" => container'[s] # "absent"
           /\ container[s] = "absent" /\ container'[s] # "absent" => Start(s)
  BY DEF StackInv, StackTypeOK, Next, Automatic, Boot, Restart, Probe, Start, Crash,
         CheckEndpoint, EndUp, Up, BeginCheck, EndCheck, Outage, Settle, vars, docker, Run,
         Exit

LEMMA OrderStep ==
    ASSUME StackInv, [Next]_vars
    PROVE  OrderInv'
  <1>1. StackTypeOK /\ ServedInv /\ OrderInv /\ served \subseteq served'
    BY ServedStep DEF StackInv
  <1>2. ASSUME NEW s \in Deployed, container'[s] # "absent", NEW o \in DependsOn(s)
        PROVE  o \in served /\ CanBeHealthy(o)
    <2>1. CASE container[s] # "absent"
      BY <1>1, <1>2, <2>1 DEF OrderInv
    <2>2. CASE container[s] = "absent"
      <3>1. Start(s)
        BY <1>2, <2>2, StartStep
      <3>2. health[o] = "healthy" /\ o \in Deployed
        BY <1>2, <3>1 DEF Start, DependsOn
      <3> QED
        BY <1>1, <3>2 DEF ServedInv, CanBeHealthy
    <2> QED
      BY <2>1, <2>2
  <1>3. up' = "done" => \A s \in Deployed : container'[s] # "absent"
    <2>1. up' = "done" => up = "done" \/ \A s \in Deployed : container[s] # "absent"
      BY DEF Next, Automatic, Boot, Restart, Probe, Start, Crash, CheckEndpoint, EndUp, Up,
             BeginCheck, EndCheck, Outage, Settle, vars
    <2> QED
      BY <1>1, <2>1, StartStep DEF OrderInv
  <1> QED
    BY <1>1, <1>2, <1>3 DEF OrderInv, CanBeHealthy, Listens, DependsOn

\* Neither Docker nor a probe disturbs a stack that is healthy and settled.
LEMMA HealthStays ==
    ASSUME StackInv, [Next]_vars, settled, AllHealthy
    PROVE  settled' /\ AllHealthy'
  <1>1. StackTypeOK
    BY DEF StackInv
  <1>2. settled'
    BY DEF Next, Automatic, Boot, Restart, Probe, Start, Crash, CheckEndpoint, EndUp, Up,
           BeginCheck, EndCheck, Outage, Settle, vars, surroundings
  <1>3. ASSUME NEW s \in Deployed, Probe(s)
        PROVE  AllHealthy'
    <2>1. Answers(s) /\ s \in Clients
      BY HealthyStacksAnswer
    <2>2. container' = container /\ health' = [health EXCEPT ![s] = "healthy"]
      BY <1>3, <2>1 DEF Probe
    <2> QED
      BY <1>1, <2>2 DEF AllHealthy, StackTypeOK
  <1>4. ASSUME NEW s \in Deployed
        PROVE  ~Boot(s) /\ ~Restart(s) /\ ~Start(s) /\ ~Crash(s)
    <2>1. container[s] = "serving" /\ settled = TRUE
      BY <1>1 DEF AllHealthy, StackTypeOK
    <2>2. ~Boot(s) /\ ~Restart(s)
      BY <2>1 DEF Boot, Restart
    <2>3. ~Start(s)
      BY <2>1 DEF Start
    <2>4. ~Crash(s)
      BY <2>1 DEF Crash
    <2> QED
      BY <2>2, <2>3, <2>4
  <1>5. CASE UNCHANGED docker
    BY <1>2, <1>5 DEF AllHealthy, docker
  <1>6. (\E s \in Deployed : Probe(s)) \/ UNCHANGED docker
    <2>1. ASSUME NEW s \in Deployed, Automatic(s) \/ Crash(s) \/ CheckEndpoint(s)
          PROVE  Probe(s) \/ UNCHANGED docker
      BY <1>4, <2>1 DEF Automatic, CheckEndpoint
    <2>2. CASE EndUp \/ Up \/ BeginCheck \/ EndCheck \/ Outage \/ Settle
      BY <2>2 DEF EndUp, Up, BeginCheck, EndCheck, Outage, Settle
    <2>3. CASE UNCHANGED vars
      BY <2>3 DEF vars
    <2> QED
      BY <2>1, <2>2, <2>3 DEF Next
  <1> QED
    BY <1>2, <1>3, <1>5, <1>6

\* The surroundings settle with PostgreSQL up.
LEMMA SettledStep ==
    ASSUME StackInv, [Next]_vars
    PROVE  settled' => database'
  BY DEF StackInv, Next, Automatic, Boot, Restart, Probe, Start, Crash, CheckEndpoint,
         EndUp, Up, BeginCheck, EndCheck, Outage, Settle, vars, surroundings

LEMMA CheckStep ==
    ASSUME "element" \in Deployed => "nginx" \in Deployed,
           StackInv, CheckInv, [Next]_vars
    PROVE  CheckInv'
  <1>1. settled /\ AllHealthy => settled' /\ AllHealthy'
    BY HealthStays
  <1>2. CASE BeginCheck
    <2>1. settled' = settled /\ (AllHealthy' <=> AllHealthy)
      BY <1>2 DEF BeginCheck, surroundings, docker, AllHealthy
    <2> QED
      BY <1>2, <2>1 DEF BeginCheck, CheckInv
  <1>3. ASSUME NEW s \in Deployed, CheckEndpoint(s)
        PROVE  CheckInv'
    <2>1. ASSUME begunWell PROVE Reachable(s)
      <3>1. settled /\ AllHealthy
        BY <2>1 DEF CheckInv
      <3>2. Answers(s) /\ ("nginx" \in Deployed => Answers("nginx"))
        BY <3>1, HealthyStacksAnswer
      <3> QED
        BY <3>2 DEF Reachable
    <2> QED
      BY <1>1, <1>3, <2>1 DEF CheckEndpoint, CheckInv
  <1>4. CASE EndCheck
    BY <1>1, <1>4 DEF EndCheck, CheckInv
  <1>5. CASE UNCHANGED check
    BY <1>1, <1>5 DEF check, CheckInv
  <1> QED
    BY <1>2, <1>3, <1>4, <1>5
    DEF Next, Automatic, Boot, Restart, Probe, Start, Crash, EndUp, Up, Outage, Settle, vars

LEMMA StackInit == Init => StackInv /\ CheckInv
  <1> SUFFICES ASSUME Init PROVE StackInv /\ CheckInv
    OBVIOUS
  <1>1. StackTypeOK
    BY TypeInit
  <1>2. ServedInv /\ OrderInv /\ CheckInv
    BY DEF Init, ServedInv, OrderInv, CheckInv
  <1>3. settled => database
    BY DEF Init
  <1> QED
    BY <1>1, <1>2, <1>3 DEF StackInv

\* Whatever serves or is healthy has been up with complete settings, every service
\* came after all that it depends on, and a database that settled stays.
THEOREM StackInductive == Spec => []StackInv
  <1>1. StackInv /\ [Next]_vars => StackInv'
    <2> SUFFICES ASSUME StackInv, [Next]_vars PROVE StackInv'
      OBVIOUS
    <2> QED
      BY TypeStep, ServedStep, OrderStep, SettledStep DEF StackInv
  <1> QED
    BY <1>1, StackInit, PTL DEF Spec

-----------------------------------------------------------------------------
(* What follows for every behavior, fair or not.                            *)

\* Every variable keeps its type: no probe counts past the retries of the
\* healthcheck, and healthcheck.sh counts only services that it asked.
THEOREM StackTypeCorrect == Spec => []StackTypeOK
  <1>1. StackInv => StackTypeOK
    BY DEF StackInv
  <1> QED
    BY <1>1, StackInductive, PTL

\* When nginx is started every other service has served once, so the settings of
\* every bridge are complete, whatever crashed in between.
THEOREM EdgeComesLast == Spec => []EdgeFollowsBridges
  <1>1. StackInv => EdgeFollowsBridges
    <2> SUFFICES ASSUME StackInv, "nginx" \in Deployed, container["nginx"] # "absent"
                 PROVE  /\ Deployed \ {"nginx"} \subseteq served
                        /\ \A b \in Deployed \cap Bridges : SettingsLoad(b) /\ HasDsn(b)
      BY DEF EdgeFollowsBridges
    <2>1. Deployed \ {"nginx"} \subseteq served
      BY EdgeDependsOnAll DEF StackInv, OrderInv
    <2>2. "nginx" \notin Bridges
      BY DEF Bridges
    <2> QED
      BY <2>1, <2>2 DEF StackInv, ServedInv
  <1> QED
    BY <1>1, StackInductive, PTL

\* healthcheck.sh asks every service whatever fails and says so if one did not answer,
\* and of a stack that was healthy and settled when it began it blames only services
\* that it asks for more than their probes do, wherever Element is deployed with the
\* edge that publishes its port.
THEOREM HealthyPasses ==
    ASSUME "element" \in Deployed => "nginx" \in Deployed
    PROVE  Spec => []HealthyStacksPass
  <1>1. StackInv /\ CheckInv /\ [Next]_vars => CheckInv'
    BY CheckStep
  <1>2. CheckInv => HealthyStacksPass
    BY DEF CheckInv, HealthyStacksPass
  <1> QED
    BY <1>1, <1>2, StackInit, StackInductive, PTL DEF Spec

\* depends_on is kept through every crash, restart and repeated `make up`: a service
\* that was ever started came after all those that it waits for had served, at a port
\* and with a client for their probes.
THEOREM StartsInOrder ==
    Spec => [](\A s \in Deployed : container[s] # "absent" =>
                  \A o \in DependsOn(s) : o \in served /\ CanBeHealthy(o))
  <1>1. StackInv => \A s \in Deployed : container[s] # "absent" =>
                       \A o \in DependsOn(s) : o \in served /\ CanBeHealthy(o)
    BY DEF StackInv, OrderInv
  <1> QED
    BY <1>1, StackInductive, PTL

\* The safety half of StackComesUp: once the surroundings settled and all is healthy,
\* no probe, restart or command of the operator ends it.
THEOREM HealthLasts == Spec => [][settled /\ AllHealthy => settled' /\ AllHealthy']_vars
  <1>1. StackInv /\ [Next]_vars => [settled /\ AllHealthy => settled' /\ AllHealthy']_vars
    BY HealthStays
  <1> QED
    BY <1>1, StackInductive, PTL DEF Spec

\* What a service needs of its image, its ports and its environment to be healthy once.
IsFit(s) == CanBeHealthy(s) /\ (s \in Bridges => SettingsLoad(s) /\ HasDsn(s))

Blocked == {s \in Deployed : \E o \in DependsOn(s) : ~IsFit(o)}

LEMMA BlockedStayDown ==
    ASSUME StackInv
    PROVE  /\ \A s \in Blocked : container[s] = "absent"
           /\ Blocked # {} => up # "done"
  <1>1. ASSUME NEW s \in Blocked, container[s] # "absent" PROVE FALSE
    <2>1. PICK o \in DependsOn(s) : ~IsFit(o)
      BY <1>1 DEF Blocked
    <2>2. o \in served /\ CanBeHealthy(o)
      BY <1>1, <2>1 DEF StackInv, OrderInv, Blocked
    <2> QED
      BY <2>1, <2>2 DEF StackInv, ServedInv, IsFit
  <1>2. up = "done" => \A s \in Blocked : container[s] # "absent"
    BY DEF StackInv, OrderInv, Blocked
  <1> QED
    BY <1>1, <1>2

\* One service that its configuration keeps from being healthy is enough: what depends
\* on it is never started, and `make up` never ends well however often it is repeated, so
\* that no healthcheck.sh comes after it.
THEOREM UnfitServicesBlock ==
    Spec => [](/\ \A s \in Blocked : container[s] = "absent"
               /\ Blocked # {} => up # "done" /\ verdict = "none")
  <1> DEFINE Unasked == Blocked # {} => verdict = "none"
  <1>1. Init => Unasked
    BY DEF Init
  <1>2. StackInv /\ Unasked /\ [Next]_vars => Unasked'
    BY BlockedStayDown
    DEF Next, Automatic, Boot, Restart, Probe, Start, Crash, CheckEndpoint, EndUp, Up,
        BeginCheck, EndCheck, Outage, Settle, vars, check
  <1>3. StackInv /\ Unasked =>
            /\ \A s \in Blocked : container[s] = "absent"
            /\ Blocked # {} => up # "done" /\ verdict = "none"
    BY BlockedStayDown
  <1> QED
    BY <1>1, <1>2, <1>3, StackInductive, PTL DEF Spec

\* With the environment of docker-compose.yml, which gives the publisher-bridge no Dify
\* and no n8n, nginx is never started and `make up` never ends well: whatever is done.
THEOREM ComposeNeverComesUp ==
    ASSUME Environment = ComposeEnvironment, "publisher" \in Deployed, "nginx" \in Deployed
    PROVE  Spec => [](container["nginx"] = "absent" /\ up # "done" /\ verdict = "none")
  <1>1. "publisher" \in DependsOn("nginx")
    BY EdgeDependsOnAll
  <1>2. ~SettingsLoad("publisher")
    BY DEF SettingsLoad, Required, PublisherRequires, ComposeEnvironment, CommonEnvironment
  <1>3. ~IsFit("publisher")
    BY <1>2 DEF IsFit, Bridges
  <1>4. "nginx" \in Blocked
    BY <1>1, <1>3 DEF Blocked
  <1>5. (\A s \in Blocked : container[s] = "absent")
            /\ (Blocked # {} => up # "done" /\ verdict = "none")
        => container["nginx"] = "absent" /\ up # "done" /\ verdict = "none"
    BY <1>4
  <1> QED
    BY <1>5, UnfitServicesBlock, PTL

=============================================================================
