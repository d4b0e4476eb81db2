--------------------------------- MODULE Stack ---------------------------------
(***************************************************************************)
(* The stack of docker-compose.yml: the containers, their probes and       *)
(* restarts, the settings and the start-up code of the bridges, the        *)
(* operator's `make up`, and scripts/healthcheck.sh.                       *)
(*                                                                         *)
(* A name stands for the environment variables that begin with it (CLUSTER *)
(* for CLUSTER_NAME and DOMAIN, MANAGER for OPENCLAW_MANAGER_URL, JWT for  *)
(* WORKER_JWT_SECRET); it is given when the validators accept all of them. *)
(***************************************************************************)
EXTENDS FiniteSets, Naturals

CONSTANTS
    Deployed,    \* the services of this instance
    Environment, \* Environment[b]: the names given to bridge b
    UrlIsDsn,    \* whether SUPABASE_URL is a PostgreSQL DSN
    Moved,       \* the bridges whose port in .env is not the default
    Clients,     \* services whose image has a client for the probe's command
    Slow,        \* services that may take longer to answer than healthcheck.sh waits
                 \* (5 s), and no longer than their probes do (10 s)
    Faults,      \* what may fail before the surroundings settle: services and "outage"
    Retries      \* bound on the failed probes in a row (5 in the code)

Bridges == {"intake", "publisher", "policy", "observability"}

\* Images of others, without start-up code here.
Platform == {"manager", "tuwunel", "element", "higress"}

Services == Platform \cup Bridges \cup {"nginx"}

\* The order of healthcheck.sh, which leaves nginx out.
CheckOrder ==
    [higress |-> 1, tuwunel |-> 2, element |-> 3, manager |-> 4, intake |-> 5,
     publisher |-> 6, policy |-> 7, observability |-> 8]

\* What docker-compose.yml passes to the bridges.
CommonEnvironment == {"CLUSTER", "MANAGER", "MINIO", "JWT"}

ComposeEnvironment ==
    [intake |-> CommonEnvironment \cup {"OUTLINE", "GITLAB", "SUPABASE", "DIFY", "N8N"},
     publisher |-> CommonEnvironment \cup {"OUTLINE", "GITLAB", "SUPABASE"},
     policy |-> CommonEnvironment \cup {"GITLAB", "SUPABASE", "MATRIX"},
     observability |-> CommonEnvironment \cup {"LANGFUSE", "SUPABASE", "GRAPHITI"}]

\* What the Settings of each bridge do without a default.
IntakeRequires == {"OUTLINE", "GITLAB", "SUPABASE", "MINIO", "MANAGER", "CLUSTER", "JWT"}
PublisherRequires == {"OUTLINE", "GITLAB", "DIFY", "N8N", "SUPABASE", "MINIO", "JWT"}
PolicyRequires == {"JWT"}
ObservabilityRequires == {"LANGFUSE", "JWT"}

Required ==
    [intake |-> IntakeRequires, publisher |-> PublisherRequires,
     policy |-> PolicyRequires, observability |-> ObservabilityRequires]

ASSUME DeployedAssumption == Deployed \subseteq Services
ASSUME EnvironmentAssumption ==
    \A b \in Bridges : Environment[b] \subseteq
        (UNION {Required[o] \cup ComposeEnvironment[o] : o \in Bridges})
        \cup {"SUPABASE_DB_DSN"}
ASSUME MovedAssumption ==
    Moved \subseteq Bridges /\ Clients \subseteq Services /\ Slow \subseteq Services
ASSUME FaultsAssumption == Faults \subseteq Services \cup {"outage"}
ASSUME ConstantsAssumption == UrlIsDsn \in BOOLEAN /\ Retries \in Nat \ {0}

VARIABLES
    container, \* container[s]: what Docker says of it
    health,    \* health[s]: the verdict of its probes
    streak,    \* streak[s]: its failed probes in a row
    database,  \* whether PostgreSQL takes connections
    settled,   \* from now on PostgreSQL stays up and nothing crashes
    up,        \* how far `make up` is
    verdict,   \* what healthcheck.sh says
    checked,   \* the services it has asked
    failed,    \* those of them that did not answer
    served,    \* the services that have served (history)
    begunWell  \* all was healthy and settled when healthcheck.sh began (history)

docker == <<container, health, streak, served>>
surroundings == <<database, settled>>
check == <<verdict, checked, failed, begunWell>>
vars == <<docker, surroundings, up, check>>

Init ==
    /\ container = [s \in Deployed |-> "absent"]
    /\ health = [s \in Deployed |-> "starting"]
    /\ streak = [s \in Deployed |-> 0]
    /\ database \in (IF "outage" \in Faults THEN BOOLEAN ELSE {TRUE})
    /\ settled = (Faults = {})
    /\ up = "idle"
    /\ verdict = "none"
    /\ checked = {}
    /\ failed = {}
    /\ served = {}
    /\ begunWell = FALSE

-----------------------------------------------------------------------------
(* The start-up code of the services.                                       *)

\* Mutant of DependsOn: nginx waits for the Manager only.
DependsOnManager(s) == Deployed \cap (IF s = "manager" THEN {} ELSE {"manager"})

\* depends_on, always with the condition service_healthy.
DependsOn(s) ==
    Deployed \cap (CASE s \in Bridges -> {"manager"}
                     [] s = "element" -> {"tuwunel"}
                     [] s = "nginx"   -> Platform \cup Bridges
                     [] OTHER         -> {})

\* Settings: every value that has no default is given.
SettingsLoad(b) == Required[b] \subseteq Environment[b]

\* supabase_dsn: the intake-bridge derives one from any URL, the publisher
\* passes the URL on as it is.
HasDsn(b) ==
    CASE b = "intake"    -> TRUE
      [] b = "publisher" -> UrlIsDsn
      [] OTHER           -> UrlIsDsn \/ "SUPABASE_DB_DSN" \in Environment[b]

\* The lifespans.  That of the intake-bridge leaves its pool to the first request ...
IntakeBoots == SettingsLoad("intake")

\* ... and the others connect before they serve.
PublisherBoots == SettingsLoad("publisher") /\ HasDsn("publisher") /\ database
PolicyBoots == SettingsLoad("policy") /\ HasDsn("policy") /\ database
ObservabilityBoots == SettingsLoad("observability") /\ HasDsn("observability") /\ database

\* nginx does not start when it cannot resolve an upstream.
NginxBoots == \A o \in DependsOn("nginx") : container[o] \in {"booting", "serving"}

Boots(s) ==
    CASE s = "intake"        -> IntakeBoots
      [] s = "publisher"     -> PublisherBoots
      [] s = "policy"        -> PolicyBoots
      [] s = "observability" -> ObservabilityBoots
      [] s = "nginx"         -> NginxBoots
      [] OTHER               -> TRUE

\* Only the publisher's image listens at PORT; the others have a port of their own.
Listens(s) == s \notin Moved \/ s = "publisher"

\* GET /health: that of the intake-bridge asks PostgreSQL and the Manager.
Answers(s) ==
    /\ container[s] = "serving"
    /\ Listens(s)
    /\ s = "intake" => database /\ ("manager" \in Deployed =>
                                       container["manager"] = "serving")

-----------------------------------------------------------------------------
(* Docker.                                                                  *)

\* A container is (re)started, and its probes begin anew.
Run(s) ==
    /\ container' = [container EXCEPT ![s] = "booting"]
    /\ health' = [health EXCEPT ![s] = "starting"]
    /\ streak' = [streak EXCEPT ![s] = 0]
    /\ UNCHANGED served

\* When a container exits its probes end, which counts as unhealthy.
Exit(s) ==
    /\ container' = [container EXCEPT ![s] = "exited"]
    /\ health' = [health EXCEPT ![s] = "unhealthy"]
    /\ streak' = [streak EXCEPT ![s] = 0]
    /\ UNCHANGED served

Boot(s) ==
    /\ container[s] = "booting"
    /\ \/ /\ Boots(s)
          /\ container' = [container EXCEPT ![s] = "serving"]
          /\ served' = served \cup {s}
          /\ UNCHANGED <<health, streak>>
       \/ ~Boots(s) /\ Exit(s)
    /\ UNCHANGED <<surroundings, up, check>>


\* restart: unless-stopped.
Restart(s) ==
    /\ container[s] = "exited"
    /\ Run(s)
    /\ UNCHANGED <<surroundings, up, check>>

\* Mutant of Probe: failures are counted on when the verdict is there.
ProbeCountingOn(s) ==
    /\ container[s] \in {"booting", "serving"}
    /\ streak' = [streak EXCEPT ![s] = IF Answers(s) THEN 0 ELSE @ + 1]
    /\ health' = [health EXCEPT ![s] = IF Answers(s) THEN "healthy"
                                       ELSE IF streak[s] + 1 >= Retries THEN "unhealthy"
                                       ELSE @]
    /\ UNCHANGED <<container, served, surroundings, up, check>>

\* The healthcheck of the container.  A failure in the start_period does not count.
Probe(s) ==
    /\ container[s] \in {"booting", "serving"}
    /\ \/ /\ Answers(s) /\ s \in Clients
          /\ health' = [health EXCEPT ![s] = "healthy"]
          /\ streak' = [streak EXCEPT ![s] = 0]
       \/ /\ ~Answers(s) \/ s \notin Clients
          /\ streak[s] < Retries
          /\ streak' = [streak EXCEPT ![s] = @ + 1]
          /\ health' = IF streak[s] + 1 = Retries
                       THEN [health EXCEPT ![s] = "unhealthy"] ELSE health
       \/ /\ ~Answers(s) \/ s \notin Clients
          /\ health[s] = "starting"
          /\ UNCHANGED <<health, streak>>
    /\ UNCHANGED <<container, served, surroundings, up, check>>

\* docker compose up -d starts what is not there once its dependencies are healthy ...
Start(s) ==
    /\ up = "running" /\ container[s] = "absent"
    /\ \A o \in DependsOn(s) : container[o] # "absent" /\ health[o] = "healthy"
    /\ Run(s)
    /\ UNCHANGED <<surroundings, up, check>>

\* ... and gives up when it sees that one is unhealthy.
EndUp ==
    /\ up = "running"
    /\ \/ /\ \A s \in Deployed : container[s] # "absent"
          /\ up' = "done"
       \/ /\ \E s \in Deployed : /\ container[s] = "absent"
                                 /\ \E o \in DependsOn(s) : health[o] = "unhealthy"
          /\ up' = "failed"
    /\ UNCHANGED <<docker, surroundings, check>>

\* make up; the operator repeats it when it failed.
Up ==
    /\ up \in {"idle", "failed"}
    /\ up' = "running"
    /\ UNCHANGED <<docker, surroundings, check>>

-----------------------------------------------------------------------------
(* healthcheck.sh                                                           *)

AllHealthy == \A s \in Deployed : container[s] = "serving" /\ health[s] = "healthy"

ToCheck == Deployed \ {"nginx"}

\* The service that healthcheck.sh asks next.
IsNext(s) ==
    /\ s \in ToCheck \ checked
    /\ \A o \in ToCheck \ checked : CheckOrder[s] <= CheckOrder[o]

\* What curl asks from the host, where the port of Element is that of the edge.
Reachable(s) ==
    Answers(s) /\ (s = "element" => "nginx" \in Deployed /\ Answers("nginx"))

\* Where a container can answer its probe and not curl: Higress is asked for /health
\* at its HTTP port, its probe asks for / at 9000, and curl waits for CURL_MAX_TIME.
AskedForMore(s) == s = "higress" \/ s \in Slow

\* One verification, once a stack was started.
BeginCheck ==
    /\ verdict = "none" /\ up = "done"
    /\ verdict' = "checking"
    /\ begunWell' = (settled /\ AllHealthy)
    /\ UNCHANGED <<docker, surroundings, up, checked, failed>>

\* Mutant of CheckEndpoint: ((PASSED++)) under set -e, where the first one ends
\* the script because the value before it is 0.
CheckEndpointIncrementing(s) ==
    /\ verdict = "checking" /\ IsNext(s)
    /\ checked' = checked \cup {s}
    /\ \/ /\ Reachable(s)
          /\ verdict' = IF checked = failed THEN "failed" ELSE verdict
          /\ UNCHANGED failed
       \/ /\ ~Reachable(s) \/ AskedForMore(s)
          /\ failed' = failed \cup {s} /\ UNCHANGED verdict
    /\ UNCHANGED <<docker, surroundings, up, begunWell>>

\* check_http_endpoint: a service that does not answer does not end the script.
CheckEndpoint(s) ==
    /\ verdict = "checking" /\ IsNext(s)
    /\ checked' = checked \cup {s}
    /\ \/ Reachable(s) /\ UNCHANGED failed
       \/ (~Reachable(s) \/ AskedForMore(s)) /\ failed' = failed \cup {s}
    /\ UNCHANGED <<docker, surroundings, up, verdict, begunWell>>

EndCheck ==
    /\ verdict = "checking" /\ checked = ToCheck
    /\ verdict' = IF failed = {} THEN "passed" ELSE "failed"
    /\ UNCHANGED <<docker, surroundings, up, checked, failed, begunWell>>

-----------------------------------------------------------------------------
(* The surroundings.                                                        *)

Crash(s) ==
    /\ s \in Faults /\ ~settled
    /\ container[s] \in {"booting", "serving"}
    /\ Exit(s)
    /\ UNCHANGED <<surroundings, up, check>>

Outage ==
    /\ "outage" \in Faults /\ ~settled
    /\ database' = ~database
    /\ UNCHANGED <<docker, settled, up, check>>

Settle ==
    /\ ~settled
    /\ settled' = TRUE /\ database' = TRUE
    /\ UNCHANGED <<docker, up, check>>

Automatic(s) == Boot(s) \/ Restart(s) \/ Probe(s) \/ Start(s)

Next ==
    \/ \E s \in Deployed : Automatic(s) \/ Crash(s) \/ CheckEndpoint(s)
    \/ EndUp \/ Up
    \/ BeginCheck \/ EndCheck
    \/ Outage \/ Settle

Spec == Init /\ [][Next]_vars

\* Docker restarts, probes and starts containers on its own, and the start-up
\* code of the bridges waits for nothing that has no timeout.
FairSpec ==
    /\ Spec
    /\ \A s \in Deployed : /\ WF_vars(Boot(s)) /\ WF_vars(Restart(s))
                           /\ WF_vars(Probe(s)) /\ WF_vars(Start(s))

-----------------------------------------------------------------------------

StackTypeOK ==
    /\ container \in [Deployed -> {"absent", "booting", "serving", "exited"}]
    /\ health \in [Deployed -> {"starting", "healthy", "unhealthy"}]
    /\ streak \in [Deployed -> 0..Retries]
    /\ database \in BOOLEAN /\ settled \in BOOLEAN /\ begunWell \in BOOLEAN
    /\ up \in {"idle", "running", "done", "failed"}
    /\ verdict \in {"none", "checking", "passed", "failed"}
    /\ failed \subseteq checked /\ checked \subseteq ToCheck
    /\ served \subseteq Deployed

\* nginx sends no request to a stack that never worked: when it is first started,
\* whatever crashed and was restarted meanwhile, every service has served, so the
\* settings of every bridge are complete and all but the intake-bridge have had a
\* connection to PostgreSQL.
EdgeFollowsBridges ==
    "nginx" \in Deployed /\ container["nginx"] # "absent" =>
        /\ Deployed \ {"nginx"} \subseteq served
        /\ \A b \in Deployed \cap Bridges : SettingsLoad(b) /\ HasDsn(b)

\* What healthcheck.sh says is founded.  Whatever crashes meanwhile, it ends only when
\* it has asked every service, also after one that did not answer, and fails only for
\* one that did not.  And when the stack is healthy as it begins, and nothing disturbs
\* it any more, those can only be Higress and the slow services, whose probes ask for
\* less: without them a healthy stack passes.
HealthyStacksPass ==
    /\ verdict \in {"passed", "failed"} =>
           checked = ToCheck /\ (verdict = "failed" <=> failed # {})
    /\ begunWell => \A s \in failed : AskedForMore(s)

\* `make up` starts the stack: if the surroundings settle, and the operator
\* repeats a command that failed, every service becomes healthy and stays so,
\* whatever crashed or could not be reached before.
StackComesUp ==
    <>[](settled /\ up \in {"running", "done"}) => <>[]AllHealthy

=============================================================================
