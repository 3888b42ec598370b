------------------------------- MODULE Topology -------------------------------
(***************************************************************************)
(* nucleus compose: the dependency order of a topology                     *)
(* (src/src/topology/dag.rs), its validation (config.rs), the plan that     *)
(* compares it with what runs, and the execution of the plan               *)
(* (reconcile.rs), with compose down (src/src/main.rs).                     *)
(*                                                                         *)
(* Names are sequences of the parts between '-' characters, so that a      *)
(* container is called topology \o service.  A definition has networks,    *)
(* volumes and services; a service gives the digest of its text, its       *)
(* dependencies in order, whether it has a health check, and the networks, *)
(* broker, egress lists and volumes it uses.  Beside the topology's        *)
(* containers others run, such as those of another topology.               *)
(***************************************************************************)
EXTENDS Lists

CONSTANTS Topologies,       \* the definitions compose may be given
          TopologyName,     \* the name of the topology
          ServiceOrder,     \* every service name, in BTreeMap order
          Elsewhere,        \* names of containers other topologies run
          HostSymlinks,     \* host paths that are symbolic links
          Digests,          \* digests of service definitions
          MaxUpsets         \* containers that die or stops that fail

VARIABLES topo,             \* the definition
          world,            \* container name -> what resolve_container sees
          command,          \* "up" or "down"
          cpc, plan, position,
          order,            \* startup_order of the resolved graph
          pending,          \* the service whose nucleus create is running
          volume_dirs,      \* host directories compose made
          upsets,
          stopped,          \* names compose asked to stop
          seen,             \* <<service, "started" | "healthy", digest>> waits saw
          spawned           \* services whose create was spawned

topologyVars == <<topo, world, command, cpc, plan, position, order, pending, volume_dirs,
                  upsets, stopped, seen, spawned>>

ASSUME TopologyAssumption ==
    /\ TopologyName \in Seq(STRING) /\ ServiceOrder \in Seq(Seq(STRING))
    /\ Elsewhere \subseteq Seq(STRING) /\ MaxUpsets \in Nat
    /\ \A t \in Topologies :
          /\ DOMAIN t.services \subseteq Range(ServiceOrder)
          /\ \A s \in DOMAIN t.services :
                /\ t.services[s].hash \in Digests
                /\ t.services[s].deps \in
                      Seq([service : Seq(STRING), condition : {"started", "healthy"}])

NoPath == << >>
NoService == << >>
Absent == [state |-> "none", hash |-> 0, healthy |-> FALSE]

Services == DOMAIN topo.services
Service(s) == topo.services[s]
ContainerName(s) == TopologyName \o s
Names == {ContainerName(s) : s \in Range(ServiceOrder)} \cup Elsewhere

(***************************************************************************)
(* DependencyGraph::resolve: Kahn's algorithm.  A state of the loop has    *)
(* the queue, the order so far and how many dependencies each service      *)
(* still waits for.                                                        *)
(***************************************************************************)
DependsOn(t, s) == [i \in 1..Len(t[s].deps) |-> t[s].deps[i].service]

Occurrences(t, s, d) == Len(SelectSeq(DependsOn(t, s), LAMBDA x : x = d))

KahnStart(t) ==
    LET degree == [s \in DOMAIN t |-> Len(t[s].deps)]
    IN  [queue |-> SelectSeq(ServiceOrder, LAMBDA s : s \in DOMAIN t /\ degree[s] = 0),
         order |-> << >>, degree |-> degree]

(* A dependent is released by the first of its dependencies. *)
KahnEager(t, k) ==
    LET s == Head(k.queue)
        freed == SelectSeq(ServiceOrder,
                    LAMBDA d : /\ d \in DOMAIN t /\ Occurrences(t, d, s) > 0
                               /\ d \notin Range(k.order) \cup Range(k.queue))
    IN  [queue |-> Tail(k.queue) \o freed, order |-> Append(k.order, s),
         degree |-> k.degree]

KahnPop(t, k) ==
    LET s == Head(k.queue)
        left == [d \in DOMAIN t |-> k.degree[d] - Occurrences(t, d, s)]
        freed == SelectSeq(ServiceOrder,
                    LAMBDA d : d \in DOMAIN t /\ Occurrences(t, d, s) > 0 /\ left[d] = 0)
    IN  [queue |-> Tail(k.queue) \o freed, order |-> Append(k.order, s), degree |-> left]

StartupOrder(t) ==
    LET loop[n \in 0..Cardinality(DOMAIN t)] ==
            IF n = 0 THEN KahnStart(t)
            ELSE IF loop[n - 1].queue = << >> THEN loop[n - 1]
            ELSE KahnPop(t, loop[n - 1])
    IN  loop[Cardinality(DOMAIN t)].order

Circular(t) == Len(StartupOrder(t)) # Cardinality(DOMAIN t)

(* What validate asks of a volume. *)
VolumeOk(v) ==
    /\ \/ v.type = "persistent" /\ v.path # NoPath /\ v.absolute
       \/ v.type = "ephemeral" /\ v.path = NoPath
    /\ v.owner \in {"none", "ids"}

DependenciesOk(t, s) ==
    \A i \in 1..Len(t[s].deps) :
        LET d == t[s].deps[i]
        IN  d.service \in DOMAIN t /\ (d.condition = "healthy" => t[d.service].health)

(* A broker needs a bridge network and excludes raw egress lists. *)
BrokerFits(svc) ==
    svc.broker => svc.networks # {} /\ ~svc.egress

(* A volume nobody declared is not noticed. *)
MountsUnchecked(svc) == TRUE

MountsKnown(svc) == svc.volumes \subseteq DOMAIN topo.volumes

(* TopologyConfig::validate. *)
TopologyOk ==
    /\ Services # {}
    /\ \A v \in DOMAIN topo.volumes : VolumeOk(topo.volumes[v])
    /\ \A s \in Services :
          /\ DependenciesOk(topo.services, s)
          /\ Service(s).networks \subseteq topo.networks
          /\ BrokerFits(Service(s))
          /\ MountsKnown(Service(s))

(* What build_service_run_command cannot turn into arguments. *)
CannotBuild(svc) ==
    \E v \in svc.volumes :
        \/ v \notin DOMAIN topo.volumes
        \/ /\ topo.volumes[v].type \notin {"ephemeral", "persistent"}
        \/ /\ topo.volumes[v].type = "persistent"
           /\ topo.volumes[v].path = NoPath \/ ~topo.volumes[v].absolute
        \/ topo.volumes[v].owner = "garbled"
------------------------------------------------------------------------------
TopologyTypeOK ==
    /\ topo \in Topologies /\ world \in [Names -> [state : {"none", "running", "dead"},
                                                   hash : Digests \cup {0}, healthy : BOOLEAN]]
    /\ command \in {"up", "down"} /\ position \in Nat \ {0}
    /\ cpc \in {"begin", "stop", "stopRemoved", "start", "waitStarted",
                "waitHealthy", "teardown", "up", "down", "error", "refused"}
    /\ upsets \in 0..MaxUpsets /\ spawned \subseteq Services

TopologyBegins ==
    /\ cpc = "begin" /\ plan = << >> /\ position = 1 /\ order = << >> /\ pending = NoService
    /\ volume_dirs = {} /\ upsets = 0 /\ stopped = {} /\ seen = {} /\ spawned = {}
TopologyInit ==
    /\ topo \in Topologies /\ command \in {"up", "down"}
    /\ world \in [Names -> {Absent} \cup [state : {"running"}, hash : Digests, healthy : {FALSE}]]
    /\ \A n \in Elsewhere : world[n] # Absent
    /\ TopologyBegins

Running(n) == n \in Names /\ world[n].state = "running"

(* The service a running container's name stands for in this topology. *)
ServiceOf(n) == SubSeq(n, Len(TopologyName) + 1, Len(n))

(* plan_reconcile: what is to be done with a service, given what runs. *)
ActionFor(s, running) ==
    LET n == ContainerName(s)
    IN  CASE n \in running /\ world[n].hash = Service(s).hash -> "NoChange"
          [] n \in running /\ world[n].hash # Service(s).hash -> "Restart"
          [] OTHER -> "Start"

PlanFor(running) ==
    LET ours == {n \in running : Begins(TopologyName, n) /\ n # TopologyName}
        extra == {ServiceOf(n) : n \in ours} \ Services
    IN  [s \in Services \cup extra |->
            IF s \in extra THEN "Stop" ELSE ActionFor(s, running)]

(* A listing that fails counts as nothing running. *)
BeginUp ==
    /\ cpc = "begin" /\ command = "up"
    /\ IF ~TopologyOk \/ Circular(topo.services)
       THEN cpc' = "error" /\ UNCHANGED <<plan, order, upsets>>
       ELSE /\ cpc' = "stop" /\ order' = StartupOrder(topo.services)
            /\ \/ plan' = PlanFor({n \in Names : Running(n)}) /\ UNCHANGED upsets
               \/ /\ upsets < MaxUpsets /\ upsets' = upsets + 1
                  /\ plan' = PlanFor({})
    /\ UNCHANGED <<topo, world, command, position, pending, volume_dirs, stopped, seen, spawned>>

(* ContainerLifecycle::stop of a container, which may fail. *)
StopContainer(n) ==
    /\ stopped' = stopped \cup {n}
    /\ \/ /\ Running(n)
          /\ world' = [world EXCEPT ![n] = Absent] /\ UNCHANGED upsets
       \/ /\ Running(n)
          /\ world' = [world EXCEPT ![n].state = "dead"] /\ UNCHANGED upsets
       \/ ~Running(n) /\ UNCHANGED <<world, upsets>>
       \/ /\ Running(n) /\ upsets < MaxUpsets
          /\ upsets' = upsets + 1 /\ UNCHANGED world

(* Only services that left the definition are stopped. *)
StopOnlyRemoved ==
    /\ cpc = "stop" /\ cpc' = "stopRemoved" /\ position' = 1
    /\ UNCHANGED <<topo, order, world, command, plan, pending, volume_dirs, upsets, stopped, seen, spawned>>

(* Phase 1: changed services, in reverse dependency order; a stop that     *)
(* fails is logged and passed over.                                        *)
StopChanged ==
    /\ cpc = "stop"
    /\ IF position > Len(order)
       THEN /\ cpc' = "stopRemoved" /\ position' = 1
            /\ UNCHANGED <<world, upsets, stopped>>
       ELSE LET s == Backwards(order)[position]
            IN  /\ position' = position + 1 /\ UNCHANGED cpc
                /\ IF plan[s] = "Restart" THEN StopContainer(ContainerName(s))
                   ELSE UNCHANGED <<world, upsets, stopped>>
    /\ UNCHANGED <<topo, order, command, plan, pending, volume_dirs, seen, spawned>>

(* Phase 1b: services that left the definition. *)
StopRemoved ==
    /\ cpc = "stopRemoved"
    /\ LET left == {s \in DOMAIN plan \ Services : ContainerName(s) \notin stopped}
       IN  IF left = {}
           THEN cpc' = "start" /\ UNCHANGED <<world, upsets, stopped>>
           ELSE /\ StopContainer(ContainerName(CHOOSE s \in left : TRUE))
                /\ UNCHANGED cpc
    /\ UNCHANGED <<topo, order, command, plan, position, pending, volume_dirs, seen, spawned>>

(* create_persistent_volume_dir_all_nofollow: every component is made and   *)
(* opened without following links, so a link ends the walk.                *)
MadeDirs(path) ==
    {p \in Beginnings(path) : \A q \in Beginnings(p) : q \notin HostSymlinks}

(* The persistent volumes are made first; then nucleus create is spawned,  *)
(* which may fail, as may the secrets file.                                *)
StartService ==
    /\ cpc = "start"
    /\ IF position > Len(order)
       THEN cpc' = "up" /\ UNCHANGED <<position, pending, spawned, volume_dirs>>
       ELSE LET s == order[position]
            IN  IF plan[s] \notin {"Start", "Restart"}
                THEN /\ position' = position + 1
                     /\ UNCHANGED <<cpc, pending, spawned, volume_dirs>>
                ELSE IF CannotBuild(Service(s))
                THEN cpc' = "refused" /\ UNCHANGED <<position, pending, spawned, volume_dirs>>
                ELSE LET paths == {topo.volumes[v].path : v \in Service(s).volumes} IN
                     /\ volume_dirs' = volume_dirs \cup UNION {MadeDirs(p) : p \in paths}
                     /\ UNCHANGED position
                     /\ \/ cpc' = "error" /\ UNCHANGED <<pending, spawned>>
                        \/ /\ \A p \in paths : MadeDirs(p) = Beginnings(p)
                           /\ cpc' = "waitStarted" /\ pending' = s
                           /\ spawned' = spawned \cup {s}
    /\ UNCHANGED <<topo, order, world, command, plan, upsets, stopped, seen>>

(* The spawned create registers a running container, or fails: always when *)
(* a running container holds the name.                                     *)
ServiceRegisters ==
    /\ pending # NoService
    /\ \/ /\ ~Running(ContainerName(pending))
          /\ world' = [world EXCEPT ![ContainerName(pending)] =
                          [state |-> "running", hash |-> Service(pending).hash, healthy |-> FALSE]]
       \/ UNCHANGED world
    /\ pending' = NoService
    /\ UNCHANGED <<topo, order, command, cpc, plan, position, volume_dirs, upsets, stopped, seen, spawned>>

(* post_start_wait never asks for health. *)
StartedIsEnough(s) == FALSE

PostStartHealthy(s) ==
    \E d \in Services : \E i \in 1..Len(Service(d).deps) :
        Service(d).deps[i] = [service |-> s, condition |-> "healthy"]

WaitStarted ==
    /\ cpc = "waitStarted"
    /\ LET s == order[position]
           n == ContainerName(s)
       IN  \/ /\ Running(n)
              /\ seen' = seen \cup {<<s, "started", world[n].hash>>}
              /\ IF PostStartHealthy(s) THEN cpc' = "waitHealthy" /\ UNCHANGED position
                 ELSE cpc' = "start" /\ position' = position + 1
           \/ ~Running(n) /\ cpc' = "error" /\ UNCHANGED <<seen, position>>
    /\ UNCHANGED <<topo, order, world, command, plan, pending, volume_dirs, upsets, stopped, spawned>>

(* It ends at the time-out, when the container is gone, or when the check   *)
(* cannot be run.                                                          *)
WaitHealthy ==
    /\ cpc = "waitHealthy"
    /\ LET s == order[position]
           n == ContainerName(s)
       IN  \/ /\ Running(n) /\ world[n].healthy
              /\ seen' = seen \cup {<<s, "healthy", world[n].hash>>}
              /\ cpc' = "start" /\ position' = position + 1
           \/ cpc' = "error" /\ UNCHANGED <<seen, position>>
    /\ UNCHANGED <<topo, order, world, command, plan, pending, volume_dirs, upsets, stopped, spawned>>

BeginDown ==
    /\ cpc = "begin" /\ command = "down"
    /\ IF ~TopologyOk \/ Circular(topo.services)
       THEN cpc' = "error" /\ UNCHANGED order
       ELSE cpc' = "teardown" /\ order' = StartupOrder(topo.services)
    /\ UNCHANGED <<topo, world, command, plan, position, pending, volume_dirs, upsets,
                   stopped, seen, spawned>>

(* A stop that fails is passed over. *)
TearDownOn ==
    /\ cpc = "teardown"
    /\ IF position > Len(order)
       THEN cpc' = "down" /\ UNCHANGED <<position, world, upsets, stopped>>
       ELSE /\ StopContainer(ContainerName(Backwards(order)[position]))
            /\ position' = position + 1 /\ UNCHANGED cpc
    /\ UNCHANGED <<topo, order, command, plan, pending, volume_dirs, seen, spawned>>

(* The first stop that fails ends compose down. *)
TearDown ==
    /\ cpc = "teardown"
    /\ IF position > Len(order)
       THEN cpc' = "down" /\ UNCHANGED <<position, world, upsets, stopped>>
       ELSE LET n == ContainerName(Backwards(order)[position])
            IN  /\ StopContainer(n)
                /\ position' = position + 1
                /\ cpc' = IF upsets' # upsets THEN "error" ELSE cpc
    /\ UNCHANGED <<topo, order, command, plan, pending, volume_dirs, seen, spawned>>

(* Containers become healthy, or die, by themselves. *)
ContainerChanges ==
    /\ cpc \notin {"begin", "up", "down", "error", "refused"}
    /\ \E n \in Names :
          /\ Running(n) /\ ServiceOf(n) \in Services
          /\ \/ /\ ~world[n].healthy /\ Service(ServiceOf(n)).health
                /\ world' = [world EXCEPT ![n].healthy = TRUE] /\ UNCHANGED upsets
             \/ /\ upsets < MaxUpsets /\ upsets' = upsets + 1
                /\ world' = [world EXCEPT ![n].state = "dead"]
    /\ UNCHANGED <<topo, order, command, cpc, plan, position, pending, volume_dirs, stopped, seen, spawned>>

TopologyNext == \/ BeginUp \/ StopChanged \/ StopRemoved \/ StartService
                \/ ServiceRegisters \/ WaitStarted \/ WaitHealthy
                \/ BeginDown \/ TearDown \/ ContainerChanges

TopologySpec == TopologyInit /\ [][TopologyNext]_topologyVars
------------------------------------------------------------------------------
(* s needs d, directly or through others. *)
Needs(t, s, d) ==
    LET reach[k \in 0..Cardinality(DOMAIN t)] ==
            IF k = 0 THEN Range(DependsOn(t, s))
            ELSE reach[k - 1] \cup UNION {Range(DependsOn(t, x)) :
                                            x \in reach[k - 1] \cap DOMAIN t}
    IN  d \in Range(DependsOn(t, s)) \cup reach[Cardinality(DOMAIN t)]

(***************************************************************************)
(* DependencyGraph::resolve finds an order exactly when no service needs   *)
(* itself, and the order then has every service once and after everything  *)
(* it needs.                                                               *)
(***************************************************************************)
OrderSound(t) ==
    /\ Circular(t) <=> \E s \in DOMAIN t : Needs(t, s, s)
    /\ ~Circular(t) =>
          LET o == StartupOrder(t)
          IN  /\ o \in Seq(DOMAIN t) /\ Range(o) = DOMAIN t
              /\ \A i, j \in 1..Len(o) : Needs(t, o[i], o[j]) => j < i
DependenciesKnown(t) == \A s \in DOMAIN t : DependenciesOk(t, s)
OrdersSound == \A t \in Topologies : DependenciesKnown(t.services) => OrderSound(t.services)
StartupOrderSound ==
    cpc = "begin" /\ TopologyOk => OrderSound(topo.services)

SeenAs(s, condition) == \E w \in seen : w[1] = s /\ w[2] = condition

(***************************************************************************)
(* execute_reconcile starts a service only after it has seen every one of  *)
(* its dependencies that it started itself in the condition the dependency *)
(* asks for: running, or healthy.                                          *)
(***************************************************************************)
DependenciesSeen ==
    \A s \in spawned : \A i \in 1..Len(Service(s).deps) :
        LET d == Service(s).deps[i]
        IN  plan[d.service] \in {"Start", "Restart"} =>
                SeenAs(d.service, d.condition)

Desired(s) ==
    Running(ContainerName(s)) /\ world[ContainerName(s)].hash = Service(s).hash

(***************************************************************************)
(* compose up that ends well, no stop or listing having failed and no      *)
(* container having died meanwhile, has every service running with the     *)
(* definition's digest: none is an old container taken for the new one.    *)
(***************************************************************************)
UpRunsDesired ==
    cpc = "up" /\ upsets = 0 => \A s \in Services : Desired(s)

(***************************************************************************)
(* validate is complete: compose up never refuses a service's definition   *)
(* (an undeclared volume, a type or an owner it cannot use) in the middle  *)
(* of the execution, with earlier services already replaced.               *)
(***************************************************************************)
ValidatedBuilds == cpc # "refused"

(***************************************************************************)
(* compose down that reports the topology down has stopped every service   *)
(* of the definition.                                                      *)
(***************************************************************************)
DownStopsAll == cpc = "down" => \A s \in Services : ~Running(ContainerName(s))

(***************************************************************************)
(* The inductive invariant behind these properties: what the validation,   *)
(* the plan and the steps so far have established for the steps that       *)
(* follow.  What is said of running containers holds until an upset.       *)
(***************************************************************************)
Underway == cpc \notin {"begin", "error"}
Starting == cpc \in {"start", "waitStarted", "waitHealthy", "up"}
Changed(s) == plan[s] \in {"Start", "Restart"}

\* In reverse order, the i-th service has had its turn.
StopPassed(i) == i + position > Len(order) + 1

StepsInOrder ==
    /\ Underway => /\ TopologyOk /\ ~Circular(topo.services)
                   /\ order = StartupOrder(topo.services)
    /\ command = "up" => cpc \notin {"teardown", "down"} /\ DOMAIN plan \subseteq Seq(STRING)
    /\ command = "down" => cpc \in {"begin", "teardown", "down", "error"} /\ pending = NoService
    /\ cpc \in {"begin", "stop", "stopRemoved"} => pending = NoService /\ spawned = {}
    /\ cpc \in {"begin", "stopRemoved"} => position = 1
    /\ pending # NoService => pending \in spawned

StartsInOrder ==
    /\ Starting => \A i \in 1..Len(order) : i < position /\ Changed(order[i]) =>
          /\ order[i] \in spawned /\ SeenAs(order[i], "started")
          /\ PostStartHealthy(order[i]) => SeenAs(order[i], "healthy")
    /\ cpc \in {"waitStarted", "waitHealthy"} => position <= Len(order) /\ order[position] \in spawned
    /\ cpc = "waitHealthy" => SeenAs(order[position], "started")
    /\ cpc = "up" => position > Len(order)

StopsInOrder ==
    /\ cpc = "stop" /\ upsets = 0 => \A i \in 1..Len(order) :
          StopPassed(i) /\ plan[order[i]] = "Restart" => ~Running(ContainerName(order[i]))
    /\ cpc = "teardown" => \A i \in 1..Len(order) :
          StopPassed(i) => ~Running(ContainerName(order[i]))

PlanHolds ==
    Underway /\ command = "up" /\ upsets = 0 => \A s \in Services :
        /\ plan[s] = "NoChange" \/ Changed(s)
        /\ plan[s] = "NoChange" => Desired(s)
        /\ plan[s] = "Start" /\ s \notin spawned => ~Running(ContainerName(s))
        /\ plan[s] = "Restart" /\ s \notin spawned /\ cpc # "stop" => ~Running(ContainerName(s))
        /\ s \in spawned => \/ Desired(s)
                            \/ ~Running(ContainerName(s)) /\ cpc = "waitStarted" /\ order[position] = s

(***************************************************************************)
(* Compose starts services in dependency order and sees what they depend   *)
(* on, ends with what the definition says, and builds what it validated    *)
(* (topology/); with what makes this inductive.                            *)
(***************************************************************************)
ReconcileSound ==
    /\ TopologyTypeOK /\ StartupOrderSound /\ DependenciesSeen
    /\ UpRunsDesired /\ DownStopsAll /\ ValidatedBuilds
    /\ StepsInOrder /\ StartsInOrder /\ StopsInOrder /\ PlanHolds
==============================================================================
