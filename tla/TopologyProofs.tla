---------------------------- MODULE TopologyProofs ----------------------------
(***************************************************************************)
(* The proof that compose keeps ReconcileSound, for every definition and   *)
(* every world of containers, from OrdersSound: startup_order lists each   *)
(* service once and after its dependencies.  Each loop over the services   *)
(* is followed by its position (StartsStay, StopsStay), and PlanStay says  *)
(* what the plan's entry for a service means on the way.  A step for one   *)
(* service does not disturb another, as their containers have different    *)
(* names (NamesApart).                                                     *)
(***************************************************************************)
EXTENDS Topology, SequenceTheorems, TLAPS

\* Two services of a topology never share a container name.
LEMMA NamesApart ==
  ASSUME NEW s \in Seq(STRING), NEW t \in Seq(STRING), ContainerName(s) = ContainerName(t)
  PROVE  s = t
<1> DEFINE k == Len(TopologyName)
<1>0. TopologyName \in Seq(STRING) /\ k \in Nat /\ Len(s) \in Nat /\ Len(t) \in Nat
  BY TopologyAssumption
<1>1. k + Len(s) = k + Len(t)
  BY <1>0, Len(TopologyName \o s) = k + Len(s), Len(TopologyName \o t) = k + Len(t) DEF ContainerName
<1>2. Len(s) = Len(t)
  BY <1>0, <1>1
<1>3. ASSUME NEW i \in 1..Len(s) PROVE s[i] = t[i]
  <2>1. (TopologyName \o s)[k + i] = s[i]
    BY <1>0
  <2>2. (TopologyName \o t)[k + i] = t[i]
    BY <1>0, <1>2
  <2> QED BY <2>1, <2>2 DEF ContainerName
<1> QED BY <1>2, <1>3, SeqEqual

\* What TopologyAssumption says of the definition and its services.
LEMMA ServicesTyped ==
  ASSUME topo \in Topologies
  PROVE  /\ Services \subseteq Range(ServiceOrder) /\ Services \subseteq Seq(STRING)
         /\ \A s \in Services : /\ ContainerName(s) \in Names /\ Service(s).hash \in Digests
                                /\ Service(s).deps \in Seq([service : Seq(STRING), condition : {"started", "healthy"}])
<1>1. /\ Services \subseteq Range(ServiceOrder)
      /\ \A s \in Services : /\ Service(s).hash \in Digests
                             /\ Service(s).deps \in Seq([service : Seq(STRING), condition : {"started", "healthy"}])
  BY TopologyAssumption, Zenon DEF Services, Service
<1>2. Range(ServiceOrder) \subseteq Seq(STRING)
  BY TopologyAssumption DEF Range
<1>3. \A s \in Services : ContainerName(s) \in Names
  BY <1>1, Zenon DEF Names
<1> QED BY <1>1, <1>2, <1>3, Zenon

\* What a stop does to the containers.
LEMMA StopEffect ==
  ASSUME TopologyTypeOK, NEW n, StopContainer(n)
  PROVE  /\ world' \in [Names -> [state : {"none", "running", "dead"}, hash : Digests \cup {0}, healthy : BOOLEAN]]
         /\ upsets' \in 0..MaxUpsets /\ (upsets' = 0 => upsets = 0)
         /\ \A m \in Names : m # n => world'[m] = world[m]
         /\ \A m : Running(m)' => Running(m)
         /\ upsets' = upsets => ~Running(n)'
<1> DEFINE Entry == [state : {"none", "running", "dead"}, hash : Digests \cup {0}, healthy : BOOLEAN]
<1>0. world \in [Names -> Entry] /\ upsets \in 0..MaxUpsets /\ MaxUpsets \in Nat
  BY TopologyAssumption DEF TopologyTypeOK
<1>1. CASE ~Running(n) /\ UNCHANGED <<world, upsets>>
  BY <1>0, <1>1 DEF Running
<1>2. CASE Running(n) /\ upsets < MaxUpsets /\ upsets' = upsets + 1 /\ UNCHANGED world
  BY <1>0, <1>2 DEF Running
<1>3. CASE Running(n) /\ UNCHANGED upsets /\ \E e \in Entry : e.state # "running" /\ world' = [world EXCEPT ![n] = e]
  <2>1. n \in Names
    BY <1>3 DEF Running
  <2>2. PICK e \in Entry : e.state # "running" /\ world' = [world EXCEPT ![n] = e]
    BY <1>3, Zenon
  <2>3. world' \in [Names -> Entry] /\ world'[n] = e /\ \A m \in Names : m # n => world'[m] = world[m]
    BY <2>1, <2>2, <1>0, Zenon
  <2>4. ~Running(n)' /\ \A m : Running(m)' => Running(m)
    BY <2>2, <2>3, Zenon DEF Running
  <2> QED BY <1>0, <1>3, <2>3, <2>4, Zenon
<1>4. \/ ~Running(n) /\ UNCHANGED <<world, upsets>>
      \/ Running(n) /\ upsets < MaxUpsets /\ upsets' = upsets + 1 /\ UNCHANGED world
      \/ Running(n) /\ UNCHANGED upsets /\ \E e \in Entry : e.state # "running" /\ world' = [world EXCEPT ![n] = e]
  <2>1. Absent \in Entry /\ Absent.state # "running"
    BY DEF Absent
  <2>2. Running(n) => [world[n] EXCEPT !.state = "dead"] \in Entry /\ [world[n] EXCEPT !.state = "dead"].state # "running"
    BY <1>0 DEF Running
  <2>3. [world EXCEPT ![n].state = "dead"] = [world EXCEPT ![n] = [world[n] EXCEPT !.state = "dead"]]
    OBVIOUS
  <2> HIDE DEF Entry
  <2> QED BY <2>1, <2>2, <2>3, Zenon DEF StopContainer
<1> QED BY <1>1, <1>2, <1>3, <1>4, Zenon

\* What a container does by itself: it dies, which is an upset, or becomes healthy.
LEMMA ChangeEffect ==
  ASSUME TopologyTypeOK, ContainerChanges
  PROVE  /\ world' \in [Names -> [state : {"none", "running", "dead"}, hash : Digests \cup {0}, healthy : BOOLEAN]]
         /\ upsets' \in 0..MaxUpsets
         /\ \A m : Running(m)' => Running(m)
         /\ upsets' = 0 => upsets = 0 /\ \A m \in Names : world'[m].state = world[m].state /\ world'[m].hash = world[m].hash
<1> DEFINE Entry == [state : {"none", "running", "dead"}, hash : Digests \cup {0}, healthy : BOOLEAN]
<1>0. world \in [Names -> Entry] /\ upsets \in 0..MaxUpsets /\ MaxUpsets \in Nat
  BY TopologyAssumption, Zenon DEF TopologyTypeOK
<1>1. PICK n \in Names :
         \/ world' = [world EXCEPT ![n] = [world[n] EXCEPT !.healthy = TRUE]] /\ UNCHANGED upsets
         \/ /\ upsets < MaxUpsets /\ upsets' = upsets + 1
            /\ world' = [world EXCEPT ![n] = [world[n] EXCEPT !.state = "dead"]]
  BY DEF ContainerChanges
<1>2. PICK e \in Entry : /\ world' = [world EXCEPT ![n] = e] /\ upsets' \in 0..MaxUpsets
                         /\ e.state = "running" => world[n].state = "running"
                         /\ upsets' = 0 => upsets = 0 /\ e.state = world[n].state /\ e.hash = world[n].hash
  <2>1. CASE world' = [world EXCEPT ![n] = [world[n] EXCEPT !.healthy = TRUE]] /\ UNCHANGED upsets
    <3> DEFINE e == [world[n] EXCEPT !.healthy = TRUE]
    <3>1. e \in Entry /\ e.state = world[n].state /\ e.hash = world[n].hash
      BY <1>0, Zenon
    <3> HIDE DEF e
    <3>2. world' = [world EXCEPT ![n] = e] /\ upsets' = upsets
      BY <2>1 DEF e
    <3> QED BY <1>0, <3>1, <3>2, Zenon
  <2>2. CASE /\ upsets < MaxUpsets /\ upsets' = upsets + 1
             /\ world' = [world EXCEPT ![n] = [world[n] EXCEPT !.state = "dead"]]
    <3> DEFINE e == [world[n] EXCEPT !.state = "dead"]
    <3>1. e \in Entry /\ e.state # "running"
      BY <1>0
    <3>2. upsets' # 0 /\ upsets' \in 0..MaxUpsets
      BY <1>0, <2>2
    <3> HIDE DEF e
    <3>3. world' = [world EXCEPT ![n] = e]
      BY <2>2 DEF e
    <3> QED BY <3>1, <3>2, <3>3, Zenon
  <2> QED BY <1>1, <2>1, <2>2, Zenon
<1> HIDE DEF Entry
<1>3. world' \in [Names -> Entry] /\ \A m \in Names : world'[m] = IF m = n THEN e ELSE world[m]
  BY <1>0, <1>2, Zenon
<1>4. \A m : Running(m)' => Running(m)
  BY <1>2, <1>3, Zenon DEF Running
<1>5. upsets' = 0 => upsets = 0 /\ \A m \in Names : world'[m].state = world[m].state /\ world'[m].hash = world[m].hash
  BY <1>2, <1>3, Zenon
<1> QED BY <1>2, <1>3, <1>4, <1>5, Zenon DEF Entry

\* The order of an accepted definition.
LEMMA OrderTyped ==
  ASSUME OrdersSound, topo \in Topologies, TopologyOk, ~Circular(topo.services), order = StartupOrder(topo.services)
  PROVE  /\ order \in Seq(Services) /\ Len(order) \in Nat /\ Range(order) = Services
         /\ \A i \in 1..Len(order) : order[i] \in Services
         /\ \A s \in Services : \E i \in 1..Len(order) : order[i] = s
         /\ \A i, j \in 1..Len(order) :
               (\E m \in 1..Len(Service(order[i]).deps) : Service(order[i]).deps[m].service = order[j]) => j < i
         /\ \A s \in Services : \A m \in 1..Len(Service(s).deps) : Service(s).deps[m].service \in Services
<1> DEFINE t == topo.services
<1>1. DependenciesKnown(t)
  BY Zenon DEF TopologyOk, DependenciesKnown, Services
<1>2. OrderSound(t)
  BY <1>1, Zenon DEF OrdersSound
<1>3. /\ order \in Seq(Services) /\ Range(order) = Services
      /\ \A i, j \in 1..Len(order) : Needs(t, order[i], order[j]) => j < i
  BY <1>2, Zenon DEF OrderSound, Services
<1>4. Len(order) \in Nat /\ DOMAIN order = 1..Len(order) /\ \A i \in 1..Len(order) : order[i] \in Services
  BY <1>3
<1>5. \A s \in Services : \E i \in 1..Len(order) : order[i] = s
  BY <1>3, <1>4, Zenon DEF Range
<1>6. ASSUME NEW i \in 1..Len(order), NEW j \in 1..Len(order),
             NEW m \in 1..Len(Service(order[i]).deps), Service(order[i]).deps[m].service = order[j]
      PROVE  j < i
  <2>1. DependsOn(t, order[i]) = [x \in 1..Len(t[order[i]].deps) |-> t[order[i]].deps[x].service]
    BY Zenon DEF DependsOn
  <2>2. m \in DOMAIN DependsOn(t, order[i]) /\ DependsOn(t, order[i])[m] = order[j]
    BY <1>6, <2>1, Zenon DEF Service
  <2>3. order[j] \in Range(DependsOn(t, order[i]))
    BY <2>2, Zenon DEF Range
  <2>4. Needs(t, order[i], order[j])
    BY <2>3, Zenon DEF Needs
  <2> QED BY <2>4, <1>3
<1>7. \A s \in Services : \A m \in 1..Len(Service(s).deps) : Service(s).deps[m].service \in Services
  BY <1>1, Zenon DEF DependenciesKnown, DependenciesOk, Services, Service
<1> QED BY <1>3, <1>4, <1>5, <1>6, <1>7, Zenon

\* The definition stays as it is, and after the first step so do plan and order.
LEMMA DefinitionStays ==
  ASSUME [TopologyNext]_topologyVars
  PROVE  /\ topo' = topo /\ command' = command
         /\ cpc # "begin" => plan' = plan /\ order' = order /\ cpc' # "begin"
         /\ cpc = "error" => cpc' = "error"
<1>1. CASE BeginUp \/ BeginDown BY <1>1 DEF BeginUp, BeginDown
<1>2. CASE StopChanged \/ TearDown BY <1>2 DEF StopChanged, TearDown
<1>3. CASE StopRemoved \/ StartService BY <1>3 DEF StopRemoved, StartService
<1>4. CASE ServiceRegisters \/ ContainerChanges BY <1>4 DEF ServiceRegisters, ContainerChanges
<1>5. CASE WaitStarted \/ WaitHealthy BY <1>5 DEF WaitStarted, WaitHealthy
<1>6. CASE UNCHANGED topologyVars BY <1>6 DEF topologyVars
<1> QED BY <1>1, <1>2, <1>3, <1>4, <1>5, <1>6, Zenon DEF TopologyNext

\* The names of a topology's services are fixed by its definition.
LEMMA ServicesStay ==
  ASSUME topo' = topo
  PROVE  /\ Services' = Services /\ TopologyOk' = TopologyOk
         /\ \A s : Service(s)' = Service(s) /\ PostStartHealthy(s)' = PostStartHealthy(s)
         /\ Circular(topo.services)' = Circular(topo.services)
         /\ StartupOrder(topo.services)' = StartupOrder(topo.services)
<1>1. Services' = Services /\ \A s : Service(s)' = Service(s)
  BY DEF Services, Service
<1>2. \A s : PostStartHealthy(s)' = PostStartHealthy(s)
  BY <1>1 DEF PostStartHealthy
<1>3. TopologyOk' = TopologyOk
  BY <1>1 DEF TopologyOk, MountsKnown
<1> QED BY <1>1, <1>2, <1>3

\* plan_reconcile has an entry for every service, and only names in it.
LEMMA PlanTyped ==
  ASSUME topo \in Topologies, NEW running, running \subseteq Names
  PROVE  /\ DOMAIN PlanFor(running) \subseteq Seq(STRING)
         /\ \A s \in Services : PlanFor(running)[s] = ActionFor(s, running)
<1> DEFINE ours == {n \in running : Begins(TopologyName, n) /\ n # TopologyName}
           extra == {ServiceOf(n) : n \in ours} \ Services
<1>1. PlanFor(running) = [s \in Services \cup extra |-> IF s \in extra THEN "Stop" ELSE ActionFor(s, running)]
  BY Zenon DEF PlanFor
<1>2. Names \subseteq Seq(STRING)
  <2>1. \A s \in Range(ServiceOrder) : ContainerName(s) \in Seq(STRING)
    <3>1. ASSUME NEW x \in Seq(STRING) PROVE TopologyName \o x \in Seq(STRING)
      BY TopologyAssumption
    <3>2. Range(ServiceOrder) \subseteq Seq(STRING)
      BY TopologyAssumption DEF Range
    <3> QED BY <3>1, <3>2, Zenon DEF ContainerName
  <2> QED BY <2>1, TopologyAssumption, Zenon DEF Names
<1>3. ASSUME NEW n \in ours PROVE ServiceOf(n) \in Seq(STRING)
  <2>1. n \in Seq(STRING) /\ Len(TopologyName) <= Len(n) /\ Len(TopologyName) \in Nat /\ Len(n) \in Nat
    BY <1>2, TopologyAssumption DEF Begins
  <2>2. Len(TopologyName) + 1 \in 1..(Len(n) + 1) /\ Len(n) \in 0..Len(n)
    BY <2>1
  <2>3. SubSeq(n, Len(TopologyName) + 1, Len(n)) \in Seq(STRING)
    BY <2>1, <2>2, SubSeqProperties
  <2> QED BY <2>3, Zenon DEF ServiceOf
<1>4. Services \subseteq Seq(STRING)
  BY ServicesTyped
<1> HIDE DEF ours
<1>5. Services \cup extra \subseteq Seq(STRING)
  BY <1>3, <1>4, Zenon
<1>6. \A s \in Services : s \notin extra
  BY Zenon
<1> HIDE DEF extra
<1> QED BY <1>1, <1>5, <1>6, Zenon

\* A service whose turn it is belongs to the definition.
LEMMA TurnIsService ==
  ASSUME OrdersSound, TopologyTypeOK, StepsInOrder, Underway, position <= Len(order)
  PROVE  /\ position \in 1..Len(order) /\ order[position] \in Services
         /\ Backwards(order)[position] = order[Len(order) - position + 1]
         /\ Len(order) - position + 1 \in 1..Len(order)
<1>1. Len(order) \in Nat /\ \A i \in 1..Len(order) : order[i] \in Services
  BY OrderTyped, Zenon DEF StepsInOrder, TopologyTypeOK
<1>2. position \in 1..Len(order) /\ Len(order) - position + 1 \in 1..Len(order)
  BY <1>1 DEF TopologyTypeOK
<1>3. Backwards(order)[position] = order[Len(order) - position + 1]
  BY <1>1, <1>2 DEF Backwards
<1> QED BY <1>1, <1>2, <1>3

\* Every step of compose keeps the types.
LEMMA TopologyTypes ==
  ASSUME OrdersSound, TopologyTypeOK, StepsInOrder, [TopologyNext]_topologyVars
  PROVE  TopologyTypeOK'
<1>0. topo' = topo /\ command' = command /\ Services' = Services
  BY DefinitionStays, ServicesStay, Zenon
<1> USE DEF TopologyTypeOK
<1>1. CASE BeginUp BY <1>1, <1>0, TopologyAssumption DEF BeginUp
<1>2. CASE BeginDown BY <1>2, <1>0, Zenon DEF BeginDown
<1>3. CASE StopChanged BY <1>3, <1>0, StopEffect, SMTT(30) DEF StopChanged
<1>4. CASE StopRemoved BY <1>4, <1>0, StopEffect, Zenon DEF StopRemoved
<1>5. CASE StartService
  <2>1. position <= Len(order) => order[position] \in Services
    BY <1>5, TurnIsService DEF StartService, Underway
  <2> QED BY <1>5, <1>0, <2>1, SMTT(30) DEF StartService
<1>6. CASE ServiceRegisters
  <2>1. pending \in Services /\ ContainerName(pending) \in Names /\ Service(pending).hash \in Digests
    BY <1>6, ServicesTyped DEF ServiceRegisters, StepsInOrder
  <2> DEFINE e == [state |-> "running", hash |-> Service(pending).hash, healthy |-> FALSE]
  <2>2. e \in [state : {"none", "running", "dead"}, hash : Digests \cup {0}, healthy : BOOLEAN]
    BY <2>1
  <2> HIDE DEF e
  <2>3. world' = world \/ world' = [world EXCEPT ![ContainerName(pending)] = e]
    BY <1>6 DEF ServiceRegisters, e
  <2>4. world' \in [Names -> [state : {"none", "running", "dead"}, hash : Digests \cup {0}, healthy : BOOLEAN]]
    BY <2>1, <2>2, <2>3, Zenon
  <2> QED BY <1>6, <1>0, <2>4, Zenon DEF ServiceRegisters
<1>7. CASE WaitStarted BY <1>7, <1>0 DEF WaitStarted
<1>8. CASE WaitHealthy BY <1>8, <1>0 DEF WaitHealthy
<1>9. CASE TearDown BY <1>9, <1>0, StopEffect, SMTT(30) DEF TearDown
<1>10. CASE ContainerChanges
  BY <1>10, <1>0, ChangeEffect, Zenon DEF ContainerChanges
<1>11. CASE UNCHANGED topologyVars BY <1>11, <1>0 DEF topologyVars
<1> QED BY <1>1, <1>2, <1>3, <1>4, <1>5, <1>6, <1>7, <1>8, <1>9, <1>10, <1>11, Zenon DEF TopologyNext

\* validate, plan_reconcile and the loops of compose follow one another in order.
LEMMA StepsStay ==
  ASSUME OrdersSound, TopologyTypeOK, StepsInOrder, [TopologyNext]_topologyVars
  PROVE  StepsInOrder'
<1>0. /\ topo' = topo /\ command' = command /\ TopologyOk' = TopologyOk
      /\ Circular(topo.services)' = Circular(topo.services)
      /\ StartupOrder(topo.services)' = StartupOrder(topo.services)
      /\ cpc # "begin" => plan' = plan /\ order' = order /\ cpc' # "begin"
      /\ cpc = "error" => cpc' = "error"
  BY DefinitionStays, ServicesStay, Zenon
<1> USE DEF StepsInOrder, Underway
<1>1. CASE BeginUp
  <2>1. DOMAIN plan' \subseteq Seq(STRING)
    BY <1>1, PlanTyped DEF BeginUp, TopologyTypeOK
  <2> QED BY <1>1, <1>0, <2>1, Zenon DEF BeginUp
<1>2. CASE BeginDown BY <1>2, <1>0 DEF BeginDown
<1>3. CASE StopChanged BY <1>3, <1>0 DEF StopChanged
<1>4. CASE StopRemoved BY <1>4, <1>0, Zenon DEF StopRemoved
<1>5. CASE StartService BY <1>5, <1>0 DEF StartService
<1>6. CASE ServiceRegisters BY <1>6, <1>0 DEF ServiceRegisters
<1>7. CASE WaitStarted BY <1>7, <1>0, Zenon DEF WaitStarted
<1>8. CASE WaitHealthy BY <1>8, <1>0 DEF WaitHealthy
<1>9. CASE TearDown BY <1>9, <1>0 DEF TearDown
<1>10. CASE ContainerChanges BY <1>10, <1>0 DEF ContainerChanges
<1>11. CASE UNCHANGED topologyVars BY <1>11, <1>0 DEF topologyVars
<1> QED BY <1>1, <1>2, <1>3, <1>4, <1>5, <1>6, <1>7, <1>8, <1>9, <1>10, <1>11, Zenon DEF TopologyNext

\* What the waits have seen is not forgotten.
LEMMA SeenGrows ==
  ASSUME seen \subseteq seen'
  PROVE  \A s, c : SeenAs(s, c) => SeenAs(s, c)'
BY Zenon DEF SeenAs

\* The loop of compose up spawns the services in the startup order.
LEMMA StartsStay ==
  ASSUME OrdersSound, TopologyTypeOK, StepsInOrder, StartsInOrder, [TopologyNext]_topologyVars
  PROVE  StartsInOrder'
<1>0. /\ \A s : PostStartHealthy(s)' = PostStartHealthy(s)
      /\ cpc # "begin" => plan' = plan /\ order' = order
      /\ position \in Nat
  BY DefinitionStays, ServicesStay, Zenon DEF TopologyTypeOK
<1>1. CASE BeginUp \/ BeginDown \/ StopChanged \/ TearDown
  BY <1>1, Zenon DEF BeginUp, BeginDown, StopChanged, TearDown, StartsInOrder, Starting
<1>2. CASE StopRemoved
  <2>1. cpc' \in {"start", "stopRemoved"} /\ position' = 1
    BY <1>2 DEF StopRemoved, StepsInOrder
  <2>2. \A i \in 1..Len(order)' : ~(i < position')
    BY <2>1, SMTT(30)
  <2> QED BY <2>1, <2>2, Zenon DEF StartsInOrder, Starting
<1>3. CASE StartService
  <2>0. seen' = seen /\ plan' = plan /\ order' = order /\ cpc = "start" /\ spawned \subseteq spawned'
    BY <1>3 DEF StartService
  <2>1. CASE cpc' = "up" /\ position > Len(order) /\ position' = position
    BY <1>0, <2>0, <2>1, Zenon DEF StartsInOrder, Starting, Changed, SeenAs
  <2>2. CASE cpc' = cpc /\ position' = position + 1 /\ ~Changed(order[position]) /\ spawned' = spawned
    <3>1. \A i \in 1..Len(order) : i < position' /\ Changed(order[i]) => i < position
      BY <1>0, <2>2
    <3> QED BY <1>0, <2>0, <2>2, <3>1, Zenon DEF StartsInOrder, Starting, Changed, SeenAs
  <2>3. CASE cpc' \in {"refused", "error"}
    BY <2>3 DEF StartsInOrder, Starting
  <2>4. CASE cpc' = "waitStarted" /\ position' = position /\ position <= Len(order) /\ order[position] \in spawned'
    BY <1>0, <2>0, <2>4, Zenon DEF StartsInOrder, Starting, Changed, SeenAs
  <2>5. Len(order) \in Nat
    BY <2>0, OrderTyped DEF StepsInOrder, Underway, TopologyTypeOK
  <2> QED BY <1>0, <1>3, <2>1, <2>2, <2>3, <2>4, <2>5, SMTT(30) DEF StartService, Changed
<1>4. CASE ServiceRegisters \/ ContainerChanges \/ UNCHANGED topologyVars
  <2>1. UNCHANGED <<cpc, plan, order, position, seen, spawned>>
    BY <1>4 DEF ServiceRegisters, ContainerChanges, topologyVars
  <2> QED BY <1>0, <2>1 DEF StartsInOrder, Starting, Changed, SeenAs
<1>5. CASE WaitStarted
  <2>s. PICK s : s = order[position]
    BY Zenon
  <2>0. plan' = plan /\ order' = order /\ cpc = "waitStarted" /\ spawned' = spawned /\ seen \subseteq seen'
    BY <1>5 DEF WaitStarted
  <2>1. \A x, c : SeenAs(x, c) => SeenAs(x, c)'
    BY <2>0, SeenGrows, Zenon
  <2>2. CASE cpc' = "error"
    BY <2>2 DEF StartsInOrder, Starting
  <2>3. CASE seen' = seen \cup {<<s, "started", world[ContainerName(s)].hash>>}
    <3>1. SeenAs(s, "started")'
      <4>1. <<s, "started", world[ContainerName(s)].hash>> \in seen'
        BY <2>3
      <4> QED BY <4>1 DEF SeenAs
    <3>2. CASE cpc' = "waitHealthy" /\ position' = position
      BY <1>0, <2>s, <2>0, <2>1, <3>1, <3>2, Zenon DEF StartsInOrder, Starting, Changed
    <3>3. CASE cpc' = "start" /\ position' = position + 1 /\ ~PostStartHealthy(s)
      <4>1. \A i \in 1..Len(order) : i < position' => i < position \/ i = position
        BY <1>0, <3>3
      <4> QED BY <1>0, <2>s, <2>0, <2>1, <3>1, <3>3, <4>1, Zenon DEF StartsInOrder, Starting, Changed
    <3> QED BY <1>5, <2>s, <2>2, <3>2, <3>3, Zenon DEF WaitStarted
  <2> QED BY <1>5, <2>s, <2>2, <2>3, Zenon DEF WaitStarted
<1>6. CASE WaitHealthy
  <2>s. PICK s : s = order[position]
    BY Zenon
  <2>0. plan' = plan /\ order' = order /\ cpc = "waitHealthy" /\ spawned' = spawned /\ seen \subseteq seen'
    BY <1>6 DEF WaitHealthy
  <2>1. \A x, c : SeenAs(x, c) => SeenAs(x, c)'
    BY <2>0, SeenGrows, Zenon
  <2>2. CASE cpc' = "error"
    BY <2>2 DEF StartsInOrder, Starting
  <2>3. CASE /\ seen' = seen \cup {<<s, "healthy", world[ContainerName(s)].hash>>}
             /\ cpc' = "start" /\ position' = position + 1
    <3>1. SeenAs(s, "healthy")' /\ SeenAs(s, "started")'
      <4>1. <<s, "healthy", world[ContainerName(s)].hash>> \in seen'
        BY <2>3
      <4>2. SeenAs(s, "healthy")'
        BY <4>1 DEF SeenAs
      <4> QED BY <4>2, <2>s, <2>0, <2>1, Zenon DEF StartsInOrder
    <3>2. \A i \in 1..Len(order) : i < position' => i < position \/ i = position
      BY <1>0, <2>3
    <3> QED BY <1>0, <2>s, <2>0, <2>1, <2>3, <3>1, <3>2, Zenon DEF StartsInOrder, Starting, Changed
  <2> QED BY <1>6, <2>s, <2>2, <2>3, Zenon DEF WaitHealthy
<1> QED BY <1>1, <1>2, <1>3, <1>4, <1>5, <1>6, Zenon DEF TopologyNext

\* A service is only spawned once the waits have seen its dependencies.
LEMMA SeenFirst ==
  ASSUME OrdersSound, TopologyTypeOK, StepsInOrder, StartsInOrder, DependenciesSeen,
         [TopologyNext]_topologyVars
  PROVE  DependenciesSeen'
<1>0. /\ Services' = Services /\ \A s : Service(s)' = Service(s)
      /\ cpc # "begin" => plan' = plan
      /\ cpc = "begin" => spawned = {}
  BY DefinitionStays, ServicesStay, Zenon DEF StepsInOrder
<1>1. seen \subseteq seen'
  BY Zenon DEF TopologyNext, topologyVars, BeginUp, BeginDown, StopChanged, StopRemoved, StartService,
         ServiceRegisters, WaitStarted, WaitHealthy, TearDown, ContainerChanges
<1>2. \A s, c : SeenAs(s, c) => SeenAs(s, c)'
  BY <1>1, SeenGrows, Zenon
<1>3. CASE spawned' = spawned
  BY <1>0, <1>2, <1>3, Zenon DEF DependenciesSeen
<1>4. CASE StartService /\ spawned' # spawned
  <2>1. /\ cpc = "start" /\ position <= Len(order) /\ spawned' = spawned \cup {order[position]}
        /\ plan' = plan
    <3>1. Len(order) \in Nat /\ position \in Nat /\ cpc = "start"
      BY <1>4, OrderTyped DEF StartService, StepsInOrder, Underway, TopologyTypeOK
    <3> QED BY <1>4, <3>1, SMTT(30) DEF StartService
  <2> DEFINE s == order[position]
  <2>2. position \in 1..Len(order) /\ s \in Services
    BY <2>1, TurnIsService DEF Underway
  <2>3. ASSUME NEW i \in 1..Len(Service(s).deps), Changed(Service(s).deps[i].service)
        PROVE  SeenAs(Service(s).deps[i].service, Service(s).deps[i].condition)
    <3> DEFINE d == Service(s).deps[i]
    <3>1. d \in [service : Seq(STRING), condition : {"started", "healthy"}]
      <4> DEFINE D == [service : Seq(STRING), condition : {"started", "healthy"}]
      <4>1. Service(s).deps \in Seq(D)
        BY <2>2, ServicesTyped, Zenon DEF TopologyTypeOK
      <4> HIDE DEF D
      <4>2. \A q \in Seq(D) : \A k \in 1..Len(q) : q[k] \in D
        OBVIOUS
      <4>3. d \in D
        BY <4>1, <4>2, Zenon
      <4> QED BY <4>3, Zenon DEF D
    <3>2. d.service \in Services
      BY <2>1, <2>2, OrderTyped, Zenon DEF StepsInOrder, Underway, TopologyTypeOK
    <3>3. PICK j \in 1..Len(order) : order[j] = d.service
      BY <2>1, <3>2, OrderTyped, Zenon DEF StepsInOrder, Underway, TopologyTypeOK
    <3>4. j < position
      BY <2>1, <2>2, <3>3, OrderTyped, Zenon DEF StepsInOrder, Underway, TopologyTypeOK
    <3>5. SeenAs(d.service, "started") /\ (PostStartHealthy(d.service) => SeenAs(d.service, "healthy"))
      BY <2>1, <2>3, <3>3, <3>4, Zenon DEF StartsInOrder, Starting
    <3>6. d.condition = "healthy" => PostStartHealthy(d.service)
      <4>1. d.condition = "healthy" => d = [service |-> d.service, condition |-> "healthy"]
        BY <3>1
      <4> QED BY <4>1, <2>2, Zenon DEF PostStartHealthy
    <3>7. d.condition \in {"started", "healthy"}
      BY <3>1, Zenon
    <3> QED BY <3>5, <3>6, <3>7, Zenon
  <2> QED BY <1>0, <1>2, <2>1, <2>3, Zenon DEF DependenciesSeen, Changed
<1>5. spawned' # spawned => StartService
  BY Zenon DEF TopologyNext, topologyVars, BeginUp, BeginDown, StopChanged, StopRemoved, StartService,
         ServiceRegisters, WaitStarted, WaitHealthy, TearDown, ContainerChanges
<1> QED BY <1>3, <1>4, <1>5, Zenon

\* What validate accepts can be built.
LEMMA BuildsStay ==
  ASSUME OrdersSound, TopologyTypeOK, StepsInOrder, ValidatedBuilds, [TopologyNext]_topologyVars
  PROVE  ValidatedBuilds'
<1>1. CASE StartService
  <2>0. cpc = "start" /\ TopologyOk /\ Len(order) \in Nat /\ position \in Nat
    BY <1>1, OrderTyped DEF StartService, StepsInOrder, Underway, TopologyTypeOK
  <2>1. ASSUME position <= Len(order) PROVE ~CannotBuild(Service(order[position]))
    <3>1. order[position] \in Services
      BY <2>0, <2>1, TurnIsService, Zenon DEF Underway
    <3>2. /\ Service(order[position]).volumes \subseteq DOMAIN topo.volumes
          /\ \A v \in DOMAIN topo.volumes : VolumeOk(topo.volumes[v])
      BY <2>0, <3>1, Zenon DEF TopologyOk, MountsKnown
    <3>3. \A v : VolumeOk(v) => /\ v.type \in {"ephemeral", "persistent"} /\ v.owner # "garbled"
                                /\ v.type = "persistent" => v.path # NoPath /\ v.absolute
      BY Zenon DEF VolumeOk
    <3> QED BY <3>2, <3>3, Zenon DEF CannotBuild
  <2> QED BY <1>1, <2>0, <2>1, SMTT(30) DEF StartService, ValidatedBuilds
<1>2. CASE ~StartService
  BY <1>2 DEF ValidatedBuilds, TopologyNext, topologyVars, BeginUp, BeginDown, StopChanged, StopRemoved,
              ServiceRegisters, WaitStarted, WaitHealthy, TearDown, ContainerChanges
<1> QED BY <1>1, <1>2, Zenon

\* The next service in reverse order joins those that have had their turn.
LEMMA TurnPassed ==
  ASSUME OrdersSound, TopologyTypeOK, StepsInOrder, Underway, position <= Len(order),
         position' = position + 1, order' = order
  PROVE  \A i \in 1..Len(order) : StopPassed(i)' => StopPassed(i) \/ i = Len(order) - position + 1
<1>1. Len(order) \in Nat /\ position \in Nat
  BY OrderTyped, Zenon DEF StepsInOrder, TopologyTypeOK
<1> QED BY <1>1 DEF StopPassed

\* The loops that stop services go through them in reverse order.
LEMMA StopsStay ==
  ASSUME OrdersSound, TopologyTypeOK, StepsInOrder, StopsInOrder, [TopologyNext]_topologyVars
  PROVE  StopsInOrder'
<1>0. /\ cpc # "begin" => plan' = plan /\ order' = order
      /\ \A n : ContainerName(n)' = ContainerName(n)
  BY DefinitionStays, Zenon DEF ContainerName
<1>1. CASE BeginUp \/ BeginDown
  <2>1. position' = 1 /\ (cpc' \in {"stop", "teardown"} => Underway' /\ TopologyOk /\ ~Circular(topo.services)
                                                       /\ order' = StartupOrder(topo.services))
    BY <1>1 DEF BeginUp, BeginDown, StepsInOrder, Underway
  <2>2. cpc' \in {"stop", "teardown"} => \A i \in 1..Len(order') : ~StopPassed(i)'
    <3>1. \A k \in Nat : \A i \in 1..k : ~(i + 1 > k + 1)
      OBVIOUS
    <3>2. cpc' \in {"stop", "teardown"} => Len(order') \in Nat
      <4>1. \A t \in Topologies : DependenciesKnown(t.services) /\ ~Circular(t.services) =>
               StartupOrder(t.services) \in Seq(DOMAIN t.services)
        BY Zenon DEF OrdersSound, OrderSound
      <4>2. TopologyOk => DependenciesKnown(topo.services)
        BY Zenon DEF TopologyOk, DependenciesKnown, Services
      <4>3. cpc' \in {"stop", "teardown"} => order' \in Seq(DOMAIN topo.services)
        BY <2>1, <4>1, <4>2, Zenon DEF TopologyTypeOK
      <4> QED BY <4>3
    <3> QED BY <2>1, <3>1, <3>2, Zenon DEF StopPassed
  <2> QED BY <2>2, Zenon DEF StopsInOrder
<1>2. CASE StopChanged
  <2>0. cpc = "stop" /\ plan' = plan /\ order' = order /\ Len(order) \in Nat /\ position \in Nat
    BY <1>2, OrderTyped, Zenon DEF StopChanged, StepsInOrder, Underway, TopologyTypeOK
  <2>1. CASE cpc' = "stopRemoved"
    BY <2>1 DEF StopsInOrder
  <2>2. CASE position <= Len(order)
    <3>0. PICK k \in 1..Len(order) : k = Len(order) - position + 1 /\ Backwards(order)[position] = order[k]
      BY <2>0, <2>2, TurnIsService, Zenon DEF Underway
    <3>n. PICK n : n = ContainerName(order[k])
      OBVIOUS
    <3>1. /\ position' = position + 1 /\ cpc' = "stop"
          /\ IF plan[order[k]] = "Restart" THEN StopContainer(n) ELSE UNCHANGED <<world, upsets, stopped>>
      BY <1>2, <2>0, <2>2, <3>0, <3>n, SMTT(30) DEF StopChanged
    <3>2. /\ \A m : Running(m)' => Running(m)
          /\ upsets' = 0 => upsets = 0 /\ (plan[order[k]] = "Restart" => ~Running(n)')
      <4>1. CASE plan[order[k]] = "Restart"
        BY <3>1, <4>1, StopEffect, Zenon
      <4>2. CASE plan[order[k]] # "Restart"
        BY <3>1, <4>2 DEF Running
      <4> QED BY <4>1, <4>2
    <3>3. \A i \in 1..Len(order) : StopPassed(i)' => StopPassed(i) \/ i = k
      BY <2>0, <2>2, <3>0, <3>1, TurnPassed, Zenon DEF Underway
    <3> QED BY <2>0, <3>n, <3>1, <3>2, <3>3, Zenon DEF StopsInOrder, ContainerName
  <2> QED BY <1>2, <2>0, <2>1, <2>2, SMTT(30) DEF StopChanged
<1>3. CASE TearDown
  <2>0. cpc = "teardown" /\ order' = order /\ Len(order) \in Nat /\ position \in Nat
    BY <1>3, OrderTyped DEF TearDown, StepsInOrder, Underway, TopologyTypeOK
  <2>1. CASE cpc' \in {"down", "error"}
    BY <2>1 DEF StopsInOrder
  <2>2. CASE position <= Len(order) /\ cpc' = "teardown"
    <3>0. PICK k \in 1..Len(order) : k = Len(order) - position + 1 /\ Backwards(order)[position] = order[k]
      BY <2>0, <2>2, TurnIsService, Zenon DEF Underway
    <3>n. PICK n : n = ContainerName(order[k])
      OBVIOUS
    <3>1. /\ position' = position + 1
          /\ StopContainer(n) /\ upsets' = upsets
      BY <1>3, <2>0, <2>2, <3>0, <3>n, Zenon DEF TearDown
    <3>2. (\A m : Running(m)' => Running(m)) /\ ~Running(n)'
      BY <3>1, StopEffect, Zenon
    <3>3. \A i \in 1..Len(order) : StopPassed(i)' => StopPassed(i) \/ i = k
      BY <2>0, <2>2, <3>0, <3>1, TurnPassed, Zenon DEF Underway
    <3> QED BY <2>0, <2>2, <3>n, <3>1, <3>2, <3>3, Zenon DEF StopsInOrder, ContainerName
  <2> QED BY <1>3, <2>0, <2>1, <2>2, SMTT(30) DEF TearDown
<1>4. CASE ContainerChanges
  <2>1. /\ UNCHANGED <<cpc, plan, order, position>>
        /\ \A m : Running(m)' => Running(m)
        /\ upsets' = 0 => upsets = 0
    BY <1>4, ChangeEffect DEF ContainerChanges
  <2> QED BY <2>1, Zenon DEF StopsInOrder, StopPassed, ContainerName
<1>5. CASE ServiceRegisters \/ StopRemoved \/ StartService \/ WaitStarted \/ WaitHealthy
  <2>1. cpc' \notin {"stop", "teardown"}
    BY <1>5, Zenon DEF ServiceRegisters, StopRemoved, StartService, WaitStarted, WaitHealthy, StepsInOrder,
                TopologyTypeOK
  <2> QED BY <2>1, Zenon DEF StopsInOrder
<1>6. CASE UNCHANGED topologyVars
  BY <1>6, Zenon DEF topologyVars, StopsInOrder, StopPassed, Running
<1> QED BY <1>1, <1>2, <1>3, <1>4, <1>5, <1>6, Zenon DEF TopologyNext

\* A container whose state and hash stay serves its service as before.
LEMMA DesiredStays ==
  ASSUME topo' = topo, NEW s,
         world'[ContainerName(s)].state = world[ContainerName(s)].state,
         world'[ContainerName(s)].hash = world[ContainerName(s)].hash
  PROVE  Running(ContainerName(s))' = Running(ContainerName(s)) /\ Desired(s)' = Desired(s)
<1>1. ContainerName(s)' = ContainerName(s) /\ Service(s)' = Service(s)
  BY ServicesStay, Zenon DEF ContainerName
<1>2. Running(ContainerName(s))' = Running(ContainerName(s))
  BY <1>1, Zenon DEF Running, ContainerName
<1> QED BY <1>1, <1>2 DEF Desired

\* A stop leaves the other services as they are.
LEMMA StopSpares ==
  ASSUME TopologyTypeOK, topo' = topo, NEW x \in Seq(STRING), StopContainer(ContainerName(x)), NEW s \in Services
  PROVE  /\ Running(ContainerName(s))' => Running(ContainerName(s))
         /\ s # x => (Desired(s)' = Desired(s))
<1>1. s \in Seq(STRING) /\ ContainerName(s) \in Names
  BY ServicesTyped DEF TopologyTypeOK
<1>2. s # x => ContainerName(s) # ContainerName(x)
  BY <1>1, NamesApart, Zenon
<1>3. Running(ContainerName(s))' => Running(ContainerName(s))
  <2>1. \A m : Running(m)' => Running(m)
    BY StopEffect, Zenon
  <2> QED BY <2>1 DEF ContainerName
<1>4. s # x => world'[ContainerName(s)] = world[ContainerName(s)]
  <2>1. PICK n : n = ContainerName(x)
    OBVIOUS
  <2>2. StopContainer(n)
    BY <2>1
  <2>3. \A m \in Names : m # n => world'[m] = world[m]
    BY <2>2, StopEffect
  <2> QED BY <1>1, <1>2, <2>1, <2>3, Zenon
<1> QED BY <1>3, <1>4, DesiredStays, Zenon

\* Each entry of the plan keeps its meaning while execute_reconcile acts on it.
LEMMA PlanStay ==
  ASSUME OrdersSound, TopologyTypeOK, StepsInOrder, StartsInOrder, StopsInOrder, PlanHolds,
         [TopologyNext]_topologyVars
  PROVE  PlanHolds'
<1>0. /\ topo' = topo /\ command' = command /\ Services' = Services
      /\ cpc # "begin" => plan' = plan /\ order' = order
      /\ cpc # "begin" => \A s : Changed(s)' = Changed(s)
  BY DefinitionStays, ServicesStay, Zenon DEF Changed
<1>1. CASE BeginUp
  <2>1. CASE cpc' = "error" \/ upsets' # 0
    BY <2>1, Zenon DEF PlanHolds, Underway
  <2>2. CASE cpc' # "error" /\ upsets' = 0
    <3>1. /\ cpc = "begin" /\ cpc' = "stop" /\ spawned' = {} /\ world' = world
          /\ plan' = PlanFor({n \in Names : Running(n)})
      BY <1>1, <2>2, SMTT(30) DEF BeginUp, StepsInOrder, TopologyTypeOK
    <3>2. ASSUME NEW s \in Services
          PROVE  /\ plan'[s] \in {"NoChange", "Start", "Restart"}
                 /\ plan'[s] = "NoChange" => Desired(s)
                 /\ plan'[s] = "Start" => ~Running(ContainerName(s))
      <4>1. plan'[s] = ActionFor(s, {n \in Names : Running(n)}) /\ ContainerName(s) \in Names
        BY <3>1, PlanTyped, ServicesTyped, Zenon DEF TopologyTypeOK
      <4> QED BY <4>1 DEF ActionFor, Desired
    <3>3. \A s : Running(ContainerName(s))' = Running(ContainerName(s)) /\ Desired(s)' = Desired(s)
      BY <1>0, <3>1, DesiredStays, Zenon
    <3> QED BY <1>0, <3>1, <3>2, <3>3, Zenon DEF PlanHolds, Changed
  <2> QED BY <2>1, <2>2, Zenon
<1>2. CASE StopChanged
  <2> SUFFICES ASSUME command = "up", upsets' = 0 PROVE PlanHolds'
    BY <1>0, Zenon DEF PlanHolds
  <2>0. cpc = "stop" /\ spawned = {} /\ spawned' = {} /\ Len(order) \in Nat /\ position \in Nat
    BY <1>2, OrderTyped DEF StopChanged, StepsInOrder, Underway, TopologyTypeOK
  <2>1. CASE position > Len(order)
    <3>1. upsets = 0 /\ world' = world
      BY <1>2, <2>1 DEF StopChanged
    <3>2. \A s : Running(ContainerName(s))' = Running(ContainerName(s)) /\ Desired(s)' = Desired(s)
      BY <1>0, <3>1, DesiredStays, Zenon
    <3>3. \A i \in 1..Len(order) : StopPassed(i)
      BY <2>0, <2>1, SMTT(30) DEF StopPassed
    <3>4. \A s \in Services : \E i \in 1..Len(order) : order[i] = s
      BY <2>0, OrderTyped DEF StepsInOrder, Underway, TopologyTypeOK
    <3>5. \A s \in Services : plan[s] = "Restart" => ~Running(ContainerName(s))
      BY <2>0, <3>1, <3>3, <3>4, Zenon DEF StopsInOrder
    <3> QED BY <1>0, <2>0, <3>1, <3>2, <3>5, Zenon DEF PlanHolds, Underway
  <2>2. CASE position <= Len(order)
    <3>1. PICK x \in Services : Backwards(order)[position] = x
      BY <2>0, <2>2, TurnIsService, OrderTyped, Zenon DEF Underway, StepsInOrder, TopologyTypeOK
    <3>2. cpc' = "stop" /\ IF plan[x] = "Restart" THEN StopContainer(ContainerName(x)) ELSE UNCHANGED <<world, upsets>>
      BY <1>2, <2>0, <2>2, <3>1, SMTT(30) DEF StopChanged
    <3>3. x \in Seq(STRING)
      BY ServicesTyped DEF TopologyTypeOK
    <3>4. /\ upsets = 0
          /\ \A s \in Services : /\ Running(ContainerName(s))' => Running(ContainerName(s))
                                 /\ plan[s] = "NoChange" => (Desired(s)' = Desired(s))
      <4>1. CASE plan[x] = "Restart"
        <5>1. upsets = 0
          BY <3>2, <4>1, StopEffect, Zenon
        <5>2. \A s \in Services : plan[s] = "NoChange" => s # x
          BY <4>1
        <5> QED BY <1>0, <3>2, <3>3, <4>1, <5>1, <5>2, StopSpares, Zenon
      <4>2. CASE plan[x] # "Restart"
        BY <1>0, <3>2, <4>2, DesiredStays, Zenon
      <4> QED BY <4>1, <4>2
    <3> QED BY <1>0, <2>0, <3>2, <3>4, Zenon DEF PlanHolds, Underway
  <2> QED BY <2>0, <2>1, <2>2, SMTT(30)
<1>3. CASE StopRemoved
  <2> SUFFICES ASSUME command = "up", upsets' = 0 PROVE PlanHolds'
    BY <1>0, Zenon DEF PlanHolds
  <2>0. cpc = "stopRemoved" /\ cpc' \in {"stopRemoved", "start"} /\ spawned = {} /\ spawned' = {}
    BY <1>3 DEF StopRemoved, StepsInOrder
  <2>1. /\ upsets = 0
        /\ \A s \in Services : /\ Running(ContainerName(s))' => Running(ContainerName(s))
                               /\ Desired(s)' = Desired(s)
    <3>1. CASE world' = world /\ upsets' = upsets
      BY <1>0, <3>1, DesiredStays, Zenon
    <3>2. CASE \E x \in DOMAIN plan \ Services : StopContainer(ContainerName(x))
      <4>1. PICK x \in DOMAIN plan \ Services : StopContainer(ContainerName(x))
        BY <3>2
      <4>2. x \in Seq(STRING)
        BY <4>1 DEF StepsInOrder
      <4>3. upsets = 0
        BY <4>1, StopEffect, Zenon
      <4> QED BY <1>0, <4>1, <4>2, <4>3, StopSpares, Zenon
    <3> QED BY <1>3, <3>1, <3>2, Zenon DEF StopRemoved
  <2> QED BY <1>0, <2>0, <2>1, Zenon DEF PlanHolds, Underway
<1>4. CASE StartService
  <2> SUFFICES ASSUME command = "up", upsets' = 0, cpc' # "error" PROVE PlanHolds'
    BY <1>0, Zenon DEF PlanHolds, Underway
  <2>0. cpc = "start" /\ upsets = 0 /\ world' = world
    BY <1>4 DEF StartService
  <2>1. \A s : Running(ContainerName(s))' = Running(ContainerName(s)) /\ Desired(s)' = Desired(s)
    BY <1>0, <2>0, DesiredStays, Zenon
  <2>2. CASE spawned' = spawned
    BY <1>0, <2>0, <2>1, <2>2, Zenon DEF PlanHolds, Underway
  <2>3. CASE spawned' # spawned
    <3>1. PICK x : x = order[position]
      BY Zenon
    <3>2. spawned' = spawned \cup {x} /\ cpc' = "waitStarted" /\ position' = position /\ Changed(x)
      BY <1>4, <2>3, <3>1, Zenon DEF StartService, Changed
    <3>3. order'[position'] = x
      BY <1>0, <2>0, <3>1, <3>2, Zenon
    <3>4. \A s \in Services : s \in spawned => Desired(s)
      BY <2>0, Zenon DEF PlanHolds, Underway
    <3>5. x \in Services /\ x \notin spawned => ~Running(ContainerName(x))
      BY <2>0, <3>2, Zenon DEF PlanHolds, Underway, Changed
    <3>6. \A s \in Services : s \in spawned' => Desired(s) \/ (~Running(ContainerName(s)) /\ s = x)
      BY <3>2, <3>4, <3>5, Zenon
    <3> QED BY <1>0, <2>0, <2>1, <3>2, <3>3, <3>6, Zenon DEF PlanHolds, Underway
  <2> QED BY <2>2, <2>3
<1>5. CASE ServiceRegisters
  <2> SUFFICES ASSUME command = "up", upsets' = 0, cpc # "error" PROVE PlanHolds'
    BY <1>0, <1>5, Zenon DEF PlanHolds, Underway, ServiceRegisters
  <2>0. /\ cpc' = cpc /\ upsets = 0 /\ spawned' = spawned /\ position' = position /\ pending # NoService
        /\ pending \in spawned /\ cpc # "begin" /\ cpc # "stop"
    BY <1>5 DEF ServiceRegisters, StepsInOrder
  <2>1. CASE world' = world
    <3>1. \A s : Running(ContainerName(s))' = Running(ContainerName(s)) /\ Desired(s)' = Desired(s)
      BY <1>0, <2>1, DesiredStays, Zenon
    <3> QED BY <1>0, <2>0, <3>1, Zenon DEF PlanHolds, Underway
  <2>2. CASE world' = [world EXCEPT ![ContainerName(pending)] =
                          [state |-> "running", hash |-> Service(pending).hash, healthy |-> FALSE]]
    <3>1. PICK x \in Services : x = pending
      BY <2>0 DEF TopologyTypeOK
    <3>2. /\ ContainerName(x) \in Names /\ x \in Seq(STRING) /\ DOMAIN world = Names
          /\ \A s \in Services : ContainerName(s) \in Names /\ s \in Seq(STRING)
      BY ServicesTyped DEF TopologyTypeOK
    <3>3. /\ world'[ContainerName(x)] = [state |-> "running", hash |-> Service(x).hash, healthy |-> FALSE]
          /\ \A n \in Names : n # ContainerName(x) => world'[n] = world[n]
      BY <2>2, <3>1, <3>2, Zenon
    <3>4. Desired(x)'
      <4>1. ContainerName(x)' = ContainerName(x) /\ Service(x)' = Service(x)
        BY <1>0, ServicesStay, Zenon DEF ContainerName
      <4> QED BY <3>2, <3>3, <4>1, SMTT(30) DEF Desired, Running
    <3>5. \A s \in Services : s # x => /\ Running(ContainerName(s))' = Running(ContainerName(s))
                                       /\ Desired(s)' = Desired(s)
      <4>1. \A s \in Services : s # x => world'[ContainerName(s)] = world[ContainerName(s)]
        BY <3>2, <3>3, NamesApart, Zenon
      <4> QED BY <1>0, <4>1, DesiredStays, Zenon
    <3>6. x \in spawned'
      BY <2>0, <3>1, Zenon
    <3> QED BY <1>0, <2>0, <3>4, <3>5, <3>6, Zenon DEF PlanHolds, Underway
  <2> QED BY <1>5, <2>1, <2>2, Zenon DEF ServiceRegisters
<1>6. CASE WaitStarted \/ WaitHealthy
  <2> SUFFICES ASSUME command = "up", upsets' = 0, cpc' # "error" PROVE PlanHolds'
    BY <1>0, Zenon DEF PlanHolds, Underway
  <2>1. PICK x : x = order[position]
    OBVIOUS
  <2>2. /\ cpc \in {"waitStarted", "waitHealthy"} /\ world' = world /\ upsets = 0 /\ spawned' = spawned
        /\ cpc # "stop" /\ cpc # "error" /\ cpc # "begin"
        /\ cpc = "waitStarted" => Running(ContainerName(x))
    BY <1>6, <2>1, Zenon DEF WaitStarted, WaitHealthy
  <2>3. \A s : Running(ContainerName(s))' = Running(ContainerName(s)) /\ Desired(s)' = Desired(s)
    BY <1>0, <2>2, DesiredStays, Zenon
  <2>4. \A s \in Services : s \in spawned => Desired(s)
    BY <2>1, <2>2, Zenon DEF PlanHolds, Underway
  <2> QED BY <1>0, <2>2, <2>3, <2>4, Zenon DEF PlanHolds, Underway
<1>7. CASE ContainerChanges
  <2> SUFFICES ASSUME command = "up", upsets' = 0 PROVE PlanHolds'
    BY <1>0, Zenon DEF PlanHolds
  <2>1. /\ UNCHANGED <<cpc, position, spawned, plan, order>> /\ upsets = 0
        /\ \A m \in Names : world'[m].state = world[m].state /\ world'[m].hash = world[m].hash
    BY <1>7, ChangeEffect, Zenon DEF ContainerChanges
  <2>2. \A s \in Services : ContainerName(s) \in Names
    BY ServicesTyped DEF TopologyTypeOK
  <2>3. \A s \in Services : Running(ContainerName(s))' = Running(ContainerName(s)) /\ Desired(s)' = Desired(s)
    BY <1>0, <2>1, <2>2, DesiredStays, Zenon
  <2> QED BY <1>0, <2>1, <2>3, Zenon DEF PlanHolds, Underway, Changed
<1>8. CASE BeginDown \/ TearDown
  <2>1. command' # "up"
    BY <1>8, <1>0 DEF BeginDown, TearDown, StepsInOrder
  <2> QED BY <2>1, Zenon DEF PlanHolds
<1>9. CASE UNCHANGED topologyVars
  <2>1. UNCHANGED <<cpc, position, spawned, plan, order, upsets, world>>
    BY <1>9 DEF topologyVars
  <2>2. \A s : Running(ContainerName(s))' = Running(ContainerName(s)) /\ Desired(s)' = Desired(s)
    BY <1>0, <2>1, DesiredStays, Zenon
  <2> QED BY <1>0, <2>1, <2>2, Zenon DEF PlanHolds, Underway, Changed
<1> QED BY <1>1, <1>2, <1>3, <1>4, <1>5, <1>6, <1>7, <1>8, <1>9, Zenon DEF TopologyNext

\* After compose down nothing starts a service again.
LEMMA DownStay ==
  ASSUME OrdersSound, TopologyTypeOK, StepsInOrder, StopsInOrder, DownStopsAll, [TopologyNext]_topologyVars
  PROVE  DownStopsAll'
<1>0. topo' = topo /\ command' = command /\ Services' = Services
  BY DefinitionStays, ServicesStay, Zenon
<1> SUFFICES ASSUME cpc' = "down" PROVE DownStopsAll'
  BY Zenon DEF DownStopsAll
<1>1. CASE TearDown
  <2>1. cpc = "teardown" /\ world' = world /\ position > Len(order)
    BY <1>1, Zenon DEF TearDown
  <2>2. /\ Len(order) \in Nat /\ position \in Nat
        /\ \A s \in Services : \E i \in 1..Len(order) : order[i] = s
    BY <2>1, OrderTyped, Zenon DEF StepsInOrder, Underway, TopologyTypeOK
  <2>3. \A i \in 1..Len(order) : StopPassed(i)
    BY <2>1, <2>2 DEF StopPassed
  <2>4. \A s \in Services : ~Running(ContainerName(s))
    BY <2>1, <2>2, <2>3, Zenon DEF StopsInOrder
  <2> QED BY <1>0, <2>1, <2>4, Zenon DEF DownStopsAll, Running, ContainerName
<1>2. CASE ~TearDown
  <2>1. command = "down" /\ cpc = "down" /\ \A n : Running(n)' => Running(n)
    <3>1. CASE ContainerChanges
      <4>1. cpc = "down"
        BY <3>1 DEF ContainerChanges
      <4> QED BY <3>1, <4>1, ChangeEffect, Zenon DEF StepsInOrder, TopologyTypeOK
    <3>2. CASE UNCHANGED topologyVars
      BY <3>2, Zenon DEF topologyVars, Running, StepsInOrder, TopologyTypeOK
    <3>3. CASE ServiceRegisters
      BY <3>3, Zenon DEF ServiceRegisters, StepsInOrder, TopologyTypeOK
    <3>4. CASE BeginUp \/ BeginDown \/ StopChanged \/ StopRemoved
      BY <3>4, Zenon DEF BeginUp, BeginDown, StopChanged, StopRemoved
    <3>5. CASE StartService \/ WaitStarted \/ WaitHealthy
      BY <3>5 DEF StartService, WaitStarted, WaitHealthy
    <3> QED BY <1>2, <3>1, <3>2, <3>3, <3>4, <3>5, Zenon DEF TopologyNext
  <2> QED BY <1>0, <2>1, Zenon DEF DownStopsAll, ContainerName
<1> QED BY <1>1, <1>2

\* What the loops keep gives what compose up promises at its end.
LEMMA UpReached ==
  ASSUME OrdersSound, TopologyTypeOK, StepsInOrder, StartsInOrder, PlanHolds
  PROVE  UpRunsDesired
<1> SUFFICES ASSUME cpc = "up", upsets = 0, NEW s \in Services PROVE Desired(s)
  BY Zenon DEF UpRunsDesired
<1>1. PICK i \in 1..Len(order) : order[i] = s
  BY OrderTyped, Zenon DEF StepsInOrder, Underway, TopologyTypeOK
<1>2. command = "up" /\ position > Len(order) /\ Len(order) \in Nat /\ position \in Nat
  BY OrderTyped DEF StepsInOrder, StartsInOrder, Underway, TopologyTypeOK
<1>3. i < position
  BY <1>2
<1>4. Changed(s) => s \in spawned
  BY <1>1, <1>3 DEF StartsInOrder, Starting
<1> QED BY <1>2, <1>4, Zenon DEF PlanHolds, Underway

\* The order validate accepts respects the dependencies.
LEMMA OrderReached ==
  ASSUME OrdersSound, TopologyTypeOK
  PROVE  StartupOrderSound
<1>1. TopologyOk => DependenciesKnown(topo.services)
  BY Zenon DEF TopologyOk, DependenciesKnown, Services
<1> QED BY <1>1, Zenon DEF StartupOrderSound, OrdersSound, TopologyTypeOK

\* What the steps keep; the other promises of ReconcileSound follow from it.
ReconcileInv ==
    /\ TopologyTypeOK /\ DependenciesSeen /\ DownStopsAll /\ ValidatedBuilds
    /\ StepsInOrder /\ StartsInOrder /\ StopsInOrder /\ PlanHolds

\* What the steps keep holds when a compose command begins.
LEMMA ReconcileInit == TopologyInit => ReconcileInv
<1> SUFFICES ASSUME TopologyInit PROVE ReconcileInv
  OBVIOUS
<1>1. /\ topo \in Topologies /\ command \in {"up", "down"} /\ cpc = "begin" /\ position = 1
      /\ upsets = 0 /\ spawned = {} /\ pending = NoService /\ DOMAIN plan = {}
  BY DEF TopologyInit, TopologyBegins
<1>2. TopologyTypeOK
  <2>1. Absent \in [state : {"none", "running", "dead"}, hash : Digests \cup {0}, healthy : BOOLEAN]
    BY DEF Absent
  <2>2. [state : {"running"}, hash : Digests, healthy : {FALSE}] \subseteq
           [state : {"none", "running", "dead"}, hash : Digests \cup {0}, healthy : BOOLEAN]
    BY Zenon
  <2>3. world \in [Names -> [state : {"none", "running", "dead"}, hash : Digests \cup {0}, healthy : BOOLEAN]]
    BY <2>1, <2>2, Zenon DEF TopologyInit
  <2> QED BY <1>1, <2>3, TopologyAssumption, SMTT(30) DEF TopologyTypeOK
<1>3. StepsInOrder
  BY <1>1 DEF StepsInOrder, Underway
<1>4. StartsInOrder /\ StopsInOrder /\ PlanHolds
  BY <1>1, Zenon DEF StartsInOrder, StopsInOrder, PlanHolds, Underway, Starting
<1>5. DownStopsAll /\ ValidatedBuilds /\ DependenciesSeen
  BY <1>1 DEF DownStopsAll, ValidatedBuilds, DependenciesSeen
<1> QED BY <1>2, <1>3, <1>4, <1>5, Zenon DEF ReconcileInv

(***************************************************************************)
(* Whatever the definition, provided that the orders startup_order         *)
(* computes put dependencies first: compose up starts a service only after *)
(* it saw what the service depends on, and ends, when no stop or listing   *)
(* failed and no container died, with every service running as defined;    *)
(* compose down ends with none running; and what validate accepts can be   *)
(* built (topology/reconcile.rs).                                          *)
(***************************************************************************)
THEOREM ReconcileCorrect ==
  ASSUME OrdersSound
  PROVE  TopologySpec => []ReconcileSound
<1>1. ReconcileInv /\ [TopologyNext]_topologyVars => ReconcileInv'
  <2> SUFFICES ASSUME ReconcileInv, [TopologyNext]_topologyVars PROVE ReconcileInv'
    OBVIOUS
  <2>1. /\ TopologyTypeOK /\ DependenciesSeen /\ DownStopsAll /\ ValidatedBuilds
        /\ StepsInOrder /\ StartsInOrder /\ StopsInOrder /\ PlanHolds
    BY Zenon DEF ReconcileInv
  <2>2. TopologyTypeOK' /\ StepsInOrder' /\ StartsInOrder' /\ StopsInOrder' /\ PlanHolds'
    BY <2>1, TopologyTypes, StepsStay, StartsStay, StopsStay, PlanStay, Zenon
  <2>3. DependenciesSeen' /\ DownStopsAll' /\ ValidatedBuilds'
    BY <2>1, SeenFirst, DownStay, BuildsStay, Zenon
  <2> QED BY <2>2, <2>3, Zenon DEF ReconcileInv
<1>2. ReconcileInv => ReconcileSound
  BY UpReached, OrderReached, Zenon DEF ReconcileInv, ReconcileSound
<1> QED BY <1>1, <1>2, ReconcileInit, PTL DEF TopologySpec
=============================================================================
