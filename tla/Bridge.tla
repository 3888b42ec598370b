------------------------------- MODULE Bridge -------------------------------
(***************************************************************************)
(* Kernel bridge networking (network/bridge.rs over netlink.rs, netns.rs   *)
(* and egress.rs) as create_internal and start use it, for containers      *)
(* that are set up and torn down concurrently, each by its own process.    *)
(*                                                                         *)
(* They share the host: one address reservation file per container, one    *)
(* MASQUERADE rule each, DNAT rules, and net.ipv4.ip_forward with its      *)
(* reference count in a file.  A setup that fails undoes what it recorded  *)
(* (SetupRollback); one that succeeded is undone by cleanup or Drop.  Any  *)
(* command may fail and any process may die at any point.                  *)
(***************************************************************************)
EXTENDS Naturals, Sequences, FiniteSets, Functions

CONSTANTS
    Containers,
    Addresses,   \* the host addresses of the subnet
    MaxFaults,   \* bound on the failures and deaths in a behaviour
    HostValue    \* net.ipv4.ip_forward before the first container

ASSUME BridgeAssumption ==
    /\ IsFiniteSet(Containers) /\ "none" \notin Addresses
    /\ MaxFaults \in Nat /\ HostValue \in {"0", "1"}

VARIABLES
    lock_dir,    \* the address file of each container, or "none"
    masquerade,  \* the number of MASQUERADE rules for the subnet
    dnat,        \* how many times each DNAT rule is there
    bridge_up,   \* whether the bridge exists
    veths,       \* the containers with a veth pair
    ip_forward,  \* the sysctl
    refs,        \* the reference count file
    isolated,    \* service_mode.enforces_strict_isolation, for each container
    npc,         \* where each container's network is
    container_ip,
    recorded,    \* what each setup has to undo
    undo,        \* the undo steps still to take
    egress,      \* the OUTPUT chain of the container: "open", "partial", "full"
    faults,      \* failures and deaths still to come, at most
    blame        \* (history) what each process is known not to undo

hostState == <<lock_dir, masquerade, dnat, bridge_up, veths, ip_forward, refs>>
own == <<npc, container_ip, recorded, undo, egress>>
bridgeVars == <<hostState, isolated, own, faults, blame>>

NoRefs == [kind |-> "none", refcount |-> 0, original |-> HostValue]
TornRefs == [NoRefs EXCEPT !.kind = "torn"]
Refs(n, v) == [kind |-> "ok", refcount |-> n, original |-> v]

Chains == {"PREROUTING", "OUTPUT"}
DnatRules == Chains \X Addresses \X Containers
Resources == {"ip", "veth", "masquerade", "forward", "port"}

BridgeTypeOK ==
    /\ lock_dir \in [Containers -> Addresses \cup {"none"}]
    /\ masquerade \in 0..Cardinality(Containers)
    /\ dnat \in [DnatRules -> Nat]
    /\ bridge_up \in BOOLEAN /\ veths \subseteq Containers
    /\ ip_forward \in {"0", "1"}
    /\ refs \in [kind : {"none", "torn", "ok"}, refcount : 0..Cardinality(Containers),
                 original : {"0", "1"}]
    /\ isolated \in [Containers -> BOOLEAN]
    /\ npc \in [Containers -> {"reserve", "link", "configure", "nat", "forward", "port",
                               "egress", "running", "bare", "undo", "closed", "refused"}]
    /\ container_ip \in [Containers -> Addresses \cup {"none"}]
    /\ recorded \in [Containers -> SUBSET Resources] /\ undo \in [Containers -> Seq(Resources)]
    /\ egress \in [Containers -> {"open", "partial", "full"}]
    /\ faults \in 0..MaxFaults
    /\ blame \in [Containers -> SUBSET {"crash", "cut", "half", "undo"}]

BridgeInit ==
    /\ lock_dir = [c \in Containers |-> "none"]
    /\ masquerade = 0 /\ dnat = [rule \in DnatRules |-> 0] /\ bridge_up = FALSE /\ veths = {}
    /\ ip_forward = HostValue /\ refs = NoRefs
    /\ isolated \in [Containers -> BOOLEAN]
    /\ npc = [c \in Containers |-> "reserve"]
    /\ container_ip = [c \in Containers |-> "none"]
    /\ recorded = [c \in Containers |-> {}]
    /\ undo = [c \in Containers |-> <<>>]
    /\ egress = [c \in Containers |-> "open"]
    /\ faults = MaxFaults
    /\ blame = [c \in Containers |-> {}]

At(c, l) == npc[c] = l
Move(c, l) == npc' = [npc EXCEPT ![c] = l]
Record(c, r) == recorded' = [recorded EXCEPT ![c] = @ \cup {r}]
Fault == faults > 0 /\ faults' = faults - 1
Blame(c, b) == blame' = [blame EXCEPT ![c] = @ \cup {b}]

\* The step that undoes r, where r was recorded.
UndoOf(c, r) == IF r \in recorded[c] THEN <<r>> ELSE <<>>

\* Undo without the reference count (CleanedUp).
ForgetsForward(c) == UndoOf(c, "port") \o UndoOf(c, "masquerade") \o UndoOf(c, "veth") \o UndoOf(c, "ip")

\* Drop for SetupRollback, and cleanup or cleanup_best_effort, as the order in
\* which they undo what was recorded.
RollbackOrder(c) ==
    UndoOf(c, "port") \o UndoOf(c, "masquerade") \o UndoOf(c, "veth") \o UndoOf(c, "forward") \o UndoOf(c, "ip")
CleanupOrder(c) ==
    UndoOf(c, "ip") \o UndoOf(c, "port") \o UndoOf(c, "masquerade") \o UndoOf(c, "veth") \o UndoOf(c, "forward")

StartUndo(c, order) == Move(c, "undo") /\ undo' = [undo EXCEPT ![c] = order]

\* A step of setup_for fails: its SetupRollback is dropped.
SetupFails(c) == Fault /\ StartUndo(c, RollbackOrder(c))

(***************************************************************************)
(* Faulty variants, for checking that the properties can fail.             *)
(***************************************************************************)
\* Ignore the address files of the others (AddressesUnique).
NothingReserved == {}

\* Restore the sysctl at every release (ForwardingWhileActive).
ReleaseRestores ==
    {[file |-> NoRefs, value |-> refs.original, ok |-> TRUE, cut |-> FALSE]}

\* Let a strict container run when its egress policy failed (StrictNetwork).
EgressIsAdvice(c) ==
    /\ At(c, "egress")
    /\ \E e \in {"open", "partial", "full"} : egress' = [egress EXCEPT ![c] = e]
    /\ Move(c, "running")
    /\ UNCHANGED <<hostState, isolated, container_ip, recorded, undo, faults, blame>>

(***************************************************************************)
(* Setup, in the order of setup_for.                                       *)
(***************************************************************************)
\* collect_reserved_ips_in_dir: the addresses in the files of the directory.
Reserved == {lock_dir[c] : c \in Containers} \ {"none"}

\* reserve_ip_in_dir, under the lock: a requested address or a random one that
\* nobody has, recorded in this container's file.
ReserveIp(c) ==
    /\ At(c, "reserve")
    /\ \/ \E a \in Addresses \ Reserved :
             /\ lock_dir' = [lock_dir EXCEPT ![c] = a]
             /\ container_ip' = [container_ip EXCEPT ![c] = a]
             /\ Record(c, "ip") /\ Move(c, "link") /\ UNCHANGED faults
       \/ /\ IF Addresses \subseteq Reserved THEN UNCHANGED faults ELSE Fault
          /\ Move(c, IF isolated[c] THEN "refused" ELSE "bare")
          /\ UNCHANGED <<lock_dir, container_ip, recorded>>
    /\ UNCHANGED <<masquerade, dnat, bridge_up, veths, ip_forward, refs, isolated, undo,
                   egress, blame>>

\* ensure_bridge_for: created once, never removed; a failure may leave it.
\* Then create_veth.
CreateLinks(c) ==
    /\ At(c, "link")
    /\ bridge_up' \in {bridge_up, TRUE}
    /\ \/ /\ bridge_up' /\ veths' = veths \cup {c}
          /\ Record(c, "veth") /\ Move(c, "configure") /\ UNCHANGED <<undo, faults>>
       \/ SetupFails(c) /\ UNCHANGED <<veths, recorded>>
    /\ UNCHANGED <<lock_dir, masquerade, dnat, ip_forward, refs, isolated, container_ip,
                   egress, blame>>

\* The veth is attached and moved, and address and route set inside the network
\* namespace of the PID, whose start time must stay the same meanwhile.
ConfigureLinks(c) ==
    /\ At(c, "configure")
    /\ \/ Move(c, "nat") /\ UNCHANGED <<undo, faults>>
       \/ SetupFails(c)
    /\ UNCHANGED <<hostState, isolated, container_ip, recorded, egress, blame>>

EnableNat(c) ==
    /\ At(c, "nat")
    /\ \/ masquerade' = masquerade + 1 /\ Record(c, "masquerade") /\ Move(c, "forward")
          /\ UNCHANGED <<undo, faults>>
       \/ SetupFails(c) /\ UNCHANGED <<masquerade, recorded>>
    /\ UNCHANGED <<lock_dir, dnat, bridge_up, veths, ip_forward, refs, isolated, container_ip,
                   egress, blame>>

\* acquire_ip_forward_ref_in_dir under its lock, as the outcomes it may have: a
\* failure or the death of the process between its writes leaves what was
\* written, and a file that was being written is cut off.
AcquireOutcomes ==
    LET found == IF refs.kind = "none" THEN Refs(0, ip_forward) ELSE refs
        value == IF found.refcount = 0 THEN "1" ELSE ip_forward
    IN IF refs.kind = "torn" THEN {[file |-> refs, value |-> ip_forward, ok |-> FALSE]}
       ELSE {[file |-> Refs(found.refcount + 1, found.original), value |-> value, ok |-> TRUE],
             [file |-> refs, value |-> ip_forward, ok |-> FALSE],
             [file |-> found, value |-> ip_forward, ok |-> FALSE],
             [file |-> found, value |-> value, ok |-> FALSE],
             [file |-> TornRefs, value |-> value, ok |-> FALSE]}
            \cup (IF refs.kind = "none"
                  THEN {[file |-> TornRefs, value |-> ip_forward, ok |-> FALSE]} ELSE {})

EnableForwarding(c) ==
    /\ At(c, "forward")
    /\ \E o \in AcquireOutcomes :
          /\ refs' = o.file /\ ip_forward' = o.value
          /\ IF o.ok THEN Record(c, "forward") /\ Move(c, "port") /\ UNCHANGED <<undo, faults, blame>>
             ELSE /\ SetupFails(c)
                  /\ IF <<o.file, o.value>> = <<refs, ip_forward>>
                     THEN UNCHANGED blame ELSE Blame(c, "half")
                  /\ UNCHANGED recorded
    /\ UNCHANGED <<lock_dir, masquerade, dnat, bridge_up, veths, isolated, container_ip, egress>>

\* port_forward_rule_args: the DNAT rule of a chain, from the container's own host
\* port to its address; iptables -A adds one, -D takes one away.
Rule(c, chain) == <<chain, container_ip[c], c>>
Added(rules) == [rule \in DnatRules |-> IF rule \in rules THEN dnat[rule] + 1 ELSE dnat[rule]]
Removed(rules) == [rule \in DnatRules |-> IF rule \in rules /\ dnat[rule] > 0 THEN dnat[rule] - 1 ELSE dnat[rule]]

\* setup_port_forward_for: PREROUTING, then OUTPUT; recorded when both are there.
ForwardPort(c) ==
    /\ At(c, "port")
    /\ \/ /\ dnat' = Added({Rule(c, "PREROUTING"), Rule(c, "OUTPUT")})
          /\ Record(c, "port") /\ Move(c, "egress") /\ UNCHANGED <<undo, faults, blame>>
       \/ /\ dnat' = Added({Rule(c, "PREROUTING")}) /\ Blame(c, "half")
          /\ SetupFails(c) /\ UNCHANGED recorded
       \/ SetupFails(c) /\ UNCHANGED <<dnat, recorded, blame>>
    /\ UNCHANGED <<lock_dir, masquerade, bridge_up, veths, ip_forward, refs, isolated,
                   container_ip, egress>>

\* apply_egress_policy: the first command makes DROP the default, the next ones
\* add what is allowed.  A failure ends a strict launch and is a warning otherwise.
ApplyEgress(c) ==
    /\ At(c, "egress")
    /\ \E e \in {"open", "partial", "full"} :
          /\ egress' = [egress EXCEPT ![c] = e]
          /\ IF e = "full" THEN UNCHANGED faults ELSE Fault
          /\ IF e = "full" \/ ~isolated[c] THEN Move(c, "running") /\ UNCHANGED undo
             ELSE StartUndo(c, CleanupOrder(c))
    /\ UNCHANGED <<hostState, isolated, container_ip, recorded, blame>>

(***************************************************************************)
(* Teardown.                                                               *)
(***************************************************************************)
\* The workload has ended: cleanup.  A later failure of the launch drops the
\* driver, which does the same.
EndNetwork(c) ==
    /\ At(c, "running") /\ StartUndo(c, CleanupOrder(c))
    /\ UNCHANGED <<hostState, isolated, container_ip, recorded, egress, faults, blame>>

\* release_ip_forward_ref_in_dir under its lock, as its outcomes.
ReleaseOutcomes ==
    LET last == refs.refcount = 1
        rest == Refs(refs.refcount - 1, refs.original)
    IN CASE refs.kind = "none" -> {[file |-> refs, value |-> ip_forward, ok |-> TRUE, cut |-> FALSE]}
         [] refs.kind = "torn" -> {[file |-> refs, value |-> ip_forward, ok |-> FALSE, cut |-> FALSE]}
         [] refs.kind = "ok" /\ refs.refcount = 0 ->
               {[file |-> NoRefs, value |-> ip_forward, ok |-> TRUE, cut |-> FALSE],
                [file |-> refs, value |-> ip_forward, ok |-> FALSE, cut |-> FALSE]}
         [] OTHER ->
               {[file |-> IF last THEN NoRefs ELSE rest,
                 value |-> IF last THEN refs.original ELSE ip_forward, ok |-> TRUE, cut |-> FALSE],
                [file |-> refs, value |-> ip_forward, ok |-> FALSE, cut |-> FALSE],
                IF last THEN [file |-> refs, value |-> refs.original, ok |-> FALSE, cut |-> TRUE]
                ELSE [file |-> TornRefs, value |-> ip_forward, ok |-> FALSE, cut |-> FALSE]}

UndoIp(c) == lock_dir' = [lock_dir EXCEPT ![c] = "none"]
             /\ UNCHANGED <<masquerade, dnat, veths, ip_forward, refs>>
UndoMasquerade(c) == masquerade' = masquerade - 1
                     /\ UNCHANGED <<lock_dir, dnat, veths, ip_forward, refs>>
UndoVeth(c) == veths' = veths \ {c}
               /\ UNCHANGED <<lock_dir, masquerade, dnat, ip_forward, refs>>

\* cleanup_port_forward: OUTPUT, then PREROUTING.
UndoPort(c) == dnat' = Removed({Rule(c, "PREROUTING"), Rule(c, "OUTPUT")})
               /\ UNCHANGED <<lock_dir, masquerade, veths, ip_forward, refs>>
UndoHalfPort(c) == dnat' \in {dnat, Removed({Rule(c, "OUTPUT")}), Removed({Rule(c, "PREROUTING")})}
                   /\ UNCHANGED <<lock_dir, masquerade, veths, ip_forward, refs>>

\* One undo step.  A failure is logged, and the next step is taken.
UndoStep(c) ==
    /\ At(c, "undo") /\ undo[c] # <<>>
    /\ LET r == Head(undo[c])
       IN \/ /\ \/ r = "ip" /\ UndoIp(c)
                \/ r = "masquerade" /\ UndoMasquerade(c)
                \/ r = "veth" /\ UndoVeth(c)
                \/ r = "port" /\ UndoPort(c)
             /\ UNCHANGED <<faults, blame>>
          \/ /\ r = "forward"
             /\ \E o \in ReleaseOutcomes :
                   /\ refs' = o.file /\ ip_forward' = o.value
                   /\ IF o.ok THEN UNCHANGED <<faults, blame>>
                      ELSE Fault /\ Blame(c, IF o.cut THEN "cut" ELSE "undo")
             /\ UNCHANGED <<lock_dir, masquerade, dnat, veths>>
          \/ /\ r # "forward" /\ Fault /\ Blame(c, "undo")
             /\ IF r = "port" THEN UndoHalfPort(c)
                ELSE UNCHANGED <<lock_dir, masquerade, dnat, veths, ip_forward, refs>>
    /\ undo' = [undo EXCEPT ![c] = Tail(@)]
    /\ UNCHANGED <<bridge_up, isolated, npc, container_ip, recorded, egress>>

\* Nothing is left to undo.  A failed setup ends a strict launch; otherwise the
\* container runs without a network.
UndoDone(c) ==
    /\ At(c, "undo") /\ undo[c] = <<>>
    /\ Move(c, IF recorded[c] # Resources /\ ~isolated[c] THEN "bare" ELSE "closed")
    /\ UNCHANGED <<hostState, isolated, container_ip, recorded, undo, egress, faults, blame>>

\* The process dies: nothing of it is undone.
NetworkCrash(c) ==
    /\ npc[c] \notin {"closed", "refused", "bare"}
    /\ Move(c, "closed") /\ Fault /\ Blame(c, "crash")
    /\ UNCHANGED <<hostState, isolated, container_ip, recorded, undo, egress>>

NetworkStep(c) ==
    \/ ReserveIp(c) \/ CreateLinks(c) \/ ConfigureLinks(c) \/ EnableNat(c)
    \/ EnableForwarding(c) \/ ForwardPort(c) \/ ApplyEgress(c) \/ EndNetwork(c)
    \/ UndoStep(c) \/ UndoDone(c) \/ NetworkCrash(c)

BridgeNext == \E c \in Containers : NetworkStep(c)

BridgeSpec == BridgeInit /\ [][BridgeNext]_bridgeVars

(***************************************************************************)
(* Properties.                                                             *)
(***************************************************************************)
Active(c) == npc[c] \in {"egress", "running"}

\* Two containers whose network is up never have the same address, however their
\* setups, rollbacks and crashes interleave: the reservation is made under a lock
\* and outlives the process that made it.
AddressesUnique ==
    \A c, d \in Containers :
        c # d /\ Active(c) /\ Active(d) => container_ip[c] # container_ip[d]

\* Forwarding is on while a bridge is active ("one container cannot disable
\* forwarding while another bridge is still active"), as long as no release was
\* interrupted between writing the sysctl and removing the count.
ForwardingWhileActive ==
    (\E c \in Containers : Active(c)) /\ (\A c \in Containers : "cut" \notin blame[c])
        => ip_forward = "1"

\* When every container is gone and no step was lost, the host is as before: no
\* address file, no veth, no rule, and ip_forward with its original value.
CleanedUp ==
    (\A c \in Containers : npc[c] \in {"closed", "refused", "bare"} /\ blame[c] = {}) =>
        /\ lock_dir = [c \in Containers |-> "none"]
        /\ veths = {} /\ masquerade = 0 /\ dnat = [rule \in DnatRules |-> 0]
        /\ ip_forward = HostValue /\ refs.kind = "none"

\* In a mode that enforces strict isolation the workload of a bridge container
\* runs only with its network up and its whole egress policy applied.
StrictNetwork ==
    \A c \in Containers : isolated[c] =>
        /\ npc[c] # "bare"
        /\ npc[c] = "running" => egress[c] = "full" /\ recorded[c] = Resources

(***************************************************************************)
(* What they rest on: an account of who still has to undo what.            *)
(***************************************************************************)
Clean(c) == blame[c] = {}

\* What setup_for has recorded at each of its steps.
SetupSteps == {"reserve", "link", "configure", "nat", "forward", "port", "egress", "running"}
DoneAt(l) ==
    CASE l = "reserve" -> {}
      [] l = "link" -> {"ip"}
      [] l \in {"configure", "nat"} -> {"ip", "veth"}
      [] l = "forward" -> {"ip", "veth", "masquerade"}
      [] l = "port" -> {"ip", "veth", "masquerade", "forward"}
      [] OTHER -> Resources
InSetup(c) == npc[c] \in SetupSteps

\* c is going to undo r; it may have left r behind when it was interrupted.
Pending(c, r) == r \in recorded[c] /\ (InSetup(c) \/ (At(c, "undo") /\ r \in Range(undo[c])))
Kept(c, r) == Pending(c, r) \/ (r \in recorded[c] /\ ~Clean(c))
PendingFor(r) == {c \in Containers : Pending(c, r)}
KeptBy(r) == {c \in Containers : Kept(c, r)}

\* Setup goes forward cleanly; an undo takes each recorded step once.
StagesInOrder ==
    \A c \in Containers :
        /\ InSetup(c) => recorded[c] = DoneAt(npc[c]) /\ Clean(c)
        /\ At(c, "undo") => /\ undo[c] \in Seq(recorded[c])
                            /\ \A i, j \in 1..Len(undo[c]) : undo[c][i] = undo[c][j] => i = j

\* A container uses the address of its file, and no two files name the same one.
AddressesOwned ==
    \A c \in Containers :
        /\ InSetup(c) /\ ~At(c, "reserve") => lock_dir[c] = container_ip[c] /\ container_ip[c] # "none"
        /\ lock_dir[c] # "none" => Kept(c, "ip")
        /\ \A d \in Containers : c # d /\ lock_dir[c] # "none" => lock_dir[c] # lock_dir[d]

\* The MASQUERADE rules are at least those that will be removed, and at most those
\* somebody has or may have left.
MasqueradesOwned ==
    /\ Cardinality(PendingFor("masquerade")) <= masquerade
    /\ masquerade <= Cardinality(KeptBy("masquerade"))

\* A DNAT rule is there once, for the address of its container.
RulesOwned ==
    \A chain \in Chains, a \in Addresses, c \in Containers : dnat[<<chain, a, c>>] > 0 =>
        dnat[<<chain, a, c>>] = 1 /\ a = container_ip[c] /\ (Pending(c, "port") \/ ~Clean(c))

\* Addresses, veths, MASQUERADE and DNAT rules that exist have somebody who is
\* going to remove them, or who was interrupted.
ResourcesOwned ==
    /\ AddressesOwned /\ MasqueradesOwned /\ RulesOwned
    /\ \A c \in veths : Kept(c, "veth")

\* The reference count covers those that still hold a reference, and forwarding is
\* on while there is one; while nobody was interrupted the count is theirs alone.
ReferencesCounted ==
    /\ refs.kind = "none" => PendingFor("forward") = {}
    /\ refs.kind = "ok" => /\ Cardinality(PendingFor("forward")) <= refs.refcount
                           /\ refs.refcount <= Cardinality(KeptBy("forward"))
    /\ \/ \E c \in Containers : "cut" \in blame[c]
       \/ PendingFor("forward") = {} /\ (refs.kind = "ok" => refs.refcount = 0)
       \/ ip_forward = "1"
    /\ (\A c \in Containers : Clean(c)) =>
          \/ refs.kind = "none" /\ ip_forward = HostValue
          \/ refs.kind = "ok" /\ refs.refcount > 0 /\ refs.original = HostValue

\* Bridge containers have addresses of their own, keep forwarding on while one is
\* up, run strict only with their egress policy, and leave the host as it was
\* (bridge.rs, egress.rs).
NetworkSound ==
    /\ BridgeTypeOK /\ AddressesUnique /\ ForwardingWhileActive /\ CleanedUp /\ StrictNetwork
    /\ StagesInOrder /\ ResourcesOwned /\ ReferencesCounted
=============================================================================
