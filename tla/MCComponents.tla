---------------------------- MODULE MCComponents ----------------------------
(***************************************************************************)
(* The components of the runtime around the launch protocol and the        *)
(* registry, instantiated for TLC.  They share no state with each other in *)
(* these instances, so a behaviour moves one of them, `part', and leaves   *)
(* the others where they began: the states to explore add up instead of    *)
(* multiplying.  What a supervisor runs beside the container is in         *)
(* MCSupervision.                                                          *)
(***************************************************************************)
EXTENDS GVisorLaunch, SeccompFilter, UserMap, Devices, Workspace, Topology, Checkpoint,
        Image, StateFile, TLC

CONSTANT Parts   \* the components that this run moves

VARIABLE part    \* the one that moves in this behaviour

---------------------------------------------------------------------------
(* Launch requests: an agent, a strict agent and a service, natively and   *)
(* under gVisor, that differ in one or two options.                        *)

P(s) == <<"/">> \o s

AgentRun ==
    [mode |-> "agent", runtime |-> "native", trust |-> "trusted", net |-> "none",
     nat |-> "auto", egress |-> "none", rootfs |-> "none", limits |-> {},
     seccomp |-> "builtin", extra |-> "none", caps |-> "none", landlock |-> "none",
     keep |-> {}, policy_at |-> <<"srv", "policy">>, workspace |-> <<>>,
     workspace_mode |-> "bind-rw", home |-> P(<<"home", "agent">>),
     workdir |-> P(<<"workspace">>), volumes |-> {}, providers |-> {}, secrets |-> {},
     probe |-> "none", context |-> "none", lockdown |-> "none", userns |-> "none",
     uidmap |-> {}, user |-> "none", uid |-> 0, env |-> {}, opts |-> {}]

StrictAgentRun == [AgentRun EXCEPT !.opts = {"strict-agent"}]
ServiceRun == [AgentRun EXCEPT !.mode = "production", !.rootfs = "store",
                               !.limits = {"memory", "cpu"}, !.opts = {"attest"}]
SandboxedRun == [AgentRun EXCEPT !.runtime = "gvisor", !.workspace = P(<<"home", "me", "src">>)]
SandboxedService == [ServiceRun EXCEPT !.runtime = "gvisor"]
BrokeredRun == [AgentRun EXCEPT !.net = "bridge", !.opts = {"broker"}]

VolumeAt(d, src) == [dest |-> d, source |-> src, ro |-> FALSE]
HostData == P(<<"srv", "data">>)
MountedRun(r) == [r EXCEPT !.volumes = {VolumeAt(P(<<"run">>), HostData)},
                           !.secrets = {P(<<"etc", "key">>)}]
SomeVolumes ==
    {VolumeAt(P(<<"data">>), HostData), VolumeAt(P(<<"etc">>), <<"tmpfs">>),
     VolumeAt(P(<<"run">>), HostData), VolumeAt(P(<<"..", "etc">>), <<"tmpfs">>),
     VolumeAt(P(<<"data">>), P(<<"srv", "..", "etc">>)),
     VolumeAt(P(<<"data">>), P(<<"srv", "link">>)), VolumeAt(P(<<"workspace">>), HostData)}
Provider == [source |-> P(<<"home", "me", ".cfg">>), dest |-> <<".cfg">>, ro |-> TRUE]

Fields ==
    {<<"mode", "strict-agent">>, <<"runtime", "gvisor">>, <<"trust", "untrusted">>, <<"net", "host">>,
     <<"net", "gvisor-host">>, <<"net", "bridge">>, <<"nat", "kernel">>, <<"nat", "userspace">>, <<"egress", "hosts">>,
     <<"rootfs", "elsewhere">>, <<"limits", {"no-pids"}>>, <<"seccomp", "profile">>,
     <<"seccomp", "pinned">>, <<"seccomp", "trace">>, <<"extra", "opt-in">>, <<"extra", "critical">>,
     <<"caps", "plain">>, <<"caps", "pinned">>, <<"keep", {"NET_BIND_SERVICE"}>>,
     <<"keep", {"SYS_ADMIN"}>>, <<"landlock", "plain">>, <<"landlock", "pinned">>,
     <<"workspace_mode", "copy-in-out">>, <<"workspace_mode", "bind-ro">>,
     <<"home", P(<<"workspace", "me">>)>>, <<"probe", "exec">>, <<"probe", "two">>,
     <<"context", "copy">>, <<"context", "bind">>, <<"lockdown", "integrity">>,
     <<"userns", "rootless">>, <<"userns", "keep-id">>, <<"user", "name">>, <<"uid", 1>>,
     <<"env", {"HOME", "TOKEN"}>>, <<"env", {"PROXY"}>>, <<"workspace", P(<<"home", "me", "src">>)>>,
     <<"secrets", {P(<<"etc", "key">>)}>>, <<"providers", {Provider}>>,
     <<"policy_at", <<"nix", "policy">>>>}
    \cup {<<"volumes", {v}>> : v \in SomeVolumes}
Switches ==
    {"allow-degraded", "allow-chroot", "allow-host", "broker", "dns", "gpu", "overlay", "attest",
     "workspace-exec", "verify-context", "seccomp-log", "health", "log-denied", "detach",
     "secrets-fd", "groups", "group", "toolchain", "bundle", "proc-rw"}

Deviations == Fields \cup {<<"opts", o>> : o \in Switches}
With(r, d) == IF d[1] = "opts" THEN [r EXCEPT !.opts = @ \cup {d[2]}] ELSE [r EXCEPT ![d[1]] = d[2]]

\* The options that others depend on, and none.
Pivotal ==
    {<<"runtime", "gvisor">>, <<"trust", "untrusted">>, <<"net", "bridge">>, <<"net", "gvisor-host">>,
     <<"nat", "kernel">>, <<"context", "copy">>, <<"userns", "rootless">>, <<"userns", "keep-id">>,
     <<"secrets", {P(<<"etc", "key">>)}>>, <<"env", {"HOME", "TOKEN"}>>,
     <<"volumes", {VolumeAt(P(<<"etc">>), <<"tmpfs">>)}>>, <<"probe", "none">>}
    \cup {<<"opts", o>> : o \in {"broker", "allow-degraded", "allow-chroot"}}

PolicyRuns ==
    {[r EXCEPT !.caps = "pinned", !.policy_at = <<"nix", "policy">>, !.keep = k, !.uid = u] :
        r \in {AgentRun, StrictAgentRun}, u \in {0, 1},
        k \in {{}, {"NET_BIND_SERVICE"}, {"SETUID", "SETGID"}, {"SYS_ADMIN", "SETGID"}}}

SmallRequests ==
    {With(With(x[1], d), x[2]) :
        x \in ({AgentRun, ServiceRun} \X Deviations)
              \cup ({StrictAgentRun, SandboxedRun, SandboxedService, BrokeredRun} \X Pivotal),
        d \in Pivotal}
    \cup PolicyRuns \cup {With(r, d) : r \in {StrictAgentRun, MountedRun(SandboxedRun)}, d \in Deviations}

SmallHosts ==
    {[root |-> TRUE, runsc |-> FALSE, subids |-> FALSE, lockdown |-> "none", xdg |-> TRUE],
     [root |-> FALSE, runsc |-> TRUE, subids |-> TRUE, lockdown |-> "integrity", xdg |-> TRUE],
     [root |-> FALSE, runsc |-> TRUE, subids |-> FALSE, lockdown |-> "none", xdg |-> FALSE]}

HostLinks == [p \in {<<"srv", "link">>} |-> <<"etc">>]

---------------------------------------------------------------------------
(* Seccomp policies, user mappings and GPU devices.                        *)

SmallPolicies ==
    [kind : {"builtin"}, network : BOOLEAN, gpu : BOOLEAN, production : BOOLEAN, pin : {"none"},
     names : {{}, {"read", "io_uring_setup"}, {"ptrace", "ioctl"}, {"setns", "clone3"}, {"bogus"}}]
    \cup [kind : {"profile"}, network : {TRUE}, gpu : {FALSE}, production : {FALSE},
          pin : {"none", "stale"},
          names : {{"read", "clone3", "setns"}, {"ioctl", "mprotect", "prlimit64"},
                   {"clone", "prctl", "socket", "bogus"}, {}}]
    \cup [kind : {"generated"}, network : {TRUE}, gpu : {FALSE}, production : {FALSE}, pin : {"none"},
          names : {{"read", "ioctl"}, {"exit", "io_uring_setup", "clone3"}}]

MapCase(id, mode, um, gm, user, group, su, sg) ==
    [uid |-> id, gid |-> id, mode |-> mode, uidmap |-> um, gidmap |-> gm, user |-> user,
     group |-> group, subuid |-> su, subgid |-> sg]
SubidLine(w, s, n) == [who |-> w, start |-> s, count |-> n]
SubidFiles ==
    {<<>>, <<SubidLine("uid", 5, 3)>>, <<SubidLine("uid", 5, 3), SubidLine("name", 4, 2)>>,
     <<SubidLine("name", 4, 0), SubidLine("other", 3, 2)>>, <<SubidLine("name", 1, 3)>>}
MapSpecs ==
    {<<>>, <<Mapping(0, 5, 2)>>, <<Mapping(2, 2, 1), Mapping(0, 5, 1)>>, <<Mapping(1, 0, 2)>>,
     <<Mapping(0, 5, 2), Mapping(1, 6, 1)>>, <<Mapping(0, 6, 4)>>, <<Mapping(0, 2, 1)>>,
     <<Mapping(0, 7, 3)>>}
SmallMapCases ==
    {MapCase(id, mode, <<>>, <<>>, user, group, su, sg) :
        id \in {0, 2}, mode \in {"keep-id", "auto", "nomap", "strict"},
        user \in 0..2, group \in {0, 2}, su \in SubidFiles, sg \in SubidFiles}
    \cup {MapCase(id, "specs", um, gm, user, user, su, su) :
        id \in {0, 2}, um \in MapSpecs, gm \in MapSpecs, user \in 0..2, su \in SubidFiles}

HostDevice(f, b, ma, mi) == [family |-> f, block |-> b, major |-> ma, minor |-> mi]
NvidiaCard == HostDevice("nvidia-card", FALSE, 195, 0)
RenderNode == HostDevice("render", FALSE, 226, 3)
SmallDevices ==
    {NvidiaCard, RenderNode, HostDevice("caps-other", FALSE, 7, 3), HostDevice("kfd", FALSE, 9, 3),
     HostDevice("disk", TRUE, 195, 0)}
SmallGpus ==
    [vendor : {"auto", "nvidia", "amd", "intel"}, devices : {{}, {NvidiaCard, RenderNode}},
     driver_libs : {TRUE}, terminal : BOOLEAN, rootfs : BOOLEAN]

---------------------------------------------------------------------------
(* Workspaces and topologies.                                              *)

SmallPaths == {<<"a">>, <<"a", "x">>, <<"b">>}
TreesOver(k) ==
    {t \in [SmallPaths -> k \cup {"none", "dir"}] :
        t[<<"a", "x">>] # "none" => t[<<"a">>] = "dir"}
SmallHostTrees == {t \in TreesOver({"old", "link", "special"}) : t[<<"b">>] \in {"none", "old", "dir"}}
SmallWorkTrees == {t \in TreesOver({"new", "link", "special"}) : t[<<"b">>] \in {"none", "new", "dir"}}

After(s, c) == [service |-> s, condition |-> c]
DB == <<"db">>
API == <<"api">>
WEB == <<"web">>
SmallService(deps, health) ==
    [hash |-> 1, deps |-> deps, health |-> health, networks |-> {}, broker |-> FALSE,
     egress |-> FALSE, volumes |-> {}]
SmallVolume(p, o) ==
    [type |-> IF p = <<>> THEN "ephemeral" ELSE "persistent", path |-> p, absolute |-> TRUE,
     owner |-> o]
TopologyOver(services) ==
    [services |-> services, networks |-> {"net"},
     volumes |-> [data |-> SmallVolume(<<"srv", "data">>, "ids"), tmp |-> SmallVolume(<<>>, "none")]]
DependencyGraphs ==
    {(API :> SmallService(a, TRUE)) @@ (DB :> SmallService(d, TRUE)) @@ (WEB :> SmallService(w, FALSE)) :
        a \in {<<>>, <<After(DB, "healthy")>>, <<After(WEB, "started"), After(DB, "started")>>},
        d \in {<<>>, <<After(WEB, "started")>>},
        w \in {<<>>, <<After(API, "started"), After(API, "started")>>}}
Pair == TopologyOver((API :> SmallService(<<After(DB, "started")>>, FALSE))
                     @@ (DB :> SmallService(<<>>, FALSE)))
PairVolumes ==
    {SmallVolume(<<"srv", "data">>, "ids"), SmallVolume(<<"link", "data">>, "none"),
     SmallVolume(<<"srv">>, "garbled"), [SmallVolume(<<"srv">>, "none") EXCEPT !.type = "strange"],
     [SmallVolume(<<"srv">>, "none") EXCEPT !.absolute = FALSE]}
SmallTopologies ==
    {TopologyOver(g) : g \in DependencyGraphs}
    \cup {[Pair EXCEPT !.services[API].volumes = {"data", "tmp"}, !.volumes["data"] = v] : v \in PairVolumes}
    \cup {[Pair EXCEPT !.services[API].volumes = {"lost"}],
          [Pair EXCEPT !.services[API].networks = {"net"}, !.services[API].broker = TRUE],
          [Pair EXCEPT !.services[API].broker = TRUE],
          [Pair EXCEPT !.services[API].networks = {"other"}]}
SmallOrder == <<API, DB, WEB>>
AppName == <<"app">>
HostLinkPaths == {<<"link">>}

---------------------------------------------------------------------------
(* Checkpoints and images.                                                *)

TwoLimitSets == {{}, {"memory.max", "pids.max"}}
SmallDiff == <<"dev/x", "etc/a", "etc/b">>
---------------------------------------------------------------------------

\* What the parts that do not move hold.
IdleRequest == With(AgentRun, <<"net", "host">>)
IdleHost == CHOOSE h \in Hosts : TRUE
IdlePolicy == CHOOSE p \in Policies : TRUE
IdleCall == CHOOSE c \in Calls : TRUE
IdleMapCase == CHOOSE c \in MapCases : TRUE
IdleGpu == CHOOSE g \in GpuConfigs : TRUE
IdleTree == CHOOSE t \in HostTrees : TRUE
IdleTopology == [Pair EXCEPT !.services[API].volumes = {"lost"}]

Init ==
    /\ part \in Parts
    /\ StateFileInit
    /\ IF part = "workspace" THEN TRUE ELSE host_tree = IdleTree
    /\ WorkspaceInit
    /\ IF part = "checkpoint" THEN TRUE ELSE cgroup = "none" /\ given = {}
    /\ CheckpointInit
    /\ ImageInit
    /\ IF part = "devices" THEN DevicesInit ELSE present = {} /\ gpu = IdleGpu /\ DevicesBegin
    /\ IF part = "topology" THEN TopologyInit
       ELSE /\ topo = IdleTopology /\ command = "up" /\ world = [n \in Names |-> Absent]
            /\ TopologyBegins
    /\ IF part = "usermap" THEN UserMapInit ELSE map_case = IdleMapCase /\ UserMapBegins
    /\ IF part = "seccomp" THEN SeccompInit
       ELSE policy = IdlePolicy /\ call = IdleCall /\ SeccompBegins
    /\ ChildSetupInit /\ GVisorInit
    /\ IF part = "launch" THEN LaunchConfigInit
       ELSE request = IdleRequest /\ host = IdleHost /\ LaunchBegins

Next ==
    /\ UNCHANGED part
    /\ IF part = "launch" THEN LaunchNext ELSE UNCHANGED launchChildVars
    /\ IF part = "seccomp" THEN SeccompNext ELSE UNCHANGED seccompVars
    /\ IF part = "usermap" THEN UserMapNext ELSE UNCHANGED mapVars
    /\ IF part = "devices" THEN DevicesNext ELSE UNCHANGED gpuVars
    /\ IF part = "workspace" THEN WorkspaceNext ELSE UNCHANGED workspaceVars
    /\ IF part = "topology" THEN TopologyNext ELSE UNCHANGED topologyVars
    /\ IF part = "checkpoint" THEN CheckpointNext ELSE UNCHANGED checkpointVars
    /\ IF part = "image" THEN ImageNext ELSE UNCHANGED imageVars
    /\ IF part = "record" THEN StateFileNext ELSE UNCHANGED fileVars

componentVars ==
    <<part, launchChildVars, seccompVars, mapVars, gpuVars, workspaceVars, topologyVars,
      checkpointVars, imageVars, fileVars>>

Spec == Init /\ [][Next]_componentVars

---------------------------------------------------------------------------
(* What the runs check, besides the properties of a component that stand   *)
(* alone: the guarantees of the component that moves, taken together.      *)

\* Natively and in an OCI bundle, what the runtime mounts is what the workload
\* finds at its path (mount.rs and oci/mod.rs).
MountsStayVisible == part = "launch" => RuntimePathsVisible /\ OciPathsVisible

\* The compiled program decides as the rules say, and no profile or fragment lifts
\* an argument filter or a critical denial (seccomp.rs, seccomp_bpf.rs).
FilterSound == part = "seccomp" => SeccompTypeOK /\ ProgramMeansRules /\ ArgumentRulesStay
=============================================================================
