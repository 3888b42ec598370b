---------------------------- MODULE LaunchConfig ----------------------------
(***************************************************************************)
(* What happens to a `nucleus create` request before a child is forked:    *)
(* the command line (or --config file) is turned into a configuration      *)
(* (main.rs), detached requests are handed to systemd and parsed again,    *)
(* and create_internal completes, validates and guards the configuration   *)
(* in a fixed order (container/runtime.rs, container/config.rs,            *)
(* container/guards.rs).  A request ends "admitted" or "refused".          *)
(*                                                                         *)
(* A request is a record.  `opts` is the set of the switches that are      *)
(* given; a path is the sequence of its components, the first one being    *)
(* "/" when it is absolute.                                                *)
(***************************************************************************)
EXTENDS Lists

CONSTANTS
    LaunchRequests, \* the requests a user may make (a set of records)
    Hosts,          \* [root, runsc, subids, lockdown] of the machine
    Links,          \* the symbolic links of the host: path -> path
    MaxMappedId     \* bound: the ids a root-remapped namespace holds, 0..MaxMappedId

VARIABLES
    request,        \* what the user asked for
    host,           \* the machine it is asked on
    lpc,            \* the next step of the launch
    config          \* the configuration, as it is completed

launchVars == <<request, host, lpc, config>>

\* ContainerConfig and the options it is built from.  `egress` is a flag of the
\* request and a policy of the configuration.
Path == Seq(STRING)
MountSpec == [dest : Path, source : Path, ro : BOOLEAN]
Configs ==
    [mode : {"agent", "strict-agent", "production"}, runtime : {"native", "gvisor"},
     trust : {"trusted", "untrusted"}, net : {"none", "host", "bridge", "gvisor-host"},
     nat : {"auto", "kernel", "userspace"}, rootfs : {"none", "store", "elsewhere"},
     egress : {"none", "hosts", "allowlist", "deny-all", "broker-only"},
     limits : SUBSET {"memory", "cpu", "io", "pids", "no-pids"}, seccomp : STRING, extra : STRING, caps : STRING,
     landlock : STRING, keep : SUBSET STRING,
     policy_at : Path, workspace : Path, workspace_mode : STRING, home : Path, workdir : Path,
     volumes : SUBSET MountSpec, providers : SUBSET MountSpec, secrets : SUBSET Path,
     probe : STRING, context : {"none", "copy", "bind"}, lockdown : STRING, userns : STRING,
     uidmap : SUBSET Nat, user : STRING, uid : Nat, env : SUBSET STRING, opts : SUBSET STRING]
Machines ==
    [root : BOOLEAN, runsc : BOOLEAN, subids : BOOLEAN, lockdown : STRING, xdg : BOOLEAN]

ASSUME LaunchAssumption ==
    LaunchRequests \subseteq Configs /\ Hosts \subseteq Machines /\ MaxMappedId \in Nat

Opt(c, o) == o \in c.opts

---------------------------------------------------------------------------
(* Paths (filesystem/mount.rs, filesystem/workspace.rs). *)

Components(p) == SelectSeq(p, LAMBDA n : n \notin {"/", "."})

\* normalize_container_destination: absolute, no "..", not the root itself.
DestinationOk(p) ==
    /\ p # <<>> /\ Head(p) = "/"
    /\ \A i \in 1..Len(p) : p[i] # ".."
    /\ Components(p) # <<>>

\* normalize_bind_mount_source_for_policy: ".." removes the last component.
NormalizeSource(p) ==
    LET c == Components(p)
        upTo[i \in 0..Len(c)] ==
            IF i = 0 THEN <<>>
            ELSE IF c[i] # ".." THEN Append(upTo[i - 1], c[i])
            ELSE IF upTo[i - 1] = <<>> THEN <<>> ELSE ButLast(upTo[i - 1])
    IN  upTo[Len(c)]

\* fs::canonicalize, for the links this host has.
Canonical(p) == LET n == NormalizeSource(p) IN IF n \in DOMAIN Links THEN Links[n] ELSE n

Under(p, dirs) == \E d \in dirs : Begins(d, p)

ReservedDestinations ==
    {<<"bin">>, <<"boot">>, <<"dev">>, <<"etc">>, <<"lib">>, <<"lib64">>, <<"nix">>,
     <<"proc">>, <<"run", "secrets">>, <<"sbin">>, <<"sys">>, <<"usr">>}

DeniedSources ==
    {<<"boot">>, <<"dev">>, <<"etc">>, <<"home">>, <<"proc">>, <<"root">>, <<"run">>,
     <<"sys">>, <<"var", "log">>, <<"var", "run">>}

\* reject_denied_bind_mount_source
DeniedSource(n) == n = <<>> \/ Under(n, DeniedSources)

\* validate_bind_mount_source looks at the path as written and as resolved.
BindSourceOk(p) ==
    /\ p # <<>> /\ Head(p) = "/"
    /\ ~DeniedSource(NormalizeSource(p))
    /\ ~DeniedSource(Canonical(p))

\* reject_denied_provider_config_source: a whole home directory is too broad.
ProviderSourceOk(p) ==
    LET n == Canonical(p) IN
    /\ n \notin {<<>>, <<"home">>, <<"root">>}
    /\ ~(Len(n) = 2 /\ n[1] = "home")
    /\ ~Under(n, DeniedSources \ {<<"home">>, <<"root">>})

\* validate_workspace_host_path: project directories below /home are allowed.
WorkspaceSourceOk(p) ==
    \A n \in {NormalizeSource(p), Canonical(p)} :
        n # <<>> /\ ~Under(n, DeniedSources \ {<<"home">>})

\* A volume may be laid over a reserved directory.
ReservedIgnored(p) == DestinationOk(p)

\* normalize_volume_destination
VolumeDestinationOk(p) == DestinationOk(p) /\ ~Under(Components(p), ReservedDestinations)

\* normalize_provider_config_destination: strictly below the home directory.
ProviderDestination(home, p) ==
    IF p # <<>> /\ Head(p) = "/" THEN Components(p) ELSE Components(home) \o Components(p)

ProviderDestinationOk(home, p) ==
    /\ \A i \in 1..Len(p) : p[i] # ".."
    /\ LET d == ProviderDestination(home, p) IN
       Begins(Components(home), d) /\ d # Components(home)

---------------------------------------------------------------------------
(* From the command line to a configuration (main.rs, Commands::Create). *)

Strict(c) == c.mode \in {"strict-agent", "production"}

\* --config and --config-fd take every option from the file instead.
ConfigPathAlone(r) == Opt(r, "config-path") => ~Opt(r, "config-fd") /\ ~Opt(r, "other-options")
ConfigFdAlone(r) == Opt(r, "config-fd") => ~Opt(r, "config-path") /\ ~Opt(r, "other-options")

\* What --detach cannot carry to another process.
DetachOk(r) == Opt(r, "detach") => ~Opt(r, "secrets-fd") /\ ~Opt(r, "env-fd") /\ ~Opt(r, "events-fd")

\* resolve_service_mode
ServiceModeOk(r) == ~(Opt(r, "strict-agent") /\ r.mode = "production")

ServiceModeOf(r) ==
    IF Opt(r, "strict-agent") /\ r.mode = "agent" THEN "strict-agent" ELSE r.mode

RequestOk(r) ==
    /\ ConfigPathAlone(r) /\ ConfigFdAlone(r) /\ ~Opt(r, "no-command")
    /\ DetachOk(r) /\ ServiceModeOk(r)

\* requires_explicit_bridge_dns_for_create
DnsOk(r) ==
    r.net = "bridge" /\ ServiceModeOf(r) \in {"strict-agent", "production"}
        => Opt(r, "dns") \/ Opt(r, "broker")

DirectoriesOk(r) ==
    /\ DestinationOk(r.workdir) /\ DestinationOk(r.home)
    /\ r.workspace # <<>> => WorkspaceSourceOk(r.workspace)

\* apply_runtime_selection
RuntimeOk(r) == Opt(r, "bundle") => r.runtime = "gvisor"

\* resolve_process_identity: --group needs --user, a numeric --user --group.
IdentityOk(r) ==
    /\ ~(Opt(r, "group") /\ r.user = "none")
    /\ ~(r.user = "uid" /\ ~Opt(r, "group"))

\* resolve_rootfs_argument
RootfsOk(r) ==
    Opt(r, "toolchain") => r.rootfs = "none" /\ ServiceModeOf(r) # "production"

SeccompOk(r) == r.seccomp = "trace" => Opt(r, "seccomp-log")

EgressOk(r) ==
    /\ Opt(r, "broker") => r.net # "gvisor-host" /\ r.egress = "none"
    /\ r.egress = "hosts" => r.net # "gvisor-host"

ProbesOk(r) == r.probe # "two"

\* The bind volumes; tmpfs volumes are only looked at by create_internal.
VolumesOk(r) ==
    \A v \in r.volumes : v.source # <<"tmpfs">> => BindSourceOk(v.source) /\ VolumeDestinationOk(v.dest)

ProvidersOk(c) ==
    \A p \in c.providers : ProviderSourceOk(p.source) /\ ProviderDestinationOk(c.home, p.dest)

\* The checks made while the configuration is built, in main.rs.
ArgumentsOk(r) ==
    /\ DnsOk(r) /\ DirectoriesOk(r) /\ RuntimeOk(r) /\ IdentityOk(r) /\ RootfsOk(r)
    /\ SeccompOk(r) /\ EgressOk(r) /\ ProbesOk(r) /\ VolumesOk(r) /\ ProvidersOk(r)

\* --pids 0 removes the default limit; the other limits are opt-in.
LimitsOf(r) == (r.limits \ {"no-pids"}) \cup (IF "no-pids" \in r.limits THEN {} ELSE {"pids"})

\* Which egress policy the configuration carries.  --egress-tcp-port and
\* --egress-udp-port alone select none, so production falls to deny-all.
EgressPolicyOf(r) ==
    IF Opt(r, "broker") THEN "broker-only"
    ELSE IF r.egress = "hosts" THEN "allowlist"
    ELSE IF ServiceModeOf(r) = "production" /\ r.net # "gvisor-host" THEN "deny-all"
    ELSE "none"

\* apply_userns: explicit maps win; --userns=keep-id and auto need
\* /etc/subuid; plain rootless maps the requested uid only if it can.
RootlessMap(uid) == IF uid # 0 /\ host.subids THEN {0, uid} ELSE {0}

UserMapOk(r) == r.userns \in {"keep-id", "auto"} => host.subids

UserMapOf(r) ==
    CASE r.userns = "uidmap" -> r.uidmap
      [] r.userns \in {"keep-id", "auto"} -> {0, r.uid}
      [] r.userns = "rootless" -> RootlessMap(r.uid)
      [] OTHER -> {}

\* --detach runs the parsed request again as a transient unit.
Detach ==
    /\ lpc = "args" /\ RequestOk(request) /\ Opt(request, "detach")
    /\ request' = [request EXCEPT !.opts = @ \ {"detach"}]
    /\ UNCHANGED <<host, config, lpc>>

BuildConfig ==
    /\ lpc = "args" /\ ~(RequestOk(request) /\ Opt(request, "detach"))
    /\ IF RequestOk(request) /\ ArgumentsOk(request) /\ UserMapOk(request)
       THEN /\ config' = [request EXCEPT !.mode = ServiceModeOf(request),
                                         !.limits = LimitsOf(request),
                                         !.egress = EgressPolicyOf(request),
                                         !.rootfs = IF Opt(request, "toolchain") THEN "store" ELSE @,
                                         !.uidmap = UserMapOf(request)]
            /\ lpc' = "userns"
       ELSE lpc' = "refused" /\ UNCHANGED config
    /\ UNCHANGED <<host, request>>

---------------------------------------------------------------------------
(* create_internal, up to the first thing it creates. *)

Proceed(ok, next) == lpc' = IF ok THEN next ELSE "refused"

\* A strict mode started by root keeps the host's user ids.
NoRemap ==
    /\ lpc = "userns"
    /\ config' = [config EXCEPT !.uidmap =
                     IF ~host.root /\ @ = {} THEN RootlessMap(config.uid) ELSE @]
    /\ lpc' = "mode"
    /\ UNCHANGED <<request, host>>

ResolveUserNamespace ==
    /\ lpc = "userns"
    /\ config' = [config EXCEPT !.uidmap =
                     IF @ # {} THEN @
                     ELSE IF ~host.root THEN RootlessMap(config.uid)
                     ELSE IF Strict(config) THEN 0..MaxMappedId ELSE {}]
    /\ lpc' = "mode"
    /\ UNCHANGED <<request, host>>

\* validate_fail_closed_isolation
FailClosedOk(c) ==
    /\ ~Opt(c, "allow-degraded") /\ ~Opt(c, "allow-chroot")
    /\ c.net # "host"
    /\ IF c.net = "gvisor-host"
       THEN c.runtime = "gvisor" /\ Opt(c, "allow-host") /\ c.egress = "none"
       ELSE ~Opt(c, "allow-host")
    /\ c.seccomp # "trace"
    /\ c.extra \in {"none", "opt-in"}

\* validate_strict_agent_mode
StrictAgentOk(c) == c.mode = "strict-agent" => FailClosedOk(c) /\ c.limits # {}

\* validate_production_mode
ProductionOk(c) ==
    c.mode = "production" =>
        /\ FailClosedOk(c)
        /\ ~Opt(c, "gpu")
        /\ Opt(c, "workspace-exec") => c.workspace_mode = "bind-ro"
        /\ c.rootfs = "store"
        /\ ~Opt(c, "overlay")
        /\ "plain" \notin {c.caps, c.landlock} /\ c.seccomp # "profile"
        /\ {"memory", "cpu"} \subseteq c.limits
        /\ Opt(c, "attest")

\* assert_kernel_lockdown: confidentiality satisfies a demand for integrity.
LockdownOk(c) ==
    \/ c.lockdown = "none"
    \/ host.lockdown = "confidentiality"
    \/ host.lockdown = "integrity" /\ c.lockdown = "integrity"

ValidateServiceMode ==
    /\ lpc = "mode"
    /\ Proceed(StrictAgentOk(config) /\ ProductionOk(config) /\ LockdownOk(config), "guards")
    /\ UNCHANGED <<request, host, config>>

\* apply_network_mode_guards
NetworkGuardOk(c) ==
    /\ c.net = "host" => c.runtime # "gvisor" /\ Opt(c, "allow-host")
    /\ c.net = "gvisor-host" => c.runtime = "gvisor" /\ Opt(c, "allow-host")

\* apply_trust_level_guards
TrustGuardOk(c) ==
    c.trust = "untrusted" =>
        /\ c.net # "host"
        /\ c.net = "gvisor-host" => c.runtime = "gvisor" /\ Opt(c, "allow-host")
        /\ c.runtime = "gvisor" \/ host.runsc \/ Opt(c, "allow-degraded")

GuardedRuntime(c) ==
    IF c.trust = "untrusted" /\ host.runsc THEN "gvisor" ELSE c.runtime

\* What only the native runtime supports (end of validate_runtime_support).
GVisorOk(c) ==
    /\ c.seccomp # "trace" /\ ~Opt(c, "log-denied") /\ c.extra = "none"
    /\ c.caps = "none" /\ c.landlock = "none"
    /\ ~Opt(c, "health") /\ c.probe \notin {"exec", "tcp"}
    /\ ~(Opt(c, "verify-context") /\ c.context = "bind")

\* selected_nat_backend
NatBackendOf(c) ==
    IF c.nat # "auto" THEN c.nat
    ELSE IF host.root /\ c.uidmap = {} THEN "kernel" ELSE "userspace"

\* validate_credential_broker
BrokerOk(c) ==
    Opt(c, "broker") => c.net = "bridge" /\ c.nat # "userspace" /\ c.egress = "broker-only"

\* validate_runtime_support
RuntimeSupportOk(c) ==
    /\ c.uidmap # {} => ~Opt(c, "groups") /\ c.uid \in c.uidmap
    /\ LET h == Components(c.home) IN h[1] # "workspace"
    /\ c.workspace_mode = "copy-in-out" => c.workspace # <<>>
    /\ \A s \in c.secrets : DestinationOk(s)
    /\ \A v \in c.volumes :
          /\ VolumeDestinationOk(v.dest)
          /\ Components(v.dest) \notin {<<"workspace">>, Components(c.home)}
          /\ v.source # <<"tmpfs">> => BindSourceOk(v.source)
    /\ ProvidersOk(c)
    /\ BrokerOk(c)
    /\ Opt(c, "overlay") => c.rootfs # "none" /\ c.runtime # "gvisor"
    /\ c.runtime = "gvisor" => GVisorOk(c)

\* The runtime's limits are looked at before the trust guard chooses it.
GuardLast ==
    /\ lpc = "guards"
    /\ config' = [config EXCEPT !.runtime = GuardedRuntime(config)]
    /\ Proceed(NetworkGuardOk(config) /\ TrustGuardOk(config) /\ RuntimeSupportOk(config), "bridge")
    /\ UNCHANGED <<request, host>>

\* The guards, in the order of create_internal; the trust guard may switch
\* the runtime to gVisor, so what the runtime supports is checked after it.
ApplyGuards ==
    /\ lpc = "guards"
    /\ config' = [config EXCEPT !.runtime = GuardedRuntime(config)]
    /\ Proceed(NetworkGuardOk(config) /\ TrustGuardOk(config) /\ RuntimeSupportOk(config'), "bridge")
    /\ UNCHANGED <<request, host>>

\* Only the configured backend is looked at, not the one auto resolves to.
BridgeUnresolved ==
    /\ lpc = "bridge"
    /\ Proceed(config.net = "bridge" /\ config.nat = "kernel" => host.root, "admitted")
    /\ UNCHANGED <<request, host, config>>

\* validate_credential_broker_resolved_nat, and kernel bridges need root.
ResolveBridge ==
    /\ lpc = "bridge"
    /\ LET kernel == NatBackendOf(config) = "kernel" IN
       Proceed(config.net = "bridge" =>
                   /\ Opt(config, "broker") => kernel
                   /\ kernel => host.root, "admitted")
    /\ UNCHANGED <<request, host, config>>

LaunchConfigNext ==
    \/ Detach
    \/ BuildConfig
    \/ ResolveUserNamespace
    \/ ValidateServiceMode
    \/ ApplyGuards
    \/ ResolveBridge

LaunchBegins == lpc = "args" /\ config = request
LaunchConfigInit == request \in LaunchRequests /\ host \in Hosts /\ LaunchBegins

---------------------------------------------------------------------------

Admitted == lpc = "admitted"

\* The user asked for one of the strict modes.
AskedStrict == request.mode # "agent" \/ Opt(request, "strict-agent")

(***************************************************************************)
(* A request that is admitted fits the runtime it will really run under.   *)
(* The trust guard switches untrusted requests to gVisor by itself, long   *)
(* after the user chose what is only supported natively; none of it may    *)
(* be silently dropped.                                                    *)
(***************************************************************************)
AdmittedFitsRuntime ==
    Admitted /\ config.runtime = "gvisor" =>
        /\ request.extra = "none" /\ {request.caps, request.landlock} = {"none"}
        /\ request.seccomp # "trace"
        /\ request.opts \cap {"overlay", "health", "log-denied"} = {}
        /\ request.probe \notin {"exec", "tcp"}

(***************************************************************************)
(* The strict modes fail closed whatever else is asked for: no admitted    *)
(* request of theirs shares the host's user ids or its native network, or  *)
(* may fall back to a weaker sandbox; and an untrusted workload runs       *)
(* natively only if the user accepted the degraded sandbox.                *)
(***************************************************************************)
StrictFailsClosed ==
    Admitted =>
        /\ AskedStrict =>
               /\ config.uidmap # {}
               /\ config.net # "host"
               /\ request.opts \cap {"allow-degraded", "allow-chroot"} = {}
        /\ request.trust = "untrusted" /\ config.runtime = "native" =>
               Opt(request, "allow-degraded") /\ ~host.runsc

(***************************************************************************)
(* A credential broker is the only way out of its container: the request   *)
(* is admitted only with a bridge that the kernel's NAT serves, which the  *)
(* host's root set up, and a policy that allows nothing but the broker.    *)
(***************************************************************************)
BrokerIsOnlyWayOut ==
    Admitted /\ Opt(request, "broker") =>
        /\ config.net = "bridge" /\ config.egress = "broker-only"
        /\ host.root /\ (config.nat = "kernel" \/ config.uidmap = {})

(***************************************************************************)
(* What each stage has established of the configuration, for the stages    *)
(* after it: the options that are passed on as they were given, and what   *)
(* the completed validations and guards found.                             *)
(***************************************************************************)
PassedOn == {"trust", "net", "nat", "seccomp", "extra", "caps", "landlock", "keep", "probe", "context",
             "uid", "env", "opts", "secrets", "workspace"}

AdmissionInOrder ==
    /\ request \in Configs /\ config \in Configs /\ host \in Machines
    /\ lpc \in {"args", "userns", "mode", "guards", "bridge", "admitted", "refused"}
    /\ lpc \notin {"args", "refused"} =>
          /\ \A f \in PassedOn : config[f] = request[f]
          /\ ServiceModeOk(request) /\ config.mode = ServiceModeOf(request)
    /\ lpc \in {"mode", "guards", "bridge", "admitted"} =>
          \/ config.uidmap # {}
          \/ host.root /\ ~Strict(config)
    /\ lpc \in {"guards", "bridge", "admitted"} => StrictAgentOk(config) /\ ProductionOk(config)
    /\ lpc \in {"bridge", "admitted"} =>
          /\ NetworkGuardOk(config) /\ TrustGuardOk(config) /\ BrokerOk(config)
          /\ config.runtime = GuardedRuntime(config)
          /\ config.runtime = "gvisor" => GVisorOk(config) /\ ~Opt(config, "overlay")
    /\ Admitted /\ config.net = "bridge" =>
          /\ Opt(config, "broker") => NatBackendOf(config) = "kernel"
          /\ NatBackendOf(config) = "kernel" => host.root

\* A strict launch is admitted only with the isolation it needs, and a container
\* with a credential broker has no other way out (the validators of config.rs and
\* the guards of guards.rs, in the order create_internal calls them).
AdmissionFailsClosed == StrictFailsClosed /\ BrokerIsOnlyWayOut /\ AdmissionInOrder
=============================================================================
