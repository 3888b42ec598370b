---------------------------- MODULE GVisorLaunch ----------------------------
(***************************************************************************)
(* The child of a gVisor launch: the user namespace handed to runsc        *)
(* (container/runtime.rs), the OCI configuration and bundle it builds      *)
(* (container/gvisor_setup.rs, oci/mod.rs), the exec of runsc              *)
(* (security/gvisor.rs) and what the supervisor removes afterwards.        *)
(*                                                                         *)
(* The sibling of ChildSetup: it takes the admitted configurations whose   *)
(* runtime is gVisor, and its `mounts` are those of the OCI configuration, *)
(* in the order runsc makes them.                                          *)
(***************************************************************************)
EXTENDS ChildSetup

VARIABLES
    gpc,            \* the next step
    inherited,      \* what runsc inherits: [user, net, caps]
    bundle,         \* config.json: [ns, mapped, uid, nnp, env, seccomp]
    runsc,          \* its flags: [network, rootless, policy]
    artifacts       \* directories made: <<base, what>>

gvisorVars == <<gpc, inherited, bundle, runsc, artifacts>>
launchChildVars == <<childVars, gvisorVars>>

NoBundle == [ns |-> {}, mapped |-> {}, uid |-> 0, nnp |-> TRUE, env |-> <<>>, seccomp |-> "none"]

GVisorInit ==
    /\ gpc = "idle" /\ artifacts = {}
    /\ inherited = [user |-> "host", net |-> "host", caps |-> AllCaps]
    /\ bundle = NoBundle
    /\ runsc = [network |-> "none", rootless |-> FALSE, policy |-> "none"]

Bridged == config.net = "bridge"

---------------------------------------------------------------------------
(* The environment of the workload, as <<variable, who set it>>; a lookup  *)
(* finds the first entry.  TOKEN stands for the two variables a broker     *)
(* owns, PROXY for the others the launch derives from it.                  *)

BrokerOwns(c, k) == Opt(c, "broker") /\ k = "TOKEN"
VariableOrder == <<"PATH", "HOME", "PROXY", "TOKEN">>
By(keys, who) ==
    LET ks == SelectSeq(VariableOrder, LAMBDA k : k \in keys)
    IN [i \in 1..Len(ks) |-> <<ks[i], who>>]

\* The user's own value of a broker variable is passed on.
AllUserVariables(c) == c.env

UserVariables(c) == {k \in c.env : ~BrokerOwns(c, k)}
Derived(c) == IF Opt(c, "broker") THEN {"PROXY", "TOKEN"} ELSE {}
DerivedVariables(c) == {k \in Derived(c) : BrokerOwns(c, k) \/ k \notin c.env}

\* exec_command, on the native path
ExecEnvironment(c) ==
    By({"PATH"}, "default")
    \o (IF "HOME" \in c.env THEN <<>> ELSE By({"HOME"}, "home"))
    \o By(UserVariables(c), "user") \o By(DerivedVariables(c), "launch")

\* OciConfig::new, with_home_tmpfs and with_env, which drops an older HOME.
WithEnv(env, more) ==
    (IF \E i \in 1..Len(more) : more[i][1] = "HOME"
     THEN SelectSeq(env, LAMBDA e : e[1] # "HOME") ELSE env) \o more

OciEnvironment(c) ==
    WithEnv(WithEnv(By({"PATH"}, "default") \o By({"HOME"}, "home"), By(UserVariables(c), "user")),
            By(DerivedVariables(c), "launch"))

---------------------------------------------------------------------------
(* Up to the parent's acknowledgement: what runsc will inherit. *)

\* gvisor_needs_precreated_userns
PrecreatedUserns(c) ==
    c.runtime = "gvisor" /\ ~host.root /\ c.uidmap # {} /\ c.net \in {"bridge", "gvisor-host"}

\* gvisor_handoff_capabilities
HandoffCaps == {"SETUID", "SETGID", "SYS_ADMIN", "SYS_CHROOT"}

\* prepare_gvisor_handoff_namespace, become_userns_root_for_setup and
\* restore_gvisor_handoff_capabilities.
PrepareHandoff ==
    /\ Admitted /\ config.runtime = "gvisor" /\ gpc = "idle" /\ gpc' = "artifacts"
    /\ inherited' = IF PrecreatedUserns(config)
                    THEN [user |-> "mapped", net |-> IF Bridged THEN "private" ELSE "host", caps |-> HandoffCaps]
                    ELSE inherited
    /\ UNCHANGED <<childVars, bundle, runsc, artifacts>>

\* euid 0 in the child: real root, or root of the handed-over namespace.
ChildIsRoot == host.root \/ inherited.user = "mapped"

\* The artifact directory of root is /run/nucleus-gvisor, whoever root is.
BaseOfRoot(root) == IF root THEN "run" ELSE IF host.xdg THEN "xdg" ELSE "tmp"

\* Container::gvisor_artifact_base
ArtifactBase(root) == IF host.xdg THEN "xdg" ELSE IF root THEN "run" ELSE "tmp"

\* GVisorRuntime::gvisor_artifact_base, whose rule for root is another one.
RunscBase(root) ==
    IF host.xdg /\ (~root \/ inherited.user = "mapped") THEN "xdg" ELSE IF root THEN "run" ELSE "tmp"

\* Only the real root owns /run.
MayCreate(base) == base = "run" => host.root

\* ensure_secure_gvisor_artifact_dir and the context snapshot.
MakeArtifactDir ==
    /\ gpc = "artifacts"
    /\ LET base == ArtifactBase(ChildIsRoot) IN
       IF MayCreate(base)
       THEN gpc' = "config" /\ artifacts' = artifacts \cup {<<base, "dir">>}
       ELSE gpc' = "refused" /\ UNCHANGED artifacts
    /\ context' = [context EXCEPT !.snapshot = context.host]
    /\ UNCHANGED <<launchVars, spc, mounts, fs_state, sec_state, sandbox, tolerated, inherited, bundle, runsc>>

---------------------------------------------------------------------------
(* The OCI configuration. *)

\* with_namespace_config, without_network_namespace and, for a user
\* namespace runsc is to create, with_rootless_user_namespace.
OciNamespaces(c) ==
    {"pid", "ipc", "uts", "mount", "cgroup"}
    \cup (IF c.uidmap # {} /\ ~PrecreatedUserns(c) THEN {"user"} ELSE {})
    \cup (IF c.net \in {"bridge", "gvisor-host"} \/ (c.uidmap # {} /\ ~PrecreatedUserns(c))
          THEN {} ELSE {"network"})


\* OciConfig::new; with_home_tmpfs puts the home last.
OciBaseMounts ==
    <<Mount(<<"proc">>, "proc", PrivateFlags \cup {"ro"}), Mount(<<"dev">>, "dev", {"nosuid"}),
      Mount(<<"dev", "shm">>, "shm", PrivateFlags), Mount(<<"tmp">>, "tmp", {"nosuid", "nodev"}),
      Mount(<<"sys">>, "sys", PrivateFlags \cup {"ro"}), Mount(Components(config.home), "home", PrivateFlags)>>

\* with_rootfs_binds and with_host_runtime_binds
OciSystemMounts == SystemMounts(IF config.rootfs = "none" THEN HostDirs ELSE RootfsDirs)

\* with_workspace_mount, with_provider_config_mounts, with_volume_mounts
OciUserMounts ==
    (IF config.workspace = <<>> THEN <<>>
     ELSE <<Mount(<<"workspace">>, "workspace",
                  {"nosuid", "nodev"} \cup (IF config.workspace_mode = "bind-ro" THEN {"ro"} ELSE {})
                      \cup (IF Opt(config, "workspace-exec") THEN {} ELSE {"noexec"}))>>)
    \o Listing({Mount(ProviderDestination(config.home, p.dest), "provider",
                       PrivateFlags \cup (IF p.ro THEN {"ro"} ELSE {})) : p \in config.providers})
    \o VolumeMounts

\* with_context_bind
OciContextMount ==
    IF config.context = "bind" THEN <<Mount(<<"context">>, "context", {"ro", "nosuid", "nodev"})>> ELSE <<>>

\* The volumes come after the secrets.
OciSecretsFirst == OciBaseMounts \o OciSystemMounts \o SecretMounts \o OciContextMount \o OciUserMounts

\* The order of setup_and_exec_gvisor_oci, with_inmemory_secret_mounts last.
OciMounts == OciBaseMounts \o OciSystemMounts \o OciUserMounts \o OciContextMount \o SecretMounts

\* OciConfig::new and the with_ builders.  noNewPrivileges is left out of a
\* handed-over namespace; a seccomp profile is read on the host, so it is
\* found.  Host networking is refused (it never gets this far).
BuildOciConfig ==
    /\ gpc = "config" /\ gpc' = "bundle"
    /\ bundle' = [ns |-> OciNamespaces(config),
                  mapped |-> IF PrecreatedUserns(config) THEN {} ELSE config.uidmap,
                  uid |-> config.uid, nnp |-> ~PrecreatedUserns(config),
                  env |-> OciEnvironment(config), seccomp |-> config.seccomp]
    /\ mounts' = OciMounts
    /\ artifacts' = artifacts \cup
           (IF config.secrets = {} THEN {} ELSE {<<ArtifactBase(ChildIsRoot), "secrets">>})
    /\ UNCHANGED <<launchVars, spc, fs_state, sec_state, sandbox, context, tolerated, inherited, runsc>>

\* The copied context is not compared with the snapshot.
BundleUnverified ==
    /\ gpc = "bundle" /\ gpc' = "runsc"
    /\ context' = [context EXCEPT !.copy = context.host]
    /\ artifacts' = artifacts \cup {<<ArtifactBase(ChildIsRoot), "bundle">>}
    /\ UNCHANGED <<launchVars, spc, mounts, fs_state, sec_state, sandbox, tolerated, inherited, bundle, runsc>>

\* OciBundle::create, create_minimal_fs, prepare_oci_mountpoints, the
\* context copy with verify_context_manifest, and the device nodes.
CreateBundle ==
    /\ gpc = "bundle"
    /\ context' = IF config.context = "copy" THEN [context EXCEPT !.copy = context.host] ELSE context
    /\ gpc' = IF config.context = "copy" /\ Opt(config, "verify-context") /\ context.host # context.snapshot
              THEN "refused" ELSE "runsc"
    /\ artifacts' = artifacts \cup
           {<<IF Opt(config, "bundle") THEN "given" ELSE ArtifactBase(ChildIsRoot), "bundle">>}
    /\ UNCHANGED <<launchVars, spc, mounts, fs_state, sec_state, sandbox, tolerated, inherited, bundle, runsc>>

---------------------------------------------------------------------------
(* runsc. *)

\* The policy is asked for whenever there is no user namespace.
PolicyUnlessRootless(c) == c.mode = "production" /\ c.uidmap = {}

\* require_gvisor_supervisor_exec_policy
RequirePolicy(c) == c.mode = "production" /\ ~PrecreatedUserns(c)

\* exec_with_oci_bundle_options, build_oci_run_args: runsc's directories,
\* its flags, and apply_supervisor_exec_policy, which fails closed.
ExecRunsc ==
    /\ gpc = "runsc"
    /\ LET base == RunscBase(ChildIsRoot) IN
       \E landlock \in {"full", "none"} :
          LET policy == IF RequirePolicy(config) THEN landlock ELSE "none" IN
          /\ gpc' = IF MayCreate(base) /\ (RequirePolicy(config) => policy = "full") THEN "exec" ELSE "refused"
          /\ artifacts' = artifacts \cup (IF MayCreate(base) THEN {<<base, "runsc-root">>} ELSE {})
          /\ runsc' = [network |-> IF config.net = "none" THEN "none" ELSE "host",
                       rootless |-> config.uidmap # {} \/ ~host.root, policy |-> policy]
    /\ UNCHANGED <<childVars, inherited, bundle>>

\* cleanup_gvisor_artifacts, by the supervisor when the container is gone:
\* the secrets are unmounted, then the whole directory is removed.
CleanupArtifacts ==
    /\ gpc \in {"exec", "refused", "error"} /\ gpc' = "cleaned"
    /\ artifacts' = {a \in artifacts : a[1] # ArtifactBase(host.root)}
    /\ UNCHANGED <<childVars, inherited, bundle, runsc>>

\* Any `?` of the child.
GVisorError ==
    /\ gpc \in {"artifacts", "config", "bundle", "runsc"} /\ gpc' = "error"
    /\ UNCHANGED <<childVars, inherited, bundle, runsc, artifacts>>

\* The host's owner edits the context directory.
EditGVisorContext ==
    /\ gpc \in {"config", "bundle"} /\ config.context # "none" /\ context.host = 0
    /\ context' = [context EXCEPT !.host = 1]
    /\ UNCHANGED <<launchVars, spc, mounts, fs_state, sec_state, sandbox, tolerated, gvisorVars>>

GVisorNext ==
    \/ PrepareHandoff \/ MakeArtifactDir \/ BuildOciConfig \/ CreateBundle \/ ExecRunsc
    \/ CleanupArtifacts \/ GVisorError \/ EditGVisorContext

\* A launch with either runtime, from the request on.
LaunchInit == LaunchConfigInit /\ ChildSetupInit /\ GVisorInit
LaunchNext == (ChildSetupNext /\ UNCHANGED gvisorVars) \/ GVisorNext
LaunchSpec == LaunchInit /\ [][LaunchNext]_launchChildVars

---------------------------------------------------------------------------

GVisorExecutes == gpc = "exec"

(***************************************************************************)
(* runsc is given exactly the isolation that was asked for.  A user        *)
(* namespace is handed over or requested in the bundle, never both and     *)
(* never neither; a network namespace is never requested together with a   *)
(* prepared one or with hostinet; and a production launch that is not a    *)
(* handoff runs under the execute allowlist, also when root was remapped.  *)
(***************************************************************************)
RunscIsolation ==
    GVisorExecutes =>
        /\ {"pid", "ipc", "uts", "mount"} \subseteq bundle.ns
        /\ config.uidmap # {} =>
              IF inherited.user = "mapped" THEN "user" \notin bundle.ns /\ bundle.mapped = {}
              ELSE "user" \in bundle.ns /\ bundle.mapped = config.uidmap
        /\ inherited.user = "mapped" => inherited.caps = HandoffCaps
        /\ runsc.network = "host" => "network" \notin bundle.ns /\ config.net \in {"bridge", "gvisor-host"}
        /\ config.mode = "production" => runsc.policy = "full" \/ inherited.user = "mapped"

(***************************************************************************)
(* The OCI mounts, made in the order of the bundle, leave the workload the *)
(* system directories, /proc, its workspace and its secrets, whatever      *)
(* volumes the request names, and a verified context as it was copied.     *)
(***************************************************************************)
OciPathsVisible ==
    GVisorExecutes =>
        /\ \A d \in {"bin", "usr", "etc"} : MountedAt(<<d>>) => Covering(<<d>>).by = "system"
        /\ Covering(<<"proc">>).by = "proc"
        /\ config.workspace # <<>> => Covering(<<"workspace">>).by = "workspace"
        /\ config.secrets # {} => Covering(<<"run", "secrets">>).by = "secrets"
        /\ config.context = "copy" /\ Opt(config, "verify-context") => context.copy = context.snapshot

Lookup(env, k) ==
    LET at == {i \in 1..Len(env) : env[i][1] = k}
    IN IF at = {} THEN "unset" ELSE env[CHOOSE i \in at : \A j \in at : i <= j][2]

(***************************************************************************)
(* Both runtimes give the workload the same environment: what a credential *)
(* broker owns comes from the launch whatever the user sets, any other     *)
(* derived variable and HOME yield to the user's.                          *)
(***************************************************************************)
EnvironmentAgrees ==
    \A env \in (IF Executes THEN {ExecEnvironment(config)} ELSE {})
               \cup (IF GVisorExecutes THEN {bundle.env} ELSE {}) :
        /\ Opt(request, "broker") =>
              /\ \A i \in 1..Len(env) : env[i][1] = "TOKEN" => env[i][2] = "launch"
              /\ Lookup(env, "TOKEN") = "launch"
              /\ Lookup(env, "PROXY") = IF "PROXY" \in request.env THEN "user" ELSE "launch"
        /\ Lookup(env, "HOME") = IF "HOME" \in request.env THEN "user" ELSE "home"

(***************************************************************************)
(* A rootless launch never looks for its directories where only root may   *)
(* create them, although it is root of the namespace it was handed, as     *)
(* long as XDG_RUNTIME_DIR is set; and once the supervisor has cleaned up, *)
(* no staged secret is left anywhere.                                      *)
(***************************************************************************)
ArtifactsReachable ==
    /\ gpc = "refused" /\ host.xdg => config.context = "copy" \/ RequirePolicy(config)
    /\ gpc = "cleaned" => \A a \in artifacts : a[2] # "secrets"

(***************************************************************************)
(* The inductive invariant behind these two: who is handed over is decided *)
(* first, the bundle and the flags follow it, and the child that stages    *)
(* secrets looks for its directory where the supervisor will.              *)
(***************************************************************************)
HandoffInOrder ==
    /\ gpc \in {"idle", "artifacts", "config", "bundle", "runsc", "exec", "refused", "error", "cleaned"}
    /\ gpc # "idle" =>
          /\ Admitted /\ config.runtime = "gvisor"
          /\ inherited.user = "mapped" <=> PrecreatedUserns(config)
          /\ inherited.user = "mapped" => inherited.caps = HandoffCaps
    /\ gpc = "idle" => inherited.user = "host"
    /\ gpc \in {"config", "bundle", "runsc", "exec"} => MayCreate(ArtifactBase(ChildIsRoot))
    /\ gpc \in {"bundle", "runsc", "exec"} =>
          /\ bundle.ns = OciNamespaces(config)
          /\ bundle.mapped = IF PrecreatedUserns(config) THEN {} ELSE config.uidmap
    /\ gpc = "exec" => /\ runsc.network = IF config.net = "none" THEN "none" ELSE "host"
                       /\ RequirePolicy(config) => runsc.policy = "full"
    /\ \A a \in artifacts : a[2] = "secrets" => a[1] = ArtifactBase(host.root)

\* runsc is started with the isolation of the request, and everything it is given
\* is where it can be reached and removed (gvisor_setup.rs, gvisor.rs); with what
\* makes this inductive.
RunscAsRequested == RunscIsolation /\ ArtifactsReachable /\ HandoffInOrder
=============================================================================
