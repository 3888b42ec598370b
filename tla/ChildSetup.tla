----------------------------- MODULE ChildSetup -----------------------------
(***************************************************************************)
(* The child of a native launch, from its first step to the exec of the    *)
(* workload: Container::setup_and_exec (container/runtime.rs) with the     *)
(* mounts of filesystem/, and the capability, seccomp and Landlock layers  *)
(* of security/.  It runs on the configurations LaunchConfig admits.       *)
(*                                                                         *)
(* Every system call may fail.  Most failures end the child; the ones the  *)
(* code tolerates in some modes are actions of their own and at most       *)
(* MaxTolerated of them happen.  The pipes to the parent are the subject   *)
(* of Launch and are left out here.                                        *)
(***************************************************************************)
EXTENDS LaunchConfig

CONSTANTS
    MaxTolerated,   \* bound: failures the child survives
    RootfsDirs      \* the top-level directories the rootfs of the request has

VARIABLES
    spc,            \* the next step of setup_and_exec
    mounts,         \* the mounts made, oldest first: [at, by, flags]
    fs_state, sec_state, \* the two state machines the code drives
    sandbox,        \* [nnp, root, eff, bound, uid, rlimits, proc, masked, seccomp, landlock]
    context,        \* [host, snapshot, copy]: versions of the context directory
    tolerated       \* the failures survived so far

AllCaps == {"SETUID", "SETGID", "SYS_ADMIN", "SYS_CHROOT", "NET_BIND_SERVICE"}

ASSUME SetupAssumption ==
    /\ MaxTolerated \in Nat
    /\ \A r \in LaunchRequests : r.keep \subseteq AllCaps

setupVars == <<spc, mounts, fs_state, sec_state, sandbox, context, tolerated>>
childVars == <<launchVars, setupVars>>

NamespaceCaps == {"SYS_ADMIN"}
DangerousCaps == {"SETUID", "SETGID", "SYS_ADMIN"}

Rlimits == {"NPROC", "NOFILE", "MEMLOCK"}
\* One member per class: masks whose failure is fatal in production, and others.
CriticalMasks == {"kcore"}
ProcMasks == CriticalMasks \cup {"keys"}
ReadOnlySystem == {"ro", "nosuid", "nodev"}
HostDirs == {"bin", "usr", "lib", "nix"}

Production == config.mode = "production"
Degradable == Opt(config, "allow-degraded")
Rootless == config.uidmap # {}

FsNext == [Unmounted |-> {"Mounted"}, Mounted |-> {"Populated", "Unmounted"},
           Populated |-> {"Pivoted", "Unmounted"}, Pivoted |-> {"UnmountedFinal"},
           UnmountedFinal |-> {}]
SecNext == [Privileged |-> {"CapabilitiesDropped"}, CapabilitiesDropped |-> {"SeccompApplied"},
            SeccompApplied |-> {"LandlockApplied"}, LandlockApplied |-> {"Locked"}, Locked |-> {}]

ChildSetupTypeOK ==
    /\ fs_state \in DOMAIN FsNext /\ sec_state \in DOMAIN SecNext
    /\ sandbox \in [nnp : BOOLEAN, root : {"host", "pivot", "chroot"}, eff : SUBSET AllCaps,
                    bound : SUBSET AllCaps, uid : Nat, rlimits : SUBSET Rlimits,
                    proc : {"none", "mounted", "hidepid"}, masked : SUBSET ProcMasks,
                    seccomp : {"none", "filter", "trace"}, landlock : {"none", "partial", "full"}]
    /\ context \in [host : 0..1, snapshot : 0..1, copy : 0..1]
    /\ request.keep \cup config.keep \subseteq AllCaps

ChildSetupInit ==
    /\ spc = "idle" /\ mounts = <<>> /\ tolerated = {}
    /\ fs_state = "Unmounted" /\ sec_state = "Privileged"
    /\ sandbox = [nnp |-> FALSE, root |-> "host", eff |-> AllCaps, bound |-> AllCaps, uid |-> 0,
                  rlimits |-> {}, proc |-> "none", masked |-> {}, seccomp |-> "none", landlock |-> "none"]
    /\ context = [host |-> 0, snapshot |-> 0, copy |-> 0]

---------------------------------------------------------------------------

Step(from, to) == spc = from /\ spc' = to
MountAll(ms) == mounts' = mounts \o ms
Mount(at, by, flags) == [at |-> at, by |-> by, flags |-> flags]

\* A failure that the code survives: `reason` says why, at most MaxTolerated.
Survive(reason) ==
    /\ Cardinality(tolerated) < MaxTolerated
    /\ tolerated' = tolerated \cup {reason}

\* The mount that a lookup of path p ends in, and the one exactly at p.
Covering(p) ==
    LET over == {i \in 1..Len(mounts) : Begins(mounts[i].at, p)} IN
    IF over = {} THEN Mount(<<>>, "none", {})
    ELSE mounts[CHOOSE i \in over : \A j \in over : j <= i]
MountedAt(p) == \E i \in 1..Len(mounts) : mounts[i].at = p

SetOf(rec, f, v) == [rec EXCEPT ![f] = v]

\* A `?` of setup_and_exec: a system call or a hook failed and the child
\* gives up.  ("failed" is a child that its own checks ended.)
SetupError ==
    /\ spc \notin {"idle", "exec", "error", "failed"}
    /\ spc' = "error"
    /\ UNCHANGED <<launchVars, mounts, fs_state, sec_state, sandbox, context, tolerated>>

\* The host's owner edits the context directory while the child sets up.
EditContext ==
    /\ spc \notin {"idle", "exec", "error", "failed"} /\ config.context # "none"
    /\ context.host = 0
    /\ context' = [context EXCEPT !.host = 1]
    /\ UNCHANGED <<launchVars, spc, mounts, fs_state, sec_state, sandbox, tolerated>>

\* snapshot_context_dir hashes every file of the context directory.
SnapshotContext == [context EXCEPT !.snapshot = context.host]

\* verify_context_manifest compares the populated files with the snapshot.
ContextMatches == context.host = context.snapshot

\* The context snapshot, the namespaces and PR_SET_NO_NEW_PRIVS.
BeginSetup ==
    /\ Admitted /\ config.runtime = "native"
    /\ Step("idle", "root")
    /\ context' = SnapshotContext
    /\ sandbox' = [sandbox EXCEPT !.nnp = TRUE]
    /\ UNCHANGED <<launchVars, mounts, fs_state, sec_state, tolerated>>

\* TmpfsMount::mount, overlay_mount_rootfs, and /dev with its tmpfs.
RootMounts == <<Mount(<<>>, "tmpfs", {"nosuid", "nodev"})>>
OverlayMounts == IF Opt(config, "overlay") THEN <<Mount(<<>>, "overlay", {"nosuid", "nodev"})>> ELSE <<>>
DevMounts == <<Mount(<<"dev", "shm">>, "shm", {"nosuid", "nodev", "noexec"})>>

MountRoot ==
    /\ Step("root", "context")
    /\ MountAll(RootMounts \o OverlayMounts \o DevMounts)
    /\ fs_state' = "Mounted"
    /\ UNCHANGED <<launchVars, sec_state, sandbox, context, tolerated>>

\* bind_mount_context; ContextPopulator::populate copies the files instead.
ContextMounts ==
    IF config.context = "bind"
    THEN <<Mount(<<"context">>, "context", {"ro", "nosuid", "nodev", "noexec"})>> ELSE <<>>
CopyContext == [context EXCEPT !.copy = context.host]

\* The copied context is not compared with the snapshot.
PopulateUnverified ==
    /\ Step("context", "system")
    /\ context' = CopyContext
    /\ MountAll(ContextMounts)
    /\ fs_state' = "Populated"
    /\ UNCHANGED <<launchVars, sec_state, sandbox, tolerated>>

\* LazyContextPopulator::populate, then the comparison if it is asked for.
PopulateContext ==
    /\ spc = "context"
    /\ context' = CopyContext
    /\ IF config.context # "none" /\ Opt(config, "verify-context") /\ ~ContextMatches
       THEN spc' = "failed" /\ UNCHANGED <<mounts, fs_state>>
       ELSE spc' = "system" /\ MountAll(ContextMounts) /\ fs_state' = "Populated"
    /\ UNCHANGED <<launchVars, sec_state, sandbox, tolerated>>

SystemDirs == IF config.rootfs = "none" THEN HostDirs ELSE RootfsDirs

SystemMounts(dirs) ==
    Listing({Mount(<<d>>, "system", ReadOnlySystem) : d \in dirs})

\* bind_mount_rootfs; bind_mount_host_paths when there is no rootfs, which
\* skips a host directory that cannot be bound when rootless.
RootfsMounts == SystemMounts(RootfsDirs)
HostPathMounts(skipped) == SystemMounts(HostDirs \ skipped)

MountSystem ==
    /\ Step("system", "home")
    /\ \/ /\ MountAll(IF Opt(config, "overlay") THEN <<>>
                      ELSE IF config.rootfs = "none" THEN HostPathMounts({}) ELSE RootfsMounts)
          /\ UNCHANGED tolerated
       \/ /\ config.rootfs = "none" /\ Rootless
          /\ Survive("host-dir")
          /\ MountAll(HostPathMounts({"lib"}))
    /\ UNCHANGED <<launchVars, fs_state, sec_state, sandbox, context>>

PrivateFlags == {"nosuid", "nodev", "noexec"}
ReadOnlyIf(ro) == IF ro THEN {"ro"} ELSE {}

\* mount_home_tmpfs, mount_provider_configs and mount_workspace.
HomeMounts == <<Mount(Components(config.home), "home", PrivateFlags)>>

ProviderMounts ==
    Listing({Mount(ProviderDestination(config.home, p.dest), "provider", PrivateFlags \cup ReadOnlyIf(p.ro))
              : p \in config.providers})

WorkspaceMounts ==
    <<Mount(<<"workspace">>, "workspace",
            {"nosuid", "nodev"} \cup ReadOnlyIf(config.workspace_mode = "bind-ro")
            \cup (IF Opt(config, "workspace-exec") THEN {} ELSE {"noexec"}))>>

MountHome ==
    /\ Step("home", "volumes")
    /\ MountAll(HomeMounts \o ProviderMounts \o WorkspaceMounts)
    /\ UNCHANGED <<launchVars, fs_state, sec_state, sandbox, context, tolerated>>

\* mount_volumes
VolumeMounts ==
    Listing({Mount(Components(v.dest), "volume", {"nosuid", "nodev"} \cup ReadOnlyIf(v.ro)) : v \in config.volumes})

\* bind_mount_resolv_conf: with a rootfs /etc is read-only.
ResolvConfMounts ==
    IF config.net = "bridge" /\ config.rootfs # "none"
    THEN <<Mount(<<"etc", "resolv.conf">>, "resolv", {})>> ELSE <<>>

\* mount_secrets_inmemory
SecretMounts ==
    IF config.secrets = {} THEN <<>>
    ELSE <<Mount(<<"run", "secrets">>, "secrets", PrivateFlags)>>
         \o Listing({Mount(Components(s), "secret", PrivateFlags \cup {"ro"}) : s \in config.secrets})

\* The secrets are mounted first and the volumes over them.
SecretsFirst == Step("volumes", "proc") /\ MountAll(SecretMounts \o VolumeMounts)
                /\ UNCHANGED <<launchVars, fs_state, sec_state, sandbox, context, tolerated>>

\* The volumes, resolv.conf, and the secrets last.
MountVolumes ==
    /\ Step("volumes", "proc")
    /\ MountAll(VolumeMounts \o ResolvConfMounts \o SecretMounts)
    /\ UNCHANGED <<launchVars, fs_state, sec_state, sandbox, context, tolerated>>

\* mount_procfs; handle_procfs_mount_failure says when a launch goes on
\* without /proc.
ProcMounts == <<Mount(<<"proc">>, "proc", PrivateFlags \cup ReadOnlyIf(~Opt(config, "proc-rw")))>>
ProcBestEffort == Rootless /\ ~Production

MountProc ==
    /\ Step("proc", "mask")
    /\ \/ /\ MountAll(ProcMounts)
          /\ sandbox' = SetOf(sandbox, "proc", IF Production THEN "hidepid" ELSE "mounted")
          /\ UNCHANGED tolerated
       \/ /\ ProcBestEffort
          /\ Survive("procfs")
          /\ UNCHANGED <<mounts, sandbox>>
    /\ UNCHANGED <<launchVars, fs_state, sec_state, context>>

\* A mask that fails is a warning, whatever it hides.
MaskIsAdvice(production) == SUBSET ProcMasks

\* mask_proc_paths: which masks may be missing at its end.
MaskFailures(production) == IF production THEN SUBSET (ProcMasks \ CriticalMasks) ELSE SUBSET ProcMasks

MaskProc ==
    /\ Step("mask", "pivot")
    /\ \E missing \in MaskFailures(Production) :
          /\ missing # {} => sandbox.proc # "none" /\ Survive("mask")
          /\ missing = {} => UNCHANGED tolerated
          /\ sandbox' = SetOf(sandbox, "masked", IF sandbox.proc = "none" THEN {} ELSE ProcMasks \ missing)
    /\ UNCHANGED <<launchVars, mounts, fs_state, sec_state, context>>

\* pivot_root_impl; chroot_impl also drops CAP_SYS_CHROOT.
Pivoted == SetOf(sandbox, "root", "pivot")
Chrooted == [sandbox EXCEPT !.root = "chroot", !.eff = @ \ {"SYS_CHROOT"}, !.bound = @ \ {"SYS_CHROOT"}]

\* switch_root: pivot_root, or chroot when that fails and is allowed.
SwitchRoot ==
    /\ Step("pivot", "audit")
    /\ \/ sandbox' = Pivoted /\ UNCHANGED tolerated
       \/ Opt(config, "allow-chroot") /\ Survive("pivot") /\ sandbox' = Chrooted
    /\ fs_state' = "Pivoted"
    /\ UNCHANGED <<launchVars, mounts, sec_state, context>>

\* PRODUCTION_MOUNT_EXPECTATIONS: <<path, required flags, critical>>
Expectations ==
    {<<<<d>>, ReadOnlySystem, d \in {"bin", "usr", "etc"}>> : d \in {"bin", "usr", "etc", "lib", "nix"}}
    \cup {<<<<"proc">>, {"nosuid", "nodev", "noexec"}, TRUE>>,
          <<<<"run", "secrets">>, {"nosuid", "nodev", "noexec"}, FALSE>>}

\* The last line of mountinfo for a path is the one that is kept.
AuditPasses ==
    \A e \in Expectations : IF MountedAt(e[1]) THEN e[2] \subseteq Covering(e[1]).flags
                            ELSE ~(e[3] /\ Production)

\* audit_mounts: no /proc, no mountinfo; a finding is fatal in production.
AuditMounts ==
    /\ spc = "audit"
    /\ spc' = IF sandbox.proc = "none" \/ (Production /\ ~AuditPasses) THEN "failed" ELSE "caps"
    /\ UNCHANGED <<launchVars, mounts, fs_state, sec_state, sandbox, context, tolerated>>

---------------------------------------------------------------------------
(* Capabilities and identity. *)

\* load_toml_policy and SeccompManager::apply_profile_from_file open the
\* host's path, in the root the child has by then.
PolicyReadable ==
    \/ sandbox.root = "host"
    \/ config.rootfs = "none" /\ Under(config.policy_at, {<<d>> : d \in SystemDirs})

\* CapsPolicy::validate_production refuses dangerous ones in production.
CapsPolicyOk == PolicyReadable /\ (Production => config.keep \cap DangerousCaps = {})

\* CapsPolicy::apply sets all sets; drop_bounding_set only bounds what may
\* be gained, so that the identity can still be switched.
CapsPolicyApplied == SetOf(SetOf(sandbox, "bound", config.keep), "eff", config.keep)
BoundingDropped == SetOf(sandbox, "bound", {})

DropCapabilities ==
    /\ spc = "caps"
    /\ IF config.caps = "none" THEN spc' = "identity" /\ sandbox' = BoundingDropped
       ELSE IF CapsPolicyOk THEN spc' = "identity" /\ sandbox' = CapsPolicyApplied
       ELSE spc' = "failed" /\ UNCHANGED sandbox
    /\ UNCHANGED <<launchVars, mounts, fs_state, sec_state, context, tolerated>>

\* apply_process_identity_to_current_process: setgroups outside a user
\* namespace, then setgid and setuid; the kernel clears the effective set
\* of a process that leaves uid 0.
MaySwitch == (config.uid # 0 => {"SETUID", "SETGID"} \subseteq sandbox.eff)
             /\ (~Rootless => "SETGID" \in sandbox.eff)

SwitchIdentity ==
    /\ spc = "identity"
    /\ IF MaySwitch
       THEN /\ spc' = "finalize"
            /\ sandbox' = SetOf(SetOf(sandbox, "uid", config.uid),
                                "eff", IF config.uid # 0 THEN {} ELSE sandbox.eff)
       ELSE spc' = "failed" /\ UNCHANGED sandbox
    /\ UNCHANGED <<launchVars, mounts, fs_state, sec_state, context, tolerated>>

\* The effective capabilities of a process that stays root are kept.
ForgetsEffective ==
    /\ Step("finalize", "rlimits")
    /\ sec_state' = "CapabilitiesDropped"
    /\ UNCHANGED <<launchVars, mounts, fs_state, sandbox, context, tolerated>>

\* finalize_drop; a policy has already set the sets.
FinalizeDrop ==
    /\ Step("finalize", "rlimits")
    /\ sandbox' = IF config.caps = "none" THEN SetOf(sandbox, "eff", {}) ELSE sandbox
    /\ sec_state' = "CapabilitiesDropped"
    /\ UNCHANGED <<launchVars, mounts, fs_state, context, tolerated>>

\* verify_no_namespace_caps
NoNamespaceCaps == sandbox.eff \cap NamespaceCaps = {}

\* setrlimit for each limit; a failure is fatal only in production.
SetRlimits ==
    /\ spc = "rlimits"
    /\ LET wanted == IF "pids" \in config.limits THEN Rlimits ELSE Rlimits \ {"NPROC"} IN
       \/ sandbox' = SetOf(sandbox, "rlimits", wanted) /\ UNCHANGED tolerated
       \/ /\ ~Production
          /\ Survive("rlimit")
          /\ \E l \in wanted : sandbox' = SetOf(sandbox, "rlimits", wanted \ {l})
    /\ spc' = IF Production /\ ~NoNamespaceCaps THEN "failed" ELSE "seccomp"
    /\ UNCHANGED <<launchVars, mounts, fs_state, sec_state, context>>

---------------------------------------------------------------------------
(* Seccomp and Landlock. *)

\* What apply_trace_filter, apply_profile_from_file and
\* apply_filter_with_options leave when they return Ok.
SeccompOutcomes(mode) ==
    CASE mode = "trace" -> {"trace"}
      [] mode \in {"profile", "pinned"} -> IF PolicyReadable THEN {"filter"} ELSE {}
      [] OTHER -> IF Degradable THEN {"filter", "none"} ELSE {"filter"}

ApplySeccomp ==
    /\ spc = "seccomp"
    /\ IF SeccompOutcomes(config.seccomp) = {}
       THEN spc' = "failed" /\ UNCHANGED <<sandbox, sec_state, tolerated>>
       ELSE \E out \in SeccompOutcomes(config.seccomp) :
               /\ out = "none" => Survive("seccomp")
               /\ out # "none" => UNCHANGED tolerated
               /\ sandbox' = SetOf(sandbox, "seccomp", out)
               /\ sec_state' = IF out = "none" THEN sec_state ELSE "SeccompApplied"
               /\ spc' = IF out = "none" /\ ~Degradable THEN "failed" ELSE "landlock"
    /\ UNCHANGED <<launchVars, mounts, fs_state, context>>

\* apply_container_policy_with_mode and LandlockPolicy::apply; what the
\* kernel enforces is "full", "partial" or "none".
LandlockApplied(enforced) ==
    \/ enforced = "full"
    \/ enforced = "partial" /\ Degradable

\* The security state moves on as soon as Landlock is in force.
LandlockAlone(enforced) == LandlockApplied(enforced)

\* It moves on only when seccomp was applied before.
BothLayers(enforced) == sandbox.seccomp # "none" /\ LandlockApplied(enforced)

ApplyLandlock ==
    /\ spc = "landlock"
    /\ \E enforced \in {"full", "partial", "none"} :
          LET readable == config.landlock = "none" \/ PolicyReadable
          IN /\ enforced = "full" => UNCHANGED tolerated
             /\ enforced # "full" => Survive("landlock")
             /\ IF readable /\ (LandlockApplied(enforced) \/ Degradable)
                THEN /\ sandbox' = SetOf(sandbox, "landlock", enforced)
                     /\ sec_state' = IF ~BothLayers(enforced) THEN sec_state
                                     ELSE IF sandbox.seccomp = "trace" THEN "LandlockApplied" ELSE "Locked"
                     /\ spc' = "exec"
                ELSE spc' = "failed" /\ UNCHANGED <<sandbox, sec_state>>
    /\ UNCHANGED <<launchVars, mounts, fs_state, context>>

ChildStep ==
    \/ BeginSetup \/ MountRoot \/ PopulateContext \/ MountSystem \/ MountHome
    \/ MountVolumes \/ MountProc \/ MaskProc \/ SwitchRoot \/ AuditMounts
    \/ DropCapabilities \/ SwitchIdentity \/ FinalizeDrop \/ SetRlimits
    \/ ApplySeccomp \/ ApplyLandlock

ChildSetupNext ==
    \/ LaunchConfigNext /\ UNCHANGED setupVars
    \/ ChildStep
    \/ SetupError
    \/ EditContext

---------------------------------------------------------------------------

Executes == spc = "exec"

(***************************************************************************)
(* A strict launch never runs a workload in a weaker sandbox than it asked *)
(* for.  From the request to the exec: no_new_privs, a detached old root,  *)
(* no capability beyond the policy's, an enforcing filter, full Landlock;  *)
(* in production also hidden pids, the critical masks and every rlimit.    *)
(***************************************************************************)
StrictIsHardened ==
    Executes /\ AskedStrict =>
        /\ sandbox.nnp /\ sandbox.root = "pivot"
        /\ sandbox.seccomp = "filter" /\ sandbox.landlock = "full"
        /\ sandbox.eff \cup sandbox.bound \subseteq (IF request.caps = "none" THEN {} ELSE request.keep)
        /\ Production =>
               /\ sandbox.proc = "hidepid" /\ CriticalMasks \subseteq sandbox.masked
               /\ {"NOFILE", "MEMLOCK"} \subseteq sandbox.rlimits
               /\ sandbox.eff \cap DangerousCaps = {}

(***************************************************************************)
(* What the runtime mounts is what the workload finds: no volume, provider *)
(* configuration or secret hides a system directory, the workspace, /proc  *)
(* or the secrets directory, whatever destinations the request names.      *)
(***************************************************************************)
RuntimePathsVisible ==
    Executes =>
        /\ \A d \in {"bin", "usr", "etc"} :
              MountedAt(<<d>>) => Covering(<<d>>).by = "system"
        /\ Covering(<<"proc">>).by = "proc"
        /\ Covering(<<"workspace">>).by = "workspace"
        /\ config.secrets # {} => Covering(<<"run", "secrets">>).by = "secrets"

(***************************************************************************)
(* The code drives two state machines whose transition() refuses illegal   *)
(* steps; no step of setup_and_exec ever asks for one.  (LandlockApplied   *)
(* and Locked are entered one after the other within one step.)            *)
(***************************************************************************)
LegalTransition ==
    /\ fs_state' # fs_state => fs_state' \in FsNext[fs_state]
    /\ sec_state' # sec_state =>
          \/ sec_state' \in SecNext[sec_state]
          \/ sec_state' = "Locked" /\ sec_state = "SeccompApplied"
TransitionsLegal == [][LegalTransition]_childVars

(***************************************************************************)
(* With --verify-context-integrity and a copied context the workload sees  *)
(* the files that were there when the launch began, although their owner   *)
(* may edit them at any moment of the setup.                               *)
(***************************************************************************)
ContextAsSnapshotted ==
    Executes /\ config.context = "copy" /\ Opt(config, "verify-context") =>
        context.copy = context.snapshot

(***************************************************************************)
(* The inductive invariant behind these properties: what each step of      *)
(* setup_and_exec has left for the ones that follow.                       *)
(***************************************************************************)
PastFinalize == {"rlimits", "seccomp", "landlock", "exec"}
PastCaps == {"identity", "finalize"} \cup PastFinalize
PastPivot == {"audit", "caps"} \cup PastCaps
PastProc == {"mask", "pivot"} \cup PastPivot
PastContext == {"system", "home", "volumes", "proc"} \cup PastProc

\* The two state machines follow the steps.
StatesFollow ==
    /\ spc \in {"idle", "root"} => fs_state = "Unmounted"
    /\ spc = "context" => fs_state = "Mounted"
    /\ spc \in PastContext \ PastPivot => fs_state = "Populated"
    /\ spc \in {"idle", "root", "context"} \cup (PastContext \ PastFinalize) => sec_state = "Privileged"
    /\ spc \in {"rlimits", "seccomp"} => sec_state = "CapabilitiesDropped"
    /\ spc = "landlock" => (sandbox.seccomp # "none" => sec_state = "SeccompApplied")

\* The sandbox has what the steps so far were to give it.
SandboxFollows ==
    /\ spc # "idle" => Admitted /\ config.runtime = "native" /\ sandbox.nnp
    /\ spc \in PastPivot => sandbox.root = "pivot" \/ Opt(config, "allow-chroot")
    /\ spc \in PastProc /\ Production => sandbox.proc = "hidepid"
    /\ spc \in PastProc \ {"mask"} /\ Production => CriticalMasks \subseteq sandbox.masked
    /\ spc \in PastCaps /\ config.caps = "none" => sandbox.bound = {}
    /\ spc \in PastFinalize /\ config.caps = "none" => sandbox.eff = {}
    /\ spc \in PastCaps /\ config.caps # "none" =>
          /\ sandbox.eff \cup sandbox.bound \subseteq config.keep
          /\ Production => config.keep \cap DangerousCaps = {}
    /\ spc \in {"seccomp", "landlock", "exec"} /\ Production => {"NOFILE", "MEMLOCK"} \subseteq sandbox.rlimits
    /\ spc \in {"landlock", "exec"} => \/ sandbox.seccomp = "filter" \/ Degradable
                                       \/ sandbox.seccomp = "trace" /\ config.seccomp = "trace"
    /\ spc = "exec" => sandbox.landlock = "full" \/ Degradable

\* A verified context stays the one that was verified.
ContextFollows ==
    spc \in PastContext /\ config.context # "none" /\ Opt(config, "verify-context") =>
        context.copy = context.snapshot

SetupInOrder ==
    /\ spc \in {"idle", "root", "context", "error", "failed"} \cup PastContext
    /\ StatesFollow /\ SandboxFollows /\ ContextFollows

\* A strict workload executes only with every hardening step done (runtime.rs
\* setup_and_exec, mount.rs, capabilities.rs); with what makes this inductive.
LaunchHardened == ChildSetupTypeOK /\ StrictIsHardened /\ SetupInOrder
=============================================================================
