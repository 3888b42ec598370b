------------------------------- MODULE Devices -------------------------------
(***************************************************************************)
(* GPU passthrough of a native container (filesystem/gpu.rs,               *)
(* resources/cgroup_device.rs): the parent resolves the GPU nodes and      *)
(* attaches a device program to the cgroup, the child resolves them again, *)
(* creates its nodes under that program and binds the driver's support     *)
(* files, and then the rest of the file system is mounted.  Devices come   *)
(* and go on the host in between.  The launcher may make device nodes: one *)
(* that may not fails at its first GPU node.                               *)
(*                                                                         *)
(* A device is [family, block, major, minor]; the family stands for the    *)
(* shape of its path under /dev.                                           *)
(***************************************************************************)
EXTENDS Naturals, Sequences, FiniteSets, SequencesExt

CONSTANTS HostDevices,       \* the devices the host may have
          GpuConfigs,        \* [vendor, devices, driver_libs, terminal, rootfs]
          MaxHotplugs

VARIABLES present,           \* the devices the host has now
          gpu,               \* the configuration
          gpu_pc,
          device_program,    \* the program attached to the cgroup, or <<>>
          resolved,          \* what the parent resolved
          nodes,             \* the nodes the child made: devices
          support_mounts,    \* what is mounted where, in order
          hotplugs

gpuVars == <<present, gpu, gpu_pc, device_program, resolved, nodes,
             support_mounts, hotplugs>>

\* ---------------------------------------------------------------------------
\* Resolution

IncludesNvidia(v) == v \in {"auto", "nvidia", "all"}
IncludesAmd(v) == v \in {"auto", "amd", "all"}
IncludesIntel(v) == v \in {"auto", "intel", "all"}

\* is_allowed_gpu_device_path
GpuFamilies == {"nvidia-card", "nvidia-ctl", "nvidia-cap", "kfd", "render", "kms"}
ValidHostDevice(d) == d \in present /\ ~d.block /\ d.family \in GpuFamilies

CharDevices(families) == {d \in present : ~d.block /\ d.family \in families}

\* collect_nvidia takes every character device of /dev/nvidia-caps, whatever
\* its name.
CollectNvidia == CharDevices({"nvidia-card", "nvidia-ctl", "nvidia-cap", "caps-other"})
CollectRenderNodes == CharDevices({"render"})
CollectAmd == CharDevices({"kfd"}) \cup CollectRenderNodes
CollectIntel == CollectRenderNodes \cup CharDevices({"kms"})

DiscoverGpu(v) ==
    (IF IncludesNvidia(v) THEN CollectNvidia ELSE {})
    \cup (IF IncludesAmd(v) THEN CollectAmd ELSE {})
    \cup (IF IncludesIntel(v) THEN CollectIntel ELSE {})

\* resolve_explicit refuses a device it cannot validate.
ExplicitOk == \A d \in gpu.devices : ValidHostDevice(d)
ResolveGpuDevices == IF gpu.devices # {} THEN gpu.devices ELSE DiscoverGpu(gpu.vendor)

\* ---------------------------------------------------------------------------
\* The device program

Spec3(d) == [block |-> d.block, major |-> d.major, minor |-> d.minor]
CharSpec(major, minor) == [block |-> FALSE, major |-> major, minor |-> minor]

\* base_device_specs: null, zero, full, random and urandom, and the terminal.
BaseDeviceSpecs(include_tty) ==
    <<CharSpec(1, 3), CharSpec(1, 5), CharSpec(1, 7), CharSpec(1, 8), CharSpec(1, 9)>>
    \o (IF include_tty THEN <<CharSpec(5, 0)>> ELSE <<>>)

LdAbs(word) == [op |-> "ld", word |-> word, jt |-> 0, jf |-> 0, k |-> 0]
JeqK(k, jt, jf) == [op |-> "jeq", word |-> "", jt |-> jt, jf |-> jf, k |-> k]
JsetK(k, jt, jf) == [op |-> "jset", word |-> "", jt |-> jt, jf |-> jf, k |-> k]
RetK(k) == [op |-> "ret", word |-> "", jt |-> 0, jf |-> 0, k |-> k]

DeviceType(spec) == IF spec.block THEN 2 ELSE 1
AccessAll == 7

Entry(spec) ==
    <<LdAbs("type"), JeqK(DeviceType(spec), 0, 7),
      LdAbs("major"), JeqK(spec.major, 0, 5),
      LdAbs("minor"), JeqK(spec.minor, 0, 3),
      LdAbs("access"), JsetK(AccessAll, 0, 1), RetK(1)>>

\* The failed comparison of the major number lands one instruction too early,
\* on the entry's allow.
BuildOffByOne(specs) ==
    FlattenSeq([i \in DOMAIN specs |->
        [Entry(specs[i]) EXCEPT ![4] = JeqK(specs[i].major, 0, 4)]]) \o <<RetK(0)>>

\* build_device_program: one entry per device, then deny.
BuildDeviceProgram(specs) ==
    FlattenSeq([i \in DOMAIN specs |-> Entry(specs[i])]) \o <<RetK(0)>>

\* What the kernel answers when the program runs on an access (external): acc is
\* the accumulator at each instruction, which only an "ld" changes.
ProgramAllows(prog, access) ==
    LET shares(a, b) == \E bit \in {1, 2, 4} : (a \div bit) % 2 = 1 /\ (b \div bit) % 2 = 1
        run[pc \in 1..Len(prog), acc \in 0..300] ==
            LET i == prog[pc]
                taken == (i.op = "jeq" /\ acc = i.k) \/ (i.op = "jset" /\ shares(acc, i.k))
            IN  IF i.op = "ret" THEN i.k = 1
                ELSE IF i.op = "ld" THEN run[pc + 1, access[i.word]]
                ELSE run[pc + 1 + (IF taken THEN i.jt ELSE i.jf), acc]
    IN  run[1, 0]

Access(spec, bits) ==
    [type |-> DeviceType(spec), major |-> spec.major, minor |-> spec.minor, access |-> bits]

\* Without a program every access is allowed.
Allowed(spec, bits) ==
    device_program # <<>> => ProgramAllows(device_program, Access(spec, bits))

\* ---------------------------------------------------------------------------
\* The launch

DevicesBegin ==
    /\ gpu_pc = "parent"
    /\ device_program = <<>>
    /\ resolved = {}
    /\ nodes = {}
    /\ support_mounts = <<>>
    /\ hotplugs = 0
DevicesInit == present \in SUBSET HostDevices /\ gpu \in GpuConfigs /\ DevicesBegin

\* A device appears or goes away while the container is being set up (external).
Hotplug ==
    /\ gpu_pc \in {"parent", "child", "nodes"}
    /\ hotplugs < MaxHotplugs
    /\ \E d \in HostDevices :
          present' = IF d \in present THEN present \ {d} ELSE present \cup {d}
    /\ hotplugs' = hotplugs + 1
    /\ UNCHANGED <<gpu, gpu_pc, device_program, resolved, nodes, support_mounts>>

\* install_gpu_device_allowlist without the terminal.
AllowlistForgetsTty(set) ==
    BuildDeviceProgram(BaseDeviceSpecs(FALSE) \o SetToSeq({Spec3(d) : d \in set}))

InstallGpuDeviceAllowlist(set) ==
    BuildDeviceProgram(BaseDeviceSpecs(gpu.terminal) \o SetToSeq({Spec3(d) : d \in set}))

\* create_internal: an explicit device that is not there refuses the launch; no
\* device at all is a warning; a program that does not load or attach, or no
\* cgroup to attach it to, is best effort.
ParentResolves ==
    /\ gpu_pc = "parent"
    /\ IF ~ExplicitOk
       THEN gpu_pc' = "refused" /\ UNCHANGED <<device_program, resolved>>
       ELSE /\ resolved' = ResolveGpuDevices
            /\ gpu_pc' = "child"
            /\ \/ UNCHANGED device_program
               \/ /\ ResolveGpuDevices # {}
                  /\ device_program' = InstallGpuDeviceAllowlist(ResolveGpuDevices)
    /\ UNCHANGED <<present, gpu, nodes, support_mounts, hotplugs>>

\* create_dev_nodes in the child, which is in the cgroup by then: a node it may
\* not make is skipped.
CreateDevNodes ==
    /\ gpu_pc = "child"
    /\ nodes' = {s \in ToSet(BaseDeviceSpecs(gpu.terminal)) : Allowed(s, 4)}
    /\ gpu_pc' = "nodes"
    /\ UNCHANGED <<present, gpu, device_program, resolved, support_mounts, hotplugs>>

\* support_paths: what the vendors found here need from the host.
SupportPaths(set) ==
    LET nvidia == \E d \in set : d.family \in {"nvidia-card", "nvidia-ctl", "nvidia-cap"}
        amd == \E d \in set : d.family \in {"kfd", "render", "kms"}
    IN  (IF nvidia THEN <<<<"proc", "driver">>>> ELSE <<>>)
        \o (IF nvidia /\ gpu.driver_libs THEN <<<<"usr", "lib">>, <<"etc", "vulkan">>>> ELSE <<>>)
        \o (IF amd /\ gpu.driver_libs THEN <<<<"opt", "rocm">>>> ELSE <<>>)

\* The second resolution, mount_gpu_passthrough and create_gpu_device_node: each
\* node is validated again and made with the workload's ownership; a node or a
\* mount that cannot be made fails the launch.
MountGpuPassthrough ==
    /\ gpu_pc = "nodes"
    /\ LET set == ResolveGpuDevices
       IN  \/ /\ ExplicitOk
              /\ \A d \in set : ValidHostDevice(d) /\ Allowed(Spec3(d), 4)
              /\ nodes' = nodes \cup {Spec3(d) : d \in set}
              /\ support_mounts' = [i \in DOMAIN SupportPaths(set) |->
                     [at |-> SupportPaths(set)[i], by |-> "gpu"]]
              /\ gpu_pc' = "system"
           \/ gpu_pc' = "refused" /\ UNCHANGED <<nodes, support_mounts>>
    /\ UNCHANGED <<present, gpu, device_program, resolved, hotplugs>>

\* bind_mount_rootfs and bind_mount_host_paths, which come later: the rootfs
\* brings its own /usr and /etc, the host paths are the host's.
MountSystemDirs ==
    /\ gpu_pc = "system"
    /\ support_mounts' = support_mounts \o
           [i \in 1..2 |-> [at |-> <<(<<"usr", "etc">>)[i]>>,
                            by |-> IF gpu.rootfs THEN "rootfs" ELSE "host"]]
    /\ gpu_pc' = "workload"
    /\ UNCHANGED <<present, gpu, device_program, resolved, nodes, hotplugs>>

DevicesNext ==
    \/ ParentResolves \/ CreateDevNodes \/ MountGpuPassthrough \/ MountSystemDirs
    \/ Hotplug

\* ---------------------------------------------------------------------------
\* Properties

\* The workload can open every device node its /dev holds, also when devices
\* came or went while it was set up, and the program never lets it reach a
\* device that is neither a base device nor one the parent resolved
\* (build_device_program, base_device_specs against create_dev_nodes, the two
\* resolutions of the GPU set).
DevicesAgree ==
    gpu_pc = "workload" =>
        /\ \A s \in nodes : \A bits \in {1, 2, 3} : Allowed(s, bits)
        /\ device_program # <<>> =>
              \A d \in HostDevices : Allowed(Spec3(d), 1) =>
                  \/ Spec3(d) \in {Spec3(e) : e \in resolved}
                  \/ Spec3(d) \in ToSet(BaseDeviceSpecs(TRUE))
        /\ gpu.terminal => CharSpec(5, 0) \in nodes
=============================================================================
