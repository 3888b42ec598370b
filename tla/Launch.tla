------------------------------- MODULE Launch -------------------------------
(***************************************************************************)
(* One container launch, from `Container::create_internal` to the end of   *)
(* `CreatedContainer::start` (container/runtime.rs).                       *)
(*                                                                         *)
(* Actors                                                                  *)
(*   - the parent: the nucleus process that forks, maps the user           *)
(*     namespace, records the state file, attaches the cgroup, builds the  *)
(*     network, releases the child and supervises it;                      *)
(*   - "child": the process forked by create_internal;                     *)
(*   - "init":  PID 1 of the new PID namespace, forked by "child" when the *)
(*     native runtime uses a PID namespace ("child" then only reaps it);   *)
(*   - "daemon": a descendant of the workload that outlives it (only       *)
(*     without a PID namespace, where the kernel does not kill it);        *)
(*   - the `nucleus start` command (Container::trigger_start).             *)
(*                                                                         *)
(* The processes synchronise over four pipes (request, ack, ready, setup)  *)
(* and, for the two-phase create()/start() lifecycle, the exec FIFO.  Each *)
(* carries one message in its life; `msgs` holds those not read yet.  A    *)
(* reader sees end-of-file when there is none and no live process holds    *)
(* the write end.                                                          *)
(***************************************************************************)

CONSTANTS
    Configs,      \* the launch configurations considered, after the guards
    Kills,        \* the processes that may be killed from outside
    MayCrash,     \* the parent itself may die at any point
    CliStarts     \* somebody may issue `nucleus start`

Procs == {"child", "init", "daemon"}
Channels == {"request", "ack", "ready", "setup", "start"}

ConfigType ==
    [root    : BOOLEAN,   \* the launching user is root
     strict  : BOOLEAN,   \* service mode strict-agent or production
     userns  : BOOLEAN,   \* a user namespace mapping was requested
     pidns   : BOOLEAN,   \* namespaces.pid
     gvisor  : BOOLEAN,   \* use_gvisor
     net     : {"none", "bridge", "gvisor-host"},
     egress  : BOOLEAN,   \* an egress policy is configured
     defer   : BOOLEAN,   \* create() rather than run()
     visible : BOOLEAN]   \* the FIFO's host path also exists in the new root

\* The configurations that apply_network_mode_guards and
\* validate_fail_closed_isolation let through.  The FIFO's path matters only
\* where there is a FIFO.
Admitted ==
    {c \in ConfigType : /\ c.net = "gvisor-host" => c.gvisor
                        /\ c.net = "gvisor-host" /\ c.strict => ~c.egress
                        /\ c.visible => c.defer}

ASSUME ConstantsAssumption ==
    /\ Configs \subseteq ConfigType
    /\ Kills \subseteq {"child", "init"}
    /\ MayCrash \in BOOLEAN
    /\ CliStarts \in BOOLEAN

VARIABLES
    cfg,       \* the configuration of this launch
    ppc,       \* where the parent is
    pc,        \* where each process of the container is
    msgs,      \* the pipes (and the FIFO, "start") that hold an unread message
    idmap,     \* uid_map and gid_map of the child: "none" or "written"
    target,    \* target_pid_for_cleanup: the worker, or "none"
    fifo,      \* directory entry of the exec FIFO: "absent" or "present"
    file,      \* status in the state file, or "absent"
    cg,        \* the cgroup: "none", "up", "removed" or "leaked"
    members,   \* processes attached to the cgroup
    net,       \* bridge: "none", "up", "failed" or "cleaned"
    policy,    \* egress policy in the container's netns: "none" or "loaded"
    cli        \* where the `nucleus start` command is

vars == <<cfg, ppc, pc, msgs, idmap, target, fifo, file, cg, members, net,
          policy, cli>>

(***************************************************************************)
(* Derived configuration.                                                  *)
(***************************************************************************)
\* Rootless launches always get a mapping; root gets one in strict modes.
UserNsConfig == cfg.userns \/ ~cfg.root \/ cfg.strict

gvisor_needs_precreated_userns ==
    /\ cfg.gvisor /\ ~cfg.root /\ UserNsConfig
    /\ cfg.net \in {"bridge", "gvisor-host"}

needs_external_userns_mapping ==
    UserNsConfig /\ (~cfg.gvisor \/ gvisor_needs_precreated_userns)

SplitInit == cfg.pidns /\ ~cfg.gvisor

\* The process that performs the setup and becomes the workload; its PID is
\* the target PID that the ready pipe carries and the state file records.
Worker == IF SplitInit THEN "init" ELSE "child"

(***************************************************************************)
(* Processes and the ends of the pipes they hold.                          *)
(***************************************************************************)
SetupPhase == {"setup", "fifo", "fifo_write", "exec"}

PcValues == {"unborn", "unshare", "ackwait", "fork", "notify", "reap", "gate",
             "running", "dead"} \cup SetupPhase

Alive(p) == pc[p] \notin {"unborn", "dead"}

\* create_internal keeps its ends of all four pipes open until it returns.
CreatePhase == {"request", "ack", "ready", "save", "attach", "bridge",
                "egress", "release", "abort", "abort_kill", "abort_wait"}

ParentHolds == ppc \in CreatePhase

RequestHeld == Alive("child") \/ (Alive("init") /\ pc["init"] # "running")

\* "child" closes its copy once it has notified; PID 1 keeps the inherited
\* descriptor, close-on-exec, until it execs.
ReadyHeld == \/ pc["child"] \in {"unshare", "ackwait", "fork", "notify"}
             \/ pc["init"] \in {"gate"} \cup SetupPhase

SetupReadable == Alive("child") \/ Alive("init")

\* SIGKILL, as seen by the processes of set S.
Killed(S) == [p \in Procs |-> IF p \in S /\ Alive(p) THEN "dead" ELSE pc[p]]

\* Remove the cgroup without killing its members (NoOrphanAfterStart):
\* a faulty variant of DropCgroup, see below.
DropWithoutKill ==
    cg' = (IF cg = "up" THEN "removed" ELSE cg) /\ UNCHANGED pc

\* Cgroup::drop and Cgroup::cleanup: freeze, kill every member, wait until the
\* cgroup drains, remove it.  When a step of it fails or the wait times out the
\* directory stays, with whatever members survived.
DropCgroup ==
    \/ cg = "up" /\ cg' = "removed" /\ pc' = Killed(members)
    \/ cg = "up" /\ cg' = "leaked" /\ pc' \in {Killed(members), pc}
    \/ cg # "up" /\ UNCHANGED <<cg, pc>>

DropNetwork == net' = IF net = "up" THEN "cleaned" ELSE net

Init ==
    /\ cfg \in Configs
    /\ ppc = "prepare"
    /\ pc = [p \in Procs |-> "unborn"]
    /\ msgs = {} /\ idmap = "none" /\ target = "none" /\ fifo = "absent"
    /\ file = "absent"
    /\ cg = "none" /\ members = {}
    /\ net = "none" /\ policy = "none"
    /\ cli = "idle"

(***************************************************************************)
(* Faulty variants of some steps below, each a slip that is easy to make   *)
(* in the code.  No specification uses them: with the one in place of its  *)
(* original, TLC reports the property named beside it.                     *)
(***************************************************************************)
\* Attach the forked child instead of the target PID (Confined).
AttachChildPid ==
    /\ ppc = "attach"
    /\ members' = IF cg = "up" THEN members \cup {"child"} ELSE members
    /\ ppc' = "bridge"
    /\ UNCHANGED <<cfg, pc, msgs, idmap, target, fifo, file, cg, net,
                   policy, cli>>

\* Forget target_pid_for_cleanup in the error path
\* (FailedCreateLeavesNoProcess).
AbortKillsChildOnly ==
    /\ ppc = "abort_kill"
    /\ ppc' = "abort_wait"
    /\ pc' = Killed({"child"})
    /\ UNCHANGED <<cfg, msgs, idmap, target, fifo, file, cg, members, net,
                   policy, cli>>

\* Open the setup gate before the network is configured (IInv).
ReleaseBeforeNetwork ==
    /\ ppc \in {"bridge", "release"}
    /\ \/ SetupReadable /\ msgs' = msgs \cup {"setup"} /\ ppc' = "created"
       \/ ~SetupReadable /\ msgs' = msgs /\ ppc' = "abort"
    /\ UNCHANGED <<cfg, pc, idmap, target, fifo, file, cg, members, net,
                   policy, cli>>

\* Save a status outside OciStatus, "exited" (TypeOK).
WaitSavesExited ==
    /\ ppc = "wait" /\ ~Alive("child")
    /\ file' \in {"exited", file}
    /\ ppc' = "teardown"
    /\ UNCHANGED <<cfg, pc, msgs, idmap, target, fifo, cg, members, net,
                   policy, cli>>

\* Do not wait for the child before recording Stopped (RefinesLifecycle).
StopWithoutWait ==
    /\ ppc = "wait"
    /\ file' \in {"stopped", file}
    /\ ppc' = "teardown"
    /\ UNCHANGED <<cfg, pc, msgs, idmap, target, fifo, cg, members, net,
                   policy, cli>>

\* Record the container as Running before it is started (Recorded).
SaveRunningTooEarly ==
    /\ ppc = "save"
    /\ \/ file' = "running" /\ ppc' = "attach"
       \/ file' \in {file, "created"} /\ ppc' = "abort"
    /\ UNCHANGED <<cfg, pc, msgs, idmap, target, fifo, cg, members, net,
                   policy, cli>>

\* Declare network_driver before cgroup_opt, so that it is dropped first
\* (NetworkOutlivesWorkload).
DropNetworkFirst ==
    /\ ppc = "drop"
    /\ ppc' = "drop_net"
    /\ DropNetwork
    /\ UNCHANGED <<cfg, pc, msgs, idmap, target, fifo, file, cg, members,
                   policy, cli>>

\* Wait for the ready PID without handling end-of-file (CreateReturns).
WaitReadyForever ==
    /\ ppc = "ready" /\ "ready" \in msgs
    /\ msgs' = msgs \ {"ready"} /\ target' = Worker
    /\ ppc' = "save"
    /\ UNCHANGED <<cfg, pc, idmap, fifo, file, cg, members, net, policy, cli>>

\* Tear down only when a bridge is up, and stop otherwise (RunReturns).
TeardownNeedsNetwork ==
    /\ ppc = "teardown" /\ net = "up"
    /\ ppc' = "cgclean"
    /\ DropNetwork
    /\ UNCHANGED <<cfg, pc, msgs, idmap, target, fifo, file, cg, members,
                   policy, cli>>

(***************************************************************************)
(* create_internal, before the fork.                                       *)
(***************************************************************************)
\* Guards and name check; a refusal returns before anything is created.  Then
\* the exec FIFO, for the two-phase lifecycle only.
Prepare ==
    /\ ppc = "prepare"
    /\ \/ ppc' = "refused" /\ fifo' = fifo
       \/ ppc' = "cgroup" /\ fifo' = IF cfg.defer THEN "present" ELSE fifo
    /\ UNCHANGED <<cfg, pc, msgs, idmap, target, file, cg, members, net,
                   policy, cli>>

\* Cgroup::create and set_limits: mandatory in strict modes, else best effort.
SetupCgroup ==
    /\ ppc = "cgroup"
    /\ \/ cg' = "up" /\ ppc' = "fork"
       \/ cg' = cg /\ ppc' = IF cfg.strict THEN "refused" ELSE "fork"
    /\ UNCHANGED <<cfg, pc, msgs, idmap, target, fifo, file, members, net,
                   policy, cli>>

\* GPU devices, runsc, overlay, workspace staging, PTY, pipes and fork: an
\* error drops the cgroup, success leaves the child running concurrently.
Fork ==
    /\ ppc = "fork"
    /\ \/ ppc' = "refused" /\ DropCgroup
       \/ /\ ppc' = IF needs_external_userns_mapping THEN "request" ELSE "ready"
          /\ pc' = [pc EXCEPT !["child"] = "unshare"]
          /\ cg' = cg
    /\ UNCHANGED <<cfg, msgs, idmap, target, fifo, file, members, net,
                   policy, cli>>

(***************************************************************************)
(* create_internal, the parent_setup closure.                              *)
(***************************************************************************)
\* Wait for the request byte, then write the mappings of the child.
ServeRequest ==
    /\ ppc = "request"
    /\ \/ /\ "request" \in msgs
          /\ msgs' = msgs \ {"request"}
          /\ \/ idmap' = "written" /\ ppc' = "ack"
             \/ idmap' = idmap /\ ppc' = "abort"
       \/ /\ "request" \notin msgs /\ ~RequestHeld
          /\ ppc' = "abort"
          /\ UNCHANGED <<msgs, idmap>>
    /\ UNCHANGED <<cfg, pc, target, fifo, file, cg, members, net, policy, cli>>

\* The write fails when the only reader, the child, is gone.
SendAck ==
    /\ ppc = "ack"
    /\ \/ Alive("child") /\ msgs' = msgs \cup {"ack"} /\ ppc' = "ready"
       \/ ~Alive("child") /\ msgs' = msgs /\ ppc' = "abort"
    /\ UNCHANGED <<cfg, pc, idmap, target, fifo, file, cg, members, net,
                   policy, cli>>

\* wait_for_namespace_ready: the target PID, or end-of-file.
WaitReady ==
    /\ ppc = "ready"
    /\ \/ /\ "ready" \in msgs
          /\ msgs' = msgs \ {"ready"} /\ target' = Worker
          /\ ppc' = "save"
       \/ /\ "ready" \notin msgs /\ ~ReadyHeld
          /\ ppc' = "abort"
          /\ UNCHANGED <<msgs, target>>
    /\ UNCHANGED <<cfg, pc, idmap, fifo, file, cg, members, net, policy, cli>>

\* Console socket, trace reader, save_state(Created), PID file; any may fail,
\* the PID file after the state file was already written.
SaveCreated ==
    /\ ppc = "save"
    /\ \/ file' = "created" /\ ppc' = "attach"
       \/ file' \in {file, "created"} /\ ppc' = "abort"
    /\ UNCHANGED <<cfg, pc, msgs, idmap, target, fifo, cg, members, net,
                   policy, cli>>

\* Cgroup::attach_process(target_pid), then the seccomp deny logger.
Attach ==
    /\ ppc = "attach"
    /\ members' = IF cg = "up" THEN members \cup {target} ELSE members
    /\ ppc' = "bridge"
    /\ UNCHANGED <<cfg, pc, msgs, idmap, target, fifo, file, cg, net,
                   policy, cli>>

AttachFails ==
    /\ ppc = "attach"
    /\ members' \in {members, IF cg = "up" THEN members \cup {target} ELSE members}
    /\ ppc' = "abort"
    /\ UNCHANGED <<cfg, pc, msgs, idmap, target, fifo, file, cg, net,
                   policy, cli>>

\* BridgeDriver::setup_with_id: failure is fatal in strict modes only.
SetupBridge ==
    /\ ppc = "bridge"
    /\ \/ /\ cfg.net # "bridge"
          /\ ppc' = "release" /\ net' = net
       \/ /\ cfg.net = "bridge"
          /\ \/ net' = "up" /\ ppc' = "egress"
             \/ net' = "failed" /\ ppc' = IF cfg.strict THEN "abort" ELSE "release"
    /\ UNCHANGED <<cfg, pc, msgs, idmap, target, fifo, file, cg, members,
                   policy, cli>>

\* apply_egress_policy: failure is fatal in strict modes only.
\* probe_credential_broker, which needs a policy: failure is always fatal.
ApplyEgress ==
    /\ ppc = "egress"
    /\ \/ cfg.egress /\ policy' = "loaded" /\ ppc' \in {"release", "abort"}
       \/ cfg.egress /\ policy' = policy
          /\ ppc' \in IF cfg.strict THEN {"abort"} ELSE {"release", "abort"}
       \/ ~cfg.egress /\ policy' = policy /\ ppc' = "release"
    /\ UNCHANGED <<cfg, pc, msgs, idmap, target, fifo, file, cg, members,
                   net, cli>>

\* The setup byte; the write fails once nobody holds the read end.
Release ==
    /\ ppc = "release"
    /\ \/ SetupReadable /\ msgs' = msgs \cup {"setup"} /\ ppc' = "created"
       \/ ~SetupReadable /\ msgs' = msgs /\ ppc' = "abort"
    /\ UNCHANGED <<cfg, pc, idmap, target, fifo, file, cg, members, net,
                   policy, cli>>

(***************************************************************************)
(* The error path of parent_setup.  The closure's locals and captures are  *)
(* dropped first (bridge, then cgroup), then inspect_err kills and reaps.  *)
(***************************************************************************)
AbortDrop ==
    /\ ppc = "abort"
    /\ ppc' = "abort_kill"
    /\ DropNetwork /\ DropCgroup
    /\ UNCHANGED <<cfg, msgs, idmap, target, fifo, file, members, policy, cli>>

AbortKill ==
    /\ ppc = "abort_kill"
    /\ ppc' = "abort_wait"
    /\ pc' = Killed({"child", target})
    /\ UNCHANGED <<cfg, msgs, idmap, target, fifo, file, cg, members, net,
                   policy, cli>>

AbortWait ==
    /\ ppc = "abort_wait" /\ ~Alive("child")
    /\ ppc' = "failed"
    /\ UNCHANGED <<cfg, pc, msgs, idmap, target, fifo, file, cg, members,
                   net, policy, cli>>

(***************************************************************************)
(* CreatedContainer::start.                                                *)
(***************************************************************************)
\* run() calls start() at once; the holder of a create()d container may start
\* it, or drop it, whenever it likes.
RunStart ==
    /\ ppc = "created" /\ ~cfg.defer
    /\ ppc' = "save_running"
    /\ UNCHANGED <<cfg, pc, msgs, idmap, target, fifo, file, cg, members,
                   net, policy, cli>>

HolderChooses ==
    /\ ppc = "created" /\ cfg.defer
    /\ ppc' \in {IF fifo = "present" THEN "fifo_open" ELSE "drop", "drop"}
    /\ UNCHANGED <<cfg, pc, msgs, idmap, target, fifo, file, cg, members,
                   net, policy, cli>>

\* A FIFO opened for reading blocks until there is a writer.  WriterOpen is a
\* writer already there; a writer still to come is FifoOpen, below.
WriterOpen == pc[Worker] = "fifo_write"

FifoOpenLate ==
    /\ ppc = "fifo_open" /\ WriterOpen
    /\ ppc' = "fifo_read"
    /\ UNCHANGED <<cfg, pc, msgs, idmap, target, fifo, file, cg, members,
                   net, policy, cli>>

\* Exactly one byte releases start(); end-of-file is an error.
FifoRead ==
    /\ ppc = "fifo_read"
    /\ \/ /\ "start" \in msgs
          /\ msgs' = msgs \ {"start"} /\ fifo' = "absent"
          /\ ppc' = "save_running"
       \/ /\ "start" \notin msgs /\ ~WriterOpen
          /\ ppc' = "drop"
          /\ UNCHANGED <<msgs, fifo>>
    /\ UNCHANGED <<cfg, pc, idmap, target, file, cg, members, net,
                   policy, cli>>

SaveRunning ==
    /\ ppc = "save_running"
    /\ \/ file' = "running" /\ ppc' = "probe"
       \/ file' = file /\ ppc' = "drop"
    /\ UNCHANGED <<cfg, pc, msgs, idmap, target, fifo, cg, members, net,
                   policy, cli>>

\* Signal thread, console relay, readiness probe, poststart hooks: an error
\* returns from start() with `?`.
Probe ==
    /\ ppc = "probe"
    /\ ppc' \in {"wait", "drop"}
    /\ UNCHANGED <<cfg, pc, msgs, idmap, target, fifo, file, cg, members,
                   net, policy, cli>>

\* waitpid(child), then save_state(Stopped), whose error is ignored.
WaitChild ==
    /\ ppc = "wait" /\ ~Alive("child")
    /\ file' \in {"stopped", file}
    /\ ppc' = "teardown"
    /\ UNCHANGED <<cfg, pc, msgs, idmap, target, fifo, cg, members, net,
                   policy, cli>>

\* Stop the threads, poststop hooks, workspace sync, then the network.
TeardownNetwork ==
    /\ ppc = "teardown"
    /\ ppc' = "cgclean"
    /\ DropNetwork
    /\ UNCHANGED <<cfg, pc, msgs, idmap, target, fifo, file, cg, members,
                   policy, cli>>

TeardownCgroup ==
    /\ ppc = "cgclean"
    /\ ppc' = "delete"
    /\ DropCgroup
    /\ UNCHANGED <<cfg, msgs, idmap, target, fifo, file, members, net,
                   policy, cli>>

\* delete_state; an error is only reported.
DeleteState ==
    /\ ppc = "delete"
    /\ file' \in {"absent", file}
    /\ ppc' = "done"
    /\ UNCHANGED <<cfg, pc, msgs, idmap, target, fifo, cg, members, net,
                   policy, cli>>

\* Dropping the CreatedContainer drops its fields in declaration order:
\* cgroup_opt before network_driver.
DropHandleCgroup ==
    /\ ppc = "drop"
    /\ ppc' = "drop_net"
    /\ DropCgroup
    /\ UNCHANGED <<cfg, msgs, idmap, target, fifo, file, members, net,
                   policy, cli>>

DropHandleNetwork ==
    /\ ppc = "drop_net"
    /\ ppc' = "err"
    /\ DropNetwork
    /\ UNCHANGED <<cfg, pc, msgs, idmap, target, fifo, file, cg, members,
                   policy, cli>>

Returned == {"refused", "failed", "err", "done"}

\* The parent dies; the kernel closes its descriptors, nothing is dropped.
Crash ==
    /\ MayCrash /\ ppc \notin Returned \cup {"crashed"}
    /\ ppc' = "crashed"
    /\ msgs' = IF cli = "read" THEN msgs ELSE msgs \ {"start"}
    /\ UNCHANGED <<cfg, pc, idmap, target, fifo, file, cg, members,
                   net, policy, cli>>

(***************************************************************************)
(* setup_and_exec, in the child and in PID 1.                              *)
(***************************************************************************)
\* Process p goes to location l; a process step leaves the rest alone.
Moves(p, l) == pc' = [pc EXCEPT ![p] = l]

Rest == UNCHANGED <<cfg, ppc, idmap, target, fifo, file, cg, members, net, policy,
                    cli>>

\* Faulty variants of two steps of the container's processes: wait at the gate
\* without handling end-of-file (CrashUnblocks), and skip the exec FIFO
\* (NativeWaitsForStart).
GateWaitsForever ==
    /\ pc[Worker] = "gate" /\ "setup" \in msgs
    /\ msgs' = msgs \ {"setup"}
    /\ Moves(Worker, "setup") /\ Rest

SetupSkipsFifo ==
    /\ pc[Worker] = "setup"
    /\ \E l \in {"exec", "dead"} : Moves(Worker, l)
    /\ UNCHANGED msgs /\ Rest

AfterUserns == IF SplitInit THEN "fork" ELSE "notify"

\* unshare, and with a mapping the request byte to the parent.
Unshare ==
    /\ pc["child"] = "unshare"
    /\ \/ Moves("child", "dead") /\ UNCHANGED msgs
       \/ /\ needs_external_userns_mapping /\ ParentHolds
          /\ Moves("child", "ackwait") /\ msgs' = msgs \cup {"request"}
       \/ ~needs_external_userns_mapping
          /\ Moves("child", AfterUserns) /\ UNCHANGED msgs
    /\ Rest

\* The ack byte, then become_userns_root_for_setup.
AwaitAck ==
    /\ pc["child"] = "ackwait"
    /\ \/ /\ "ack" \in msgs /\ msgs' = msgs \ {"ack"}
          /\ \E l \in {AfterUserns, "dead"} : Moves("child", l)
       \/ /\ "ack" \notin msgs /\ ~ParentHolds
          /\ Moves("child", "dead") /\ UNCHANGED msgs
    /\ Rest

\* The PID namespace fork: PID 1 goes straight to the setup gate.
ForkInit ==
    /\ pc["child"] = "fork"
    /\ \/ pc' = [pc EXCEPT !["child"] = "notify", !["init"] = "gate"]
       \/ Moves("child", "dead")
    /\ UNCHANGED msgs /\ Rest

NotifyReady ==
    /\ pc["child"] = "notify"
    /\ \/ /\ ParentHolds
          /\ msgs' = msgs \cup {"ready"}
          /\ Moves("child", IF SplitInit THEN "reap" ELSE "gate")
       \/ ~ParentHolds /\ Moves("child", "dead") /\ UNCHANGED msgs
    /\ Rest

\* wait_for_pid_namespace_child, then exit with its status.
ReapInit ==
    /\ pc["child"] = "reap" /\ ~Alive("init")
    /\ Moves("child", "dead")
    /\ UNCHANGED msgs /\ Rest

\* Nothing past this gate happens before the parent's setup byte.
PassGate ==
    /\ pc[Worker] = "gate"
    /\ \/ /\ "setup" \in msgs /\ msgs' = msgs \ {"setup"}
          /\ Moves(Worker, "setup")
       \/ /\ "setup" \notin msgs /\ ~ParentHolds
          /\ Moves(Worker, "dead") /\ UNCHANGED msgs
    /\ Rest

\* Mounts, root switch, capabilities, limits, seccomp, Landlock; any failure
\* exits.  gVisor hands over to runsc and never looks at the exec FIFO.
DoSetup ==
    /\ pc[Worker] = "setup"
    /\ \E l \in {IF cfg.defer /\ ~cfg.gvisor THEN "fifo" ELSE "exec", "dead"} :
          Moves(Worker, l)
    /\ UNCHANGED msgs /\ Rest

\* Opening the FIFO for writing, after the root switch: the path must still
\* resolve, and the open blocks until there is a reader.  It unblocks every
\* reader that was waiting for a writer.
FifoUnreachable ==
    /\ pc[Worker] = "fifo" /\ ~(fifo = "present" /\ cfg.visible)
    /\ Moves(Worker, "dead")
    /\ UNCHANGED msgs /\ Rest

FifoOpen ==
    /\ pc[Worker] = "fifo" /\ fifo = "present" /\ cfg.visible
    /\ ppc \in {"fifo_open", "fifo_read"} \/ cli \in {"open", "read"}
    /\ pc' = [pc EXCEPT ![Worker] = "fifo_write"]
    /\ ppc' = IF ppc = "fifo_open" THEN "fifo_read" ELSE ppc
    /\ cli' = IF cli = "open" THEN "read" ELSE cli
    /\ UNCHANGED <<cfg, msgs, idmap, target, fifo, file, cg, members, net,
                   policy>>

FifoWrite ==
    /\ pc[Worker] = "fifo_write"
    /\ \/ /\ ppc = "fifo_read" \/ cli = "read"
          /\ msgs' = msgs \cup {"start"} /\ Moves(Worker, "exec")
       \/ /\ ~(ppc = "fifo_read" \/ cli = "read")
          /\ Moves(Worker, "dead") /\ UNCHANGED msgs
    /\ Rest

\* startContainer hooks, terminal, then execve (or run_as_init, or runsc).
Exec ==
    /\ pc[Worker] = "exec"
    /\ \E l \in {"running", "dead"} : Moves(Worker, l)
    /\ UNCHANGED msgs /\ Rest

\* The workload forks a process that outlives it, in the same cgroup.
Daemonize ==
    /\ pc[Worker] = "running" /\ ~SplitInit /\ pc["daemon"] = "unborn"
    /\ pc' = [pc EXCEPT !["daemon"] = "running"]
    /\ members' = IF Worker \in members THEN members \cup {"daemon"} ELSE members
    /\ UNCHANGED <<cfg, ppc, msgs, idmap, target, fifo, file, cg, net,
                   policy, cli>>

WorkloadExits(p) ==
    /\ pc[p] = "running"
    /\ Moves(p, "dead")
    /\ UNCHANGED msgs /\ Rest

ExternalKill(p) ==
    /\ p \in Kills /\ Alive(p)
    /\ Moves(p, "dead")
    /\ UNCHANGED msgs /\ Rest

(***************************************************************************)
(* `nucleus start`: Container::trigger_start, after the command has found  *)
(* the container in status Created.                                        *)
(***************************************************************************)
CliBegin ==
    /\ CliStarts /\ cli = "idle" /\ file = "created"
    /\ cli' = IF fifo = "present" THEN "open" ELSE "failed"
    /\ UNCHANGED <<cfg, ppc, pc, msgs, idmap, target, fifo, file, cg,
                   members, net, policy>>

CliOpenLate ==
    /\ cli = "open" /\ WriterOpen
    /\ cli' = "read"
    /\ UNCHANGED <<cfg, ppc, pc, msgs, idmap, target, fifo, file, cg,
                   members, net, policy>>

\* Unlike start(), an end-of-file is taken for the start byte.
CliRead ==
    /\ cli = "read" /\ ("start" \in msgs \/ ~WriterOpen)
    /\ msgs' = msgs \ {"start"} /\ fifo' = "absent"
    /\ cli' = "resolve"
    /\ UNCHANGED <<cfg, ppc, pc, idmap, target, file, cg, members,
                   net, policy>>

CliResolve ==
    /\ cli = "resolve"
    /\ cli' = IF file = "absent" THEN "failed" ELSE "save"
    /\ UNCHANGED <<cfg, ppc, pc, msgs, idmap, target, fifo, file, cg,
                   members, net, policy>>

CliSave ==
    /\ cli = "save"
    /\ file' = "running"
    /\ cli' = "done"
    /\ UNCHANGED <<cfg, ppc, pc, msgs, idmap, target, fifo, cg, members,
                   net, policy>>

(***************************************************************************)
(* The specification.                                                      *)
(***************************************************************************)
CreateStep ==
    \/ Prepare \/ SetupCgroup \/ Fork
    \/ ServeRequest \/ SendAck \/ WaitReady \/ SaveCreated
    \/ Attach \/ AttachFails \/ SetupBridge \/ ApplyEgress \/ Release
    \/ AbortDrop \/ AbortKill \/ AbortWait

StartStep ==
    \/ RunStart \/ FifoOpenLate \/ FifoRead \/ SaveRunning \/ Probe
    \/ WaitChild \/ TeardownNetwork \/ TeardownCgroup \/ DeleteState
    \/ DropHandleCgroup \/ DropHandleNetwork

ChildStep == Unshare \/ AwaitAck \/ ForkInit \/ NotifyReady \/ ReapInit

WorkerStep ==
    \/ PassGate \/ DoSetup \/ FifoUnreachable \/ FifoOpen \/ FifoWrite \/ Exec

CliStep == CliBegin \/ CliOpenLate \/ CliRead \/ CliResolve \/ CliSave

Environment ==
    \/ HolderChooses \/ Crash \/ Daemonize
    \/ \E p \in Procs : WorkloadExits(p) \/ ExternalKill(p)

Next == CreateStep \/ StartStep \/ ChildStep \/ WorkerStep \/ CliStep \/ Environment

Spec == Init /\ [][Next]_vars

\* Each process of nucleus keeps taking its steps.  Nothing is assumed of the
\* environment: the workload may run for ever, a created container may never
\* be started, nobody need crash or be killed.
Fairness ==
    /\ WF_vars(CreateStep \/ StartStep)
    /\ WF_vars(ChildStep)
    /\ WF_vars(WorkerStep)

FairSpec == Spec /\ Fairness

-----------------------------------------------------------------------------
(***************************************************************************)
(* Properties.                                                             *)
(***************************************************************************)
ParentPcs == {"prepare", "cgroup", "fork", "created", "fifo_open", "fifo_read",
              "save_running", "probe", "wait", "teardown", "cgclean", "delete",
              "drop", "drop_net", "crashed"} \cup CreatePhase \cup Returned

CliPcs == {"idle", "open", "read", "resolve", "save", "done", "failed"}

\* Every variable stays in its domain.
TypeOK ==
    /\ cfg \in Configs
    /\ ppc \in ParentPcs
    /\ pc \in [Procs -> PcValues]
    /\ msgs \subseteq Channels
    /\ idmap \in {"none", "written"}
    /\ target \in {"none", "child", "init"}
    /\ fifo \in {"absent", "present"}
    /\ file \in {"absent", "created", "running", "stopped"}
    /\ cg \in {"none", "up", "removed", "leaked"} /\ members \subseteq Procs
    /\ net \in {"none", "up", "failed", "cleaned"} /\ policy \in {"none", "loaded"}
    /\ cli \in CliPcs

\* No process of the container executes the workload unless everything the
\* parent owes it is in place: its id mappings are written, it is a member of
\* the cgroup if there is one (and in strict modes there is one), and in strict
\* modes its bridge was built and its egress policy loaded.  This is what the
\* order of parent_setup and the setup gate of setup_and_exec are for.
Confined ==
    \A p \in Procs : pc[p] = "running" =>
        /\ needs_external_userns_mapping => idmap = "written"
        /\ cg # "none" => (cg # "removed" /\ p \in members)
        /\ cfg.strict => cg # "none"
        /\ (cfg.strict /\ cfg.net = "bridge") => net \in {"up", "cleaned"}
        /\ (cfg.strict /\ cfg.net = "bridge" /\ cfg.egress) => policy = "loaded"

\* When create_internal reports an error, no process it forked is left: not
\* the child, and not a PID 1 it may have forked before dying, although the
\* parent learns of PID 1 only through the ready pipe.
FailedCreateLeavesNoProcess ==
    ppc \in {"refused", "failed"} => \A p \in Procs : ~Alive(p)

\* When start() returns normally no process of the container survives, given
\* a cgroup, or a PID namespace whose reaper was not killed from outside.
NoOrphanAfterStart ==
    (ppc = "done" /\ (cg = "removed" \/ (SplitInit /\ "child" \notin Kills)))
        => \A p \in Procs : ~Alive(p)

\* A deferred native container does not execute its workload before start()
\* or `nucleus start` has opened the exec FIFO (comment "14c" of
\* setup_and_exec).
NativeWaitsForStart ==
    (cfg.defer /\ ~cfg.gvisor /\ pc[Worker] \in {"exec", "running"})
        => (ppc \notin CreatePhase \cup {"created", "fifo_open"} \/ cli # "idle")

\* create() "leave[s] child blocked on the exec FIFO" (its doc comment): no
\* deferred container, whatever its runtime, executes its workload while it is
\* only created.
ExecWaitsForStart ==
    (cfg.defer /\ ppc = "created" /\ cli = "idle") => pc[Worker] # "running"

\* While PID 1's reaper is not killed from outside, a container with a cgroup
\* (one whose removal did not fail) never loses its network, and its address to
\* somebody else, while its workload executes: the workload is dead before the bridge is dismantled, on
\* the teardown path, on every error return of start() and in aborts.
NetworkOutlivesWorkload ==
    (net = "cleaned" /\ cg \in {"up", "removed"}) => pc[Worker] # "running"

\* create_internal always returns, whatever fails in the child and even if
\* PID 1 is killed at any point.
CreateReturns == (ppc \in CreatePhase) ~> (ppc \notin CreatePhase)

\* If the parent dies before it has released the container, every process of
\* the container notices the closed pipes and exits.
Unreleased == /\ "setup" \notin msgs /\ pc[Worker] \notin SetupPhase \cup {"running"}
              /\ pc["daemon"] = "unborn"

CrashUnblocks ==
    (ppc = "crashed" /\ Unreleased) ~> (\A p \in Procs : ~Alive(p))

\* Once the workload has ended, a supervised run() completes its teardown.
RunReturns ==
    (ppc = "wait" /\ pc[Worker] = "dead") ~> (ppc \in {"done", "crashed"})

\* wait_for_namespace_ready reports "Child {} exited before namespace
\* initialization": a child that died is noticed by the waiting parent.
ChildDeathDetected == (ppc = "ready" /\ pc["child"] = "dead") ~> (ppc # "ready")

\* start() "release[s] the child via the exec FIFO, transition[s] to Running":
\* it does not wait on the FIFO for ever.
StartReturns == (ppc = "fifo_open") ~> (ppc # "fifo_open")

\* The launch implements the abstract life cycle.
Work == CASE pc[Worker] = "running" -> "running"
          [] pc[Worker] = "dead" -> "ended"
          [] OTHER -> "idle"

Abstract == INSTANCE OciLifecycle WITH status <- file, work <- Work
RefinesLifecycle == Abstract!Spec

=============================================================================
