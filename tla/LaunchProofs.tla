---------------------------- MODULE LaunchProofs ----------------------------
(***************************************************************************)
(* Proofs about Launch, for every set of configurations, every choice of   *)
(* processes that may be killed, with or without a crash of the parent.    *)
(* LaunchInv!IInv is inductive (InductiveInit, InductiveStep); the safety  *)
(* theorems are consequences of it.                                        *)
(***************************************************************************)
EXTENDS LaunchInv, TLAPS

\* The derived configuration depends on cfg alone, which no step changes.
LEMMA Frame ==
    ASSUME cfg' = cfg
    PROVE  /\ Worker' = Worker
           /\ SplitInit' = SplitInit
           /\ needs_external_userns_mapping' = needs_external_userns_mapping
BY DEF Worker, SplitInit, needs_external_userns_mapping, UserNsConfig,
       gvisor_needs_precreated_userns

\* The worker is PID 1 exactly when the launch forks a separate one.
LEMMA WorkerIs == Worker \in {"child", "init"} /\ (SplitInit <=> Worker = "init")
BY DEF Worker

\* A launch that has not begun satisfies the invariant.
LEMMA InductiveInit == Init => IInv
<1> SUFFICES ASSUME Init PROVE IInv
  OBVIOUS
<1> USE WorkerIs DEF Init, Procs, CreatePhase, Returned, BeforeFork, AfterRelease,
                     Executing, SetupPhase, Released
<1>1. TypeOK
  BY DEF TypeOK, ParentPcs, PcValues, CliPcs
<1>2. Roles /\ Births /\ Mapping /\ Handshake
  BY DEF Roles, Births, Mapping, Handshake, Mapped
<1>3. Preparation /\ Membership /\ Reaping
  BY DEF Preparation, Membership, Reaping, InCgroup, HasCgroup, Networked
<1>4. Teardown /\ Starting
  BY DEF Teardown, Starting
<1> QED
  BY <1>1, <1>2, <1>3, <1>4 DEF IInv

\* The death of a process, of its own or by a signal, preserves the invariant.
LEMMA DeathStep ==
    ASSUME IInv, NEW p \in Procs, WorkloadExits(p) \/ ExternalKill(p)
    PROVE  IInv'
<1>1. /\ pc' = [pc EXCEPT ![p] = "dead"] /\ pc[p] \notin {"unborn", "dead"}
      /\ p = "child" => pc[p] = "running" \/ "child" \in Kills
      /\ UNCHANGED <<cfg, ppc, msgs, idmap, target, fifo, file, cg, members, net,
                     policy, cli>>
  BY DEF WorkloadExits, ExternalKill, Moves, Rest, Alive
<1>2. pc \in [Procs -> PcValues] /\ p \in {"child", "init", "daemon"}
  BY DEF IInv, TypeOK, Procs
<1>3. TypeOK'
  BY <1>1, <1>2 DEF IInv, TypeOK, PcValues
<1>4. Roles'
  BY <1>1, <1>2, Frame DEF IInv, Roles, Executing, Procs
<1>5. Births' /\ Mapping'
  BY <1>1, <1>2, Frame, WorkerIs
  DEF IInv, Births, Mapping, Mapped, Released, Executing, SetupPhase, Procs, Roles, BeforeFork
<1>6. Preparation'
  BY <1>1, <1>2, Frame, WorkerIs
  DEF IInv, Preparation, Released, InCgroup, HasCgroup, Networked, Executing,
      SetupPhase, Procs
<1>7. Membership'
  BY <1>1, <1>2, Frame, WorkerIs, Zenon DEF IInv, Membership, Alive, Procs, TypeOK
<1>8. Handshake'
  BY <1>1, <1>2, Frame, WorkerIs DEF IInv, Handshake, Alive, Procs
<1>9. Reaping'
  BY <1>1, <1>2, Frame, WorkerIs DEF IInv, Reaping, Roles, Procs, Executing, SetupPhase
<1>10. Teardown' /\ Starting'
  BY <1>1, <1>2, Frame, WorkerIs
  DEF IInv, Teardown, Starting, Released, Executing, SetupPhase, Procs
<1> QED
  BY <1>3, <1>4, <1>5, <1>6, <1>7, <1>8, <1>9, <1>10 DEF IInv

\* A step of `nucleus start`, or a stuttering step, touches nothing that the
\* launch protocol rests on.
LEMMA QuietStep ==
    ASSUME IInv, TypeOK',
           UNCHANGED <<cfg, ppc, pc, idmap, target, cg, members, net, policy>>,
           msgs' \in {msgs, msgs \ {"start"}},
           cli' = cli \/ cli' # "idle"
    PROVE  IInv'
<1> USE Frame DEF IInv
<1>1. (Roles /\ Births /\ Mapping)'
  BY DEF Roles, Births, Mapping, Mapped, Released
<1>2. (Preparation /\ Membership)'
  BY DEF Preparation, Membership, Released, InCgroup, HasCgroup, Networked, Alive
<1>3. (Handshake /\ Reaping /\ Teardown /\ Starting)'
  BY DEF Handshake, Reaping, Teardown, Starting, Released, Alive
<1> QED
  BY <1>1, <1>2, <1>3

\* A step of create_internal preserves the invariant.
LEMMA CreatePreserves == IInv /\ CreateStep => IInv'
<1> SUFFICES ASSUME IInv, CreateStep PROVE IInv'
  OBVIOUS
<1> USE WorkerIs, Frame
    DEF IInv, TypeOK, Roles, Births, Mapping, Preparation, Membership, Handshake,
        Reaping, Teardown, Starting,
        Mapped, InCgroup, HasCgroup, Networked, Released, Alive,
        Procs, PcValues, ParentPcs, CreatePhase, Returned, CliPcs, SetupPhase,
        Executing, BeforeFork, AfterRelease
<1>1. CASE Prepare
  BY <1>1, SMTT(60) DEF Prepare
<1>2. CASE SetupCgroup
  BY <1>2, SMTT(60) DEF SetupCgroup
<1>3. CASE Fork
  BY <1>3, SMTT(60) DEF Fork, DropCgroup, Killed
<1>4. CASE ServeRequest
  BY <1>4, SMTT(60) DEF ServeRequest, RequestHeld
<1>5. CASE SendAck
  <2>1. msgs' \subseteq Channels
    BY <1>5, ZenonT(30) DEF SendAck, Channels
  <2>2. TypeOK'
    BY <1>5, <2>1, SMTT(60) DEF SendAck
  <2>3. (Roles /\ Births /\ Mapping /\ Preparation)'
    BY <1>5, SMTT(60) DEF SendAck
  <2>4. (Membership /\ Handshake /\ Reaping /\ Teardown /\ Starting)'
    BY <1>5, SMTT(60) DEF SendAck
  <2> QED
    BY <2>2, <2>3, <2>4, Zenon
<1>6. CASE WaitReady
  BY <1>6, SMTT(60) DEF WaitReady, ReadyHeld
<1>7. CASE SaveCreated
  BY <1>7, SMTT(60) DEF SaveCreated
<1>8. CASE Attach
  BY <1>8, SMTT(60) DEF Attach
<1>9. CASE AttachFails
  BY <1>9, SMTT(60) DEF AttachFails
<1>10. CASE SetupBridge
  BY <1>10, SMTT(60) DEF SetupBridge
<1>11. CASE ApplyEgress
  BY <1>11, SMTT(60) DEF ApplyEgress
<1>12. CASE Release
  <2>1. msgs' \subseteq Channels
    BY <1>12, ZenonT(30) DEF Release, SetupReadable, Channels
  <2>2. TypeOK'
    BY <1>12, <2>1, SMTT(60) DEF Release, SetupReadable
  <2>3. (Roles /\ Births /\ Mapping /\ Preparation)'
    BY <1>12, SMTT(60) DEF Release, SetupReadable
  <2>4. (Membership /\ Handshake /\ Reaping /\ Teardown /\ Starting)'
    BY <1>12, SMTT(60) DEF Release, SetupReadable
  <2> QED
    BY <2>2, <2>3, <2>4
<1>13. CASE AbortDrop
  <2>1. msgs' \subseteq Channels
    BY <1>13, ZenonT(30) DEF AbortDrop, DropCgroup, DropNetwork, Killed, Channels
  <2>2. TypeOK'
    BY <1>13, <2>1, SMTT(60) DEF AbortDrop, DropCgroup, DropNetwork, Killed
  <2>3. (Roles /\ Births /\ Mapping /\ Preparation)'
    BY <1>13, SMTT(60) DEF AbortDrop, DropCgroup, DropNetwork, Killed
  <2>4. (Membership /\ Handshake /\ Reaping /\ Teardown /\ Starting)'
    BY <1>13, SMTT(60) DEF AbortDrop, DropCgroup, DropNetwork, Killed
  <2> QED
    BY <2>2, <2>3, <2>4
<1>14. CASE AbortKill
  BY <1>14, SMTT(60) DEF AbortKill, Killed
<1>15. CASE AbortWait
  BY <1>15, SMTT(60) DEF AbortWait
<1> HIDE DEF IInv
<1> QED
  BY <1>1, <1>2, <1>3, <1>4, <1>5, <1>6, <1>7, <1>8, <1>9, <1>10, <1>11,
     <1>12, <1>13, <1>14, <1>15, SMTT(60) DEF CreateStep

\* A step of start() preserves it.
LEMMA StartPreserves == IInv /\ StartStep => IInv'
<1> SUFFICES ASSUME IInv, StartStep PROVE IInv'
  OBVIOUS
<1> USE WorkerIs, Frame
    DEF IInv, TypeOK, Roles, Births, Mapping, Preparation, Membership, Handshake,
        Reaping, Teardown, Starting,
        Mapped, InCgroup, HasCgroup, Networked, Released, Alive,
        Procs, PcValues, ParentPcs, CreatePhase, Returned, CliPcs, SetupPhase,
        Executing, BeforeFork, AfterRelease
<1>1. CASE RunStart
  BY <1>1, SMTT(60) DEF RunStart
<1>2. CASE FifoOpenLate
  BY <1>2, SMTT(60) DEF FifoOpenLate, WriterOpen
<1>3. CASE FifoRead
  BY <1>3, SMTT(60) DEF FifoRead, WriterOpen
<1>4. CASE SaveRunning
  BY <1>4, SMTT(60) DEF SaveRunning
<1>5. CASE Probe
  BY <1>5, SMTT(60) DEF Probe
<1>6. CASE WaitChild
  BY <1>6, SMTT(60) DEF WaitChild
<1>7. CASE TeardownNetwork
  BY <1>7, SMTT(60) DEF TeardownNetwork, DropNetwork
<1>8. CASE TeardownCgroup
  BY <1>8, SMTT(60) DEF TeardownCgroup, DropCgroup, Killed
<1>9. CASE DeleteState
  BY <1>9, SMTT(60) DEF DeleteState
<1>10. CASE DropHandleCgroup
  BY <1>10, SMTT(60) DEF DropHandleCgroup, DropCgroup, Killed
<1>11. CASE DropHandleNetwork
  BY <1>11, SMTT(60) DEF DropHandleNetwork, DropNetwork
<1> HIDE DEF IInv
<1> QED
  BY <1>1, <1>2, <1>3, <1>4, <1>5, <1>6, <1>7, <1>8, <1>9, <1>10, <1>11, SMTT(60) DEF StartStep

\* A step of the forked child preserves it.
LEMMA ChildPreserves == IInv /\ ChildStep => IInv'
<1> SUFFICES ASSUME IInv, ChildStep PROVE IInv'
  OBVIOUS
<1> USE WorkerIs, Frame
    DEF IInv, TypeOK, Roles, Births, Mapping, Preparation, Membership, Handshake,
        Reaping, Teardown, Starting,
        Mapped, InCgroup, HasCgroup, Networked, Released, Alive,
        Procs, PcValues, ParentPcs, CreatePhase, Returned, CliPcs, SetupPhase,
        Executing, BeforeFork, AfterRelease
<1>1. CASE Unshare
  <2>1. msgs' \subseteq Channels
    BY <1>1, ZenonT(30) DEF Unshare, Moves, Rest, AfterUserns, ParentHolds, Channels
  <2>2. TypeOK'
    BY <1>1, <2>1, SMTT(60) DEF Unshare, Moves, Rest, AfterUserns, ParentHolds
  <2>3. (Roles /\ Births /\ Mapping /\ Preparation)'
    BY <1>1, SMTT(60) DEF Unshare, Moves, Rest, AfterUserns, ParentHolds
  <2>4. (Membership /\ Handshake /\ Reaping /\ Teardown /\ Starting)'
    BY <1>1, SMTT(60) DEF Unshare, Moves, Rest, AfterUserns, ParentHolds
  <2> QED
    BY <2>2, <2>3, <2>4
<1>2. CASE AwaitAck
  <2>1. msgs' \subseteq Channels
    BY <1>2, ZenonT(30) DEF AwaitAck, Moves, Rest, AfterUserns, ParentHolds, Channels
  <2>2. TypeOK'
    BY <1>2, <2>1, SMTT(60) DEF AwaitAck, Moves, Rest, AfterUserns, ParentHolds
  <2>3. (Roles /\ Births /\ Mapping /\ Preparation)'
    BY <1>2, SMTT(60) DEF AwaitAck, Moves, Rest, AfterUserns, ParentHolds
  <2>4. (Membership /\ Handshake /\ Reaping /\ Teardown /\ Starting)'
    BY <1>2, SMTT(60) DEF AwaitAck, Moves, Rest, AfterUserns, ParentHolds
  <2> QED
    BY <2>2, <2>3, <2>4
<1>3. CASE ForkInit
  <2>1. msgs' \subseteq Channels
    BY <1>3, SMTT(60) DEF ForkInit, Moves, Rest, Channels
  <2>2. TypeOK'
    BY <1>3, <2>1, SMTT(60) DEF ForkInit, Moves, Rest
  <2>3. (Roles /\ Births /\ Mapping /\ Preparation)'
    BY <1>3, SMTT(60) DEF ForkInit, Moves, Rest
  <2>4. (Membership /\ Handshake /\ Reaping /\ Teardown /\ Starting)'
    BY <1>3, SMTT(60) DEF ForkInit, Moves, Rest
  <2> QED
    BY <2>2, <2>3, <2>4
<1>4. CASE NotifyReady
  <2>1. msgs' \subseteq Channels
    BY <1>4, ZenonT(30) DEF NotifyReady, Moves, Rest, ParentHolds, Channels
  <2>2. TypeOK'
    BY <1>4, <2>1, SMTT(60) DEF NotifyReady, Moves, Rest, ParentHolds
  <2>3. (Roles /\ Births /\ Mapping /\ Preparation)'
    BY <1>4, SMTT(60) DEF NotifyReady, Moves, Rest, ParentHolds
  <2>4. (Membership /\ Handshake /\ Reaping /\ Teardown /\ Starting)'
    BY <1>4, SMTT(60) DEF NotifyReady, Moves, Rest, ParentHolds
  <2> QED
    BY <2>2, <2>3, <2>4
<1>5. CASE ReapInit
  BY <1>5, SMTT(60) DEF ReapInit, Moves, Rest
<1> HIDE DEF IInv
<1> QED
  BY <1>1, <1>2, <1>3, <1>4, <1>5, SMTT(60) DEF ChildStep

\* A step of the process that becomes the workload preserves it.
LEMMA WorkerPreserves == IInv /\ WorkerStep => IInv'
<1> SUFFICES ASSUME IInv, WorkerStep PROVE IInv'
  OBVIOUS
<1> USE WorkerIs, Frame
    DEF IInv, TypeOK, Roles, Births, Mapping, Preparation, Membership, Handshake,
        Reaping, Teardown, Starting,
        Mapped, InCgroup, HasCgroup, Networked, Released, Alive,
        Procs, PcValues, ParentPcs, CreatePhase, Returned, CliPcs, SetupPhase,
        Executing, BeforeFork, AfterRelease
<1>1. CASE PassGate
  <2>1. msgs' \subseteq Channels
    BY <1>1, ZenonT(30) DEF PassGate, Moves, Rest, ParentHolds, Channels
  <2>2. TypeOK'
    BY <1>1, <2>1, SMTT(60) DEF PassGate, Moves, Rest, ParentHolds
  <2>3. (Roles /\ Births /\ Mapping /\ Preparation)'
    BY <1>1, SMTT(60) DEF PassGate, Moves, Rest, ParentHolds
  <2>4. (Membership /\ Handshake /\ Reaping /\ Teardown /\ Starting)'
    BY <1>1, SMTT(60) DEF PassGate, Moves, Rest, ParentHolds
  <2> QED
    BY <2>2, <2>3, <2>4
<1>2. CASE DoSetup
  BY <1>2, SMTT(60) DEF DoSetup, Moves, Rest
<1>3. CASE FifoUnreachable
  BY <1>3, SMTT(60) DEF FifoUnreachable, Moves, Rest
<1>4. CASE FifoOpen
  <2>1. msgs' \subseteq Channels
    BY <1>4, SMTT(60) DEF FifoOpen, Channels
  <2>2. TypeOK'
    BY <1>4, <2>1, SMTT(60) DEF FifoOpen
  <2>3. (Roles /\ Births /\ Mapping /\ Preparation)'
    BY <1>4, SMTT(60) DEF FifoOpen
  <2>4. (Membership /\ Handshake /\ Reaping /\ Teardown /\ Starting)'
    BY <1>4, SMTT(60) DEF FifoOpen
  <2> QED
    BY <2>2, <2>3, <2>4
<1>5. CASE FifoWrite
  <2>1. msgs' \subseteq Channels
    BY <1>5, ZenonT(30) DEF FifoWrite, Moves, Rest, Channels
  <2>2. TypeOK'
    BY <1>5, <2>1, SMTT(60) DEF FifoWrite, Moves, Rest
  <2>3. (Roles /\ Births /\ Mapping /\ Preparation)'
    BY <1>5, SMTT(60) DEF FifoWrite, Moves, Rest
  <2>4. (Membership /\ Handshake /\ Reaping /\ Teardown /\ Starting)'
    BY <1>5, SMTT(60) DEF FifoWrite, Moves, Rest
  <2> QED
    BY <2>2, <2>3, <2>4
<1>6. CASE Exec
  BY <1>6, SMTT(60) DEF Exec, Moves, Rest
<1> HIDE DEF IInv
<1> QED
  BY <1>1, <1>2, <1>3, <1>4, <1>5, <1>6, SMTT(60) DEF WorkerStep

\* A step of `nucleus start` preserves it.
LEMMA CliPreserves == IInv /\ CliStep => IInv'
<1> SUFFICES ASSUME IInv, CliStep PROVE IInv'
  OBVIOUS
<1> USE DEF CliBegin, CliOpenLate, CliRead, CliResolve, CliSave
<1>1. /\ UNCHANGED <<cfg, ppc, pc, idmap, target, cg, members, net, policy>>
      /\ msgs' \in {msgs, msgs \ {"start"}}
      /\ cli' # "idle"
  BY DEF CliStep
<1>2. /\ cli' \in CliPcs
      /\ fifo' \in {fifo, "absent"}
      /\ file' \in {file, "running"}
  BY DEF CliStep, CliPcs
<1>3. TypeOK'
  BY <1>1, <1>2 DEF IInv, TypeOK
<1> QED
  BY <1>1, <1>3, QuietStep

\* A step of the environment preserves it.
LEMMA EnvironmentPreserves == IInv /\ Environment => IInv'
<1> SUFFICES ASSUME IInv, Environment PROVE IInv'
  OBVIOUS
<1> USE WorkerIs, Frame
    DEF IInv, TypeOK, Roles, Births, Mapping, Preparation, Membership, Handshake,
        Reaping, Teardown, Starting,
        Mapped, InCgroup, HasCgroup, Networked, Released, Alive,
        Procs, PcValues, ParentPcs, CreatePhase, Returned, CliPcs, SetupPhase,
        Executing, BeforeFork, AfterRelease
<1>1. CASE HolderChooses
  <2>1. TypeOK'
    BY <1>1, SMTT(60) DEF HolderChooses
  <2>2. (Roles /\ Births /\ Mapping /\ Preparation)'
    BY <1>1, SMTT(60) DEF HolderChooses
  <2>3. (Membership /\ Handshake)'
    BY <1>1, SMTT(60) DEF HolderChooses
  <2>4. (Reaping /\ Teardown /\ Starting)'
    BY <1>1, SMTT(60) DEF HolderChooses
  <2> QED
    BY <2>1, <2>2, <2>3, <2>4, Zenon
<1>2. CASE Crash
  <2>1. TypeOK'
    BY <1>2, SMTT(60) DEF Crash
  <2>2. (Roles /\ Births /\ Mapping /\ Preparation)'
    BY <1>2, SMTT(60) DEF Crash
  <2>3. (Membership /\ Handshake)'
    BY <1>2, SMTT(60) DEF Crash
  <2>4. (Reaping /\ Teardown /\ Starting)'
    BY <1>2, SMTT(60) DEF Crash
  <2> QED
    BY <2>1, <2>2, <2>3, <2>4
<1>3. CASE Daemonize
  <2>1. TypeOK'
    BY <1>3, SMTT(60) DEF Daemonize
  <2>2. (Roles /\ Births /\ Mapping /\ Preparation)'
    BY <1>3, SMTT(60) DEF Daemonize
  <2>3. (Membership /\ Handshake)'
    BY <1>3, SMTT(60) DEF Daemonize
  <2>4. (Reaping /\ Teardown /\ Starting)'
    BY <1>3, SMTT(60) DEF Daemonize
  <2> QED
    BY <2>1, <2>2, <2>3, <2>4
<1> HIDE DEF IInv
<1>4. ASSUME NEW p \in Procs, WorkloadExits(p) \/ ExternalKill(p)
      PROVE  IInv'
  BY <1>4, DeathStep
<1> QED
  BY <1>1, <1>2, <1>3, <1>4, SMTT(60) DEF Environment

\* Every step of every actor preserves the invariant.
LEMMA InductiveStep == IInv /\ [Next]_vars => IInv'
<1> SUFFICES ASSUME IInv, [Next]_vars PROVE IInv'
  OBVIOUS
<1>1. CASE UNCHANGED vars
  <2>1. TypeOK'
    BY <1>1 DEF IInv, TypeOK, vars
  <2> QED
    BY <1>1, <2>1, QuietStep DEF vars
<1> QED
  BY <1>1, CreatePreserves, StartPreserves, ChildPreserves, WorkerPreserves,
     CliPreserves, EnvironmentPreserves DEF Next

\* Whatever processes of a launch die and whenever they do, the inductive
\* invariant holds after each step of create_internal, start and setup_and_exec.
THEOREM Invariance == Spec => []IInv
BY InductiveInit, InductiveStep, PTL DEF Spec

\* Every reachable state is well typed.
THEOREM TypeCorrect == Spec => []TypeOK
<1>1. IInv => TypeOK
  BY DEF IInv
<1> QED
  BY <1>1, Invariance, PTL

\* For every configuration: whatever is killed and whenever the parent dies, a
\* process that executes the workload has its id mappings, is in the cgroup and
\* (in strict modes) has a cgroup, its bridge and its egress policy.
THEOREM LaunchConfined == Spec => []Confined
<1>1. IInv => Confined
  <2> SUFFICES ASSUME IInv, NEW p \in Procs, pc[p] = "running"
               PROVE  /\ needs_external_userns_mapping => idmap = "written"
                      /\ cg # "none" => (cg # "removed" /\ p \in members)
                      /\ cfg.strict => cg # "none"
                      /\ (cfg.strict /\ cfg.net = "bridge") => net \in {"up", "cleaned"}
                      /\ (cfg.strict /\ cfg.net = "bridge" /\ cfg.egress)
                             => policy = "loaded"
    BY DEF Confined
  <2>1. p = Worker \/ (p = "daemon" /\ pc["daemon"] # "unborn")
    BY WorkerIs DEF IInv, Roles, Procs
  <2>2. Mapped
    BY <2>1, WorkerIs DEF IInv, Mapping, Executing
  <2>3. InCgroup /\ HasCgroup /\ Networked
    BY <2>1 DEF IInv, Preparation, Released, Executing
  <2>4. cg # "none" => p \in members
    BY <2>1, <2>3 DEF InCgroup, IInv, Membership
  <2>5. cg # "none" => cg # "removed"
    BY <2>4 DEF IInv, TypeOK, Membership, Alive
  <2> QED
    BY <2>2, <2>3, <2>4, <2>5 DEF Mapped, HasCgroup, Networked
<1> QED
  BY <1>1, Invariance, PTL

\* A create_internal that reports an error has left no process behind.
THEOREM FailedCreateClean == Spec => []FailedCreateLeavesNoProcess
<1>1. IInv => FailedCreateLeavesNoProcess
  BY DEF IInv, Births, Handshake, BeforeFork, FailedCreateLeavesNoProcess, Alive
<1> QED
  BY <1>1, Invariance, PTL

\* A start() that returns normally has left no process behind.
THEOREM StartLeavesNoOrphan == Spec => []NoOrphanAfterStart
<1>1. ASSUME IInv, ppc = "done", cg = "removed" \/ (SplitInit /\ "child" \notin Kills),
             NEW p \in Procs, Alive(p)
      PROVE  FALSE
  <2>1. pc["child"] = "dead" /\ target = Worker /\ InCgroup
    BY <1>1 DEF IInv, Reaping, Preparation, AfterRelease
  <2>2. CASE p = "child"
    BY <1>1, <2>1, <2>2 DEF Alive
  <2>3. CASE p = "init"
    BY <1>1, <2>1, <2>3, WorkerIs
    DEF IInv, Roles, Reaping, Membership, InCgroup, Alive
  <2>4. CASE p = "daemon"
    BY <1>1, <2>1, <2>4, WorkerIs DEF IInv, Roles, Membership, Alive
  <2> QED
    BY <1>1, <2>2, <2>3, <2>4 DEF Procs
<1>2. IInv => NoOrphanAfterStart
  BY <1>1 DEF NoOrphanAfterStart
<1> QED
  BY <1>2, Invariance, PTL

\* A deferred native container waits for a reader of its exec FIFO.
THEOREM NativeStartGate == Spec => []NativeWaitsForStart
<1>1. IInv => NativeWaitsForStart
  BY DEF IInv, Starting, NativeWaitsForStart
<1> QED
  BY <1>1, Invariance, PTL

\* Unless the reaper of PID 1 is killed from outside, a container with a cgroup
\* keeps its network as long as its workload executes.
THEOREM NetworkKept ==
    ASSUME "child" \notin Kills
    PROVE  Spec => []NetworkOutlivesWorkload
<1>1. IInv => NetworkOutlivesWorkload
  BY DEF IInv, Teardown, Released, Executing, NetworkOutlivesWorkload
<1> QED
  BY <1>1, Invariance, PTL

---------------------------------------------------------------------------
(* A launch implements the abstract life cycle OciLifecycle when nobody    *)
(* kills the reaper of PID 1 and nobody issues `nucleus start` beside the  *)
(* supervisor.  LaunchInv!Recorded links the supervisor's location to the  *)
(* recorded status.                                                        *)
LEMMA RecordedInit == Init => Recorded
BY WorkerIs DEF Init, Recorded, Released, Procs, Executing, SetupPhase

\* A supervisor that has seen the child die knows that the worker is dead.
LEMMA WorkerReaped ==
    ASSUME IInv, "child" \notin Kills, ppc \in {"wait", "teardown", "cgclean", "delete"},
           ~Alive("child")
    PROVE  pc[Worker] = "dead"
BY WorkerIs, Zenon DEF IInv, Births, Reaping, AfterRelease, Alive

\* What a step does to the state file and the worker: it is one of the
\* writers of the record, or leaves the record alone.
LEMMA RecordedStep ==
    ASSUME IInv, Recorded, "child" \notin Kills, ~CliStarts, [Next]_vars
    PROVE  Recorded'
<1>0. /\ pc \in [Procs -> PcValues]
      /\ ppc \in BeforeFork \cup CreatePhase \cup {"failed"} => ~Released
  BY DEF IInv, TypeOK, Births
<1> USE <1>0, WorkerIs, Frame
    DEF Recorded, Released, Executing, SetupPhase, Procs, Alive, BeforeFork, CreatePhase
<1>1. CASE Prepare
  BY <1>1 DEF Prepare
<1>2. CASE SetupCgroup
  BY <1>2 DEF SetupCgroup
<1>3. CASE Fork
  BY <1>3 DEF Fork, IInv, Births, DropCgroup, Killed
<1>4. CASE ServeRequest
  BY <1>4 DEF ServeRequest
<1>5. CASE SendAck
  BY <1>5 DEF SendAck
<1>6. CASE WaitReady
  BY <1>6 DEF WaitReady
<1>7. CASE SaveCreated
  BY <1>7 DEF SaveCreated
<1>8. CASE Attach
  BY <1>8 DEF Attach
<1>9. CASE AttachFails
  BY <1>9 DEF AttachFails
<1>10. CASE SetupBridge
  BY <1>10 DEF SetupBridge
<1>11. CASE ApplyEgress
  BY <1>11 DEF ApplyEgress
<1>12. CASE Release
  BY <1>12 DEF Release
<1>13. CASE AbortDrop
  BY <1>13 DEF AbortDrop, DropNetwork, DropCgroup, Killed
<1>14. CASE AbortKill
  BY <1>14 DEF AbortKill, Killed
<1>15. CASE AbortWait
  BY <1>15 DEF AbortWait
<1>16. CASE RunStart
  BY <1>16 DEF RunStart
<1>17. CASE FifoOpenLate
  BY <1>17 DEF FifoOpenLate
<1>18. CASE FifoRead
  BY <1>18 DEF FifoRead
<1>19. CASE SaveRunning
  BY <1>19 DEF SaveRunning
<1>20. CASE Probe
  BY <1>20 DEF Probe
<1>21. CASE WaitChild
  BY <1>21, WorkerReaped DEF WaitChild
<1>22. CASE TeardownNetwork
  BY <1>22, WorkerReaped DEF TeardownNetwork, DropNetwork, IInv, Reaping
<1>23. CASE TeardownCgroup
  BY <1>23, WorkerReaped DEF TeardownCgroup, DropCgroup, Killed, IInv, Reaping
<1>24. CASE DeleteState
  BY <1>24, WorkerReaped DEF DeleteState, IInv, Reaping
<1>25. CASE DropHandleCgroup
  BY <1>25 DEF DropHandleCgroup, DropCgroup, Killed
<1>26. CASE DropHandleNetwork
  BY <1>26 DEF DropHandleNetwork, DropNetwork
<1>27. CASE Unshare
  BY <1>27 DEF Unshare, Moves, Rest, AfterUserns
<1>28. CASE AwaitAck
  BY <1>28 DEF AwaitAck, Moves, Rest, AfterUserns
<1>29. CASE ForkInit
  BY <1>29 DEF ForkInit, IInv, Roles, Moves, Rest
<1>30. CASE NotifyReady
  BY <1>30 DEF NotifyReady, Moves, Rest
<1>31. CASE ReapInit
  BY <1>31 DEF ReapInit, Moves, Rest
<1>32. CASE PassGate
  BY <1>32 DEF PassGate, Moves, Rest
<1>33. CASE DoSetup
  BY <1>33 DEF DoSetup, Moves, Rest
<1>34. CASE FifoUnreachable
  BY <1>34 DEF FifoUnreachable, Moves, Rest
<1>35. CASE FifoOpen
  BY <1>35 DEF FifoOpen, Moves, Rest
<1>36. CASE FifoWrite
  BY <1>36 DEF FifoWrite, Moves, Rest
<1>37. CASE Exec
  BY <1>37 DEF Exec, Moves, Rest
<1>38. CASE HolderChooses
  BY <1>38 DEF HolderChooses
<1>39. CASE Crash
  BY <1>39 DEF Crash
<1>40. CASE Daemonize
  BY <1>40 DEF Daemonize
<1>41. CASE CliStep
  BY <1>41 DEF CliStep, CliBegin, CliOpenLate, CliRead, CliResolve, CliSave
<1>42. ASSUME NEW p \in Procs, WorkloadExits(p) \/ ExternalKill(p)
      PROVE  Recorded'
  BY <1>42 DEF WorkloadExits, ExternalKill, Moves, Rest
<1>43. CASE UNCHANGED vars
  BY <1>43 DEF vars
<1> HIDE DEF Recorded
<1> QED
  BY <1>1, <1>2, <1>3, <1>4, <1>5, <1>6, <1>7, <1>8, <1>9, <1>10, <1>11,
     <1>12, <1>13, <1>14, <1>15, <1>16, <1>17, <1>18, <1>19, <1>20, <1>21,
     <1>22, <1>23, <1>24, <1>25, <1>26, <1>27, <1>28, <1>29, <1>30, <1>31,
     <1>32, <1>33, <1>34, <1>35, <1>36, <1>37, <1>38, <1>39, <1>40, <1>41,
     <1>42, <1>43
     DEF Next, CreateStep, StartStep, ChildStep, WorkerStep, Environment

\* Before the launch there is no record and no workload, as OciLifecycle begins.
LEMMA RefinementInit == Init => Abstract!Init
BY WorkerIs, SMTT(20) DEF Init, Abstract!Init, Work, Procs

\* Each step of a launch is a step of the recorded life cycle, or leaves it alone.
LEMMA RefinementStep ==
    ASSUME IInv, Recorded, "child" \notin Kills, ~CliStarts, [Next]_vars
    PROVE  [Abstract!Next]_(Abstract!vars)
<1>0. /\ pc \in [Procs -> PcValues]
      /\ ppc \in BeforeFork \cup CreatePhase \cup {"failed"} => ~Released
  BY DEF IInv, TypeOK, Births
<1> USE <1>0, WorkerIs, Frame
    DEF Abstract!Next, Abstract!vars, Abstract!Record, Abstract!Begin, Abstract!End,
        Abstract!MarkRunning, Abstract!MarkStopped, Abstract!Forget, Work,
        Recorded, Released, Executing, SetupPhase, Procs, Alive, BeforeFork, CreatePhase
<1>1. CASE Prepare
  BY <1>1 DEF Prepare
<1>2. CASE SetupCgroup
  BY <1>2 DEF SetupCgroup
<1>3. CASE Fork
  BY <1>3 DEF Fork, IInv, Births, DropCgroup, Killed
<1>4. CASE ServeRequest
  BY <1>4 DEF ServeRequest
<1>5. CASE SendAck
  BY <1>5 DEF SendAck
<1>6. CASE WaitReady
  BY <1>6 DEF WaitReady
<1>7. CASE SaveCreated
  BY <1>7 DEF SaveCreated
<1>8. CASE Attach
  BY <1>8 DEF Attach
<1>9. CASE AttachFails
  BY <1>9 DEF AttachFails
<1>10. CASE SetupBridge
  BY <1>10 DEF SetupBridge
<1>11. CASE ApplyEgress
  BY <1>11 DEF ApplyEgress
<1>12. CASE Release
  BY <1>12 DEF Release
<1>13. CASE AbortDrop
  BY <1>13 DEF AbortDrop, DropNetwork, DropCgroup, Killed
<1>14. CASE AbortKill
  BY <1>14 DEF AbortKill, Killed
<1>15. CASE AbortWait
  BY <1>15 DEF AbortWait
<1>16. CASE RunStart
  BY <1>16 DEF RunStart
<1>17. CASE FifoOpenLate
  BY <1>17 DEF FifoOpenLate
<1>18. CASE FifoRead
  BY <1>18 DEF FifoRead
<1>19. CASE SaveRunning
  BY <1>19 DEF SaveRunning
<1>20. CASE Probe
  BY <1>20 DEF Probe
<1>21. CASE WaitChild
  BY <1>21, WorkerReaped DEF WaitChild
<1>22. CASE TeardownNetwork
  BY <1>22, WorkerReaped DEF TeardownNetwork, DropNetwork, IInv, Reaping
<1>23. CASE TeardownCgroup
  BY <1>23, WorkerReaped DEF TeardownCgroup, DropCgroup, Killed, IInv, Reaping
<1>24. CASE DeleteState
  BY <1>24, WorkerReaped DEF DeleteState, IInv, Reaping
<1>25. CASE DropHandleCgroup
  BY <1>25 DEF DropHandleCgroup, DropCgroup, Killed
<1>26. CASE DropHandleNetwork
  BY <1>26 DEF DropHandleNetwork, DropNetwork
<1>27. CASE Unshare
  BY <1>27 DEF Unshare, Moves, Rest, AfterUserns
<1>28. CASE AwaitAck
  BY <1>28 DEF AwaitAck, Moves, Rest, AfterUserns
<1>29. CASE ForkInit
  BY <1>29 DEF ForkInit, IInv, Roles, Moves, Rest
<1>30. CASE NotifyReady
  BY <1>30 DEF NotifyReady, Moves, Rest
<1>31. CASE ReapInit
  BY <1>31 DEF ReapInit, Moves, Rest
<1>32. CASE PassGate
  BY <1>32 DEF PassGate, Moves, Rest
<1>33. CASE DoSetup
  BY <1>33 DEF DoSetup, Moves, Rest
<1>34. CASE FifoUnreachable
  BY <1>34 DEF FifoUnreachable, Moves, Rest
<1>35. CASE FifoOpen
  BY <1>35 DEF FifoOpen, Moves, Rest
<1>36. CASE FifoWrite
  BY <1>36 DEF FifoWrite, Moves, Rest
<1>37. CASE Exec
  BY <1>37 DEF Exec, Moves, Rest
<1>38. CASE HolderChooses
  BY <1>38 DEF HolderChooses
<1>39. CASE Crash
  BY <1>39 DEF Crash
<1>40. CASE Daemonize
  BY <1>40 DEF Daemonize
<1>41. CASE CliStep
  BY <1>41 DEF CliStep, CliBegin, CliOpenLate, CliRead, CliResolve, CliSave
<1>42. ASSUME NEW p \in Procs, WorkloadExits(p) \/ ExternalKill(p)
      PROVE  [Abstract!Next]_(Abstract!vars)
  BY <1>42 DEF WorkloadExits, ExternalKill, Moves, Rest
<1>43. CASE UNCHANGED vars
  BY <1>43 DEF vars
<1> QED
  BY Zenon, <1>1, <1>2, <1>3, <1>4, <1>5, <1>6, <1>7, <1>8, <1>9, <1>10, <1>11,
     <1>12, <1>13, <1>14, <1>15, <1>16, <1>17, <1>18, <1>19, <1>20, <1>21,
     <1>22, <1>23, <1>24, <1>25, <1>26, <1>27, <1>28, <1>29, <1>30, <1>31,
     <1>32, <1>33, <1>34, <1>35, <1>36, <1>37, <1>38, <1>39, <1>40, <1>41,
     <1>42, <1>43
     DEF Next, CreateStep, StartStep, ChildStep, WorkerStep, Environment

\* The record keeps step with create and start: no state file until create has
\* saved one, Created until start saves Running, and a released workload that is
\* alive always has a record, which says Created or Running.
THEOREM RecordFollows ==
    ASSUME "child" \notin Kills, ~CliStarts
    PROVE  Spec => []Recorded
<1>1. IInv /\ Recorded /\ [Next]_vars => Recorded'
  BY RecordedStep
<1> QED
  BY <1>1, RecordedInit, Invariance, PTL DEF Spec

\* Without an external kill of the reaper and without `nucleus start`, every
\* launch, whatever fails in it and even if the supervisor dies, shows readers
\* of the state directory a behaviour of OciLifecycle: the status only moves
\* forward, and never says "stopped" or disappears before the workload ended.
THEOREM LaunchRefines ==
    ASSUME "child" \notin Kills, ~CliStarts
    PROVE  Spec => RefinesLifecycle
<1>1. IInv /\ Recorded /\ [Next]_vars => [Abstract!Next]_(Abstract!vars)
  BY RefinementStep
<1> QED
  BY <1>1, RecordFollows, RefinementInit, Invariance, PTL DEF Spec, RefinesLifecycle, Abstract!Spec
=============================================================================
