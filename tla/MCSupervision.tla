--------------------------- MODULE MCSupervision ---------------------------
(***************************************************************************)
(* What a supervisor runs beside its container and takes down after it,    *)
(* instantiated for TLC.  As in MCComponents a behaviour moves one of the  *)
(* components, `part'.                                                     *)
(***************************************************************************)
EXTENDS Cgroup, Helpers, Supervise, SeccompLog, Bridge, TLC

CONSTANT Parts   \* the components that this run moves

VARIABLE part    \* the one that moves in this behaviour

MemoryAndPids == {{"memory.max", "memory.high", "pids.max"}}

SmallSupervisions ==
    {v \in [uid : {0}, rootless : {TRUE}, pidfd : BOOLEAN, console : BOOLEAN, readiness : BOOLEAN,
            health : BOOLEAN] : v.pidfd \/ (v.health /\ ~(v.console /\ v.readiness))}
ServiceAccount ==
    [uid : {1}, rootless : {FALSE}, pidfd : {TRUE}, console : {FALSE}, readiness : {FALSE},
     health : {TRUE}]

SmallHook ==
    [binary : {"fine", "busy"}, does : {"succeeds", "fails", "hangs", "lingers"}]
    \cup [binary : {"writable"}, does : {"succeeds"}]
SmallHooks == {<<a, b>> : a \in SmallHook, b \in SmallHook}

LogTarget == <<1>>
SmallPids == {<<1>>, <<1, 2>>}

---------------------------------------------------------------------------

\* What the parts that do not move hold.
IdleLimits == CHOOSE l \in Requests : TRUE
IdleSupervision == CHOOSE v \in Supervisions : TRUE
IdleHooks == CHOOSE l \in HookLists : TRUE

\* Of two instances that only swap the containers, one is enough.
AnyContainer == CHOOSE c \in Containers : TRUE

Init ==
    /\ part \in Parts
    /\ IF part = "cgroup" THEN TRUE ELSE kernel = {} /\ strict = FALSE /\ wanted = IdleLimits
    /\ CgroupInit
    /\ IF part = "slirp" THEN TRUE ELSE forwards = 0
    /\ SlirpInit
    /\ IF part = "supervise" THEN TRUE ELSE sup = IdleSupervision
    /\ SuperviseInit
    /\ IF part = "hooks" THEN TRUE ELSE hooks = IdleHooks /\ fatal = FALSE
    /\ HooksInit
    /\ IF part = "log" THEN TRUE ELSE log_mode = "deny" /\ kmsg = <<>>
    /\ SeccompLogInit
    /\ IF part = "bridge" THEN TRUE ELSE isolated = [c \in Containers |-> FALSE]
    /\ BridgeInit /\ (isolated[AnyContainer] => \A c \in Containers : isolated[c])

Next ==
    /\ UNCHANGED part
    /\ IF part = "cgroup" THEN CgroupNext ELSE UNCHANGED cgroupVars
    /\ IF part = "slirp" THEN SlirpNext ELSE UNCHANGED slirpVars
    /\ IF part = "supervise" THEN SuperviseNext ELSE UNCHANGED superviseVars
    /\ IF part = "hooks" THEN HooksNext ELSE UNCHANGED hookVars
    /\ IF part = "log" THEN SeccompLogNext ELSE UNCHANGED logVars
    /\ IF part = "bridge" THEN BridgeNext ELSE UNCHANGED bridgeVars

supervisionVars ==
    <<part, cgroupVars, slirpVars, superviseVars, hookVars, logVars, bridgeVars>>

\* The supervisor's own threads, and what they may rely on, are scheduled; nothing
\* is assumed of the workload, of slirp4netns, of a hook or of an operator.
\* While a terminal is closed a read of it returns, and the child's first process
\* reaps what has ended.
Fairness ==
    /\ WF_cgroupVars(part = "cgroup" /\ Handle)
    /\ WF_slirpVars(part = "slirp" /\ Supervising)
    /\ WF_hookVars(part = "hooks" /\ HookRunner)
    /\ WF_logVars(part = "log" /\ ReaderStep)
    /\ WF_superviseVars(part = "supervise" /\ SuperviseStep)
    /\ WF_superviseVars(part = "supervise" /\ CheckerThread)
    /\ WF_superviseVars(part = "supervise" /\ TakeSignal)
    /\ WF_superviseVars(part = "supervise" /\ EnterAndRun)
    /\ WF_superviseVars(part = "supervise" /\ RelayEnds)

Spec == Init /\ [][Next]_supervisionVars
FairSpec == Spec /\ Fairness

---------------------------------------------------------------------------
(* What the runs check: the guarantees of the component that moves, taken  *)
(* together.                                                               *)

\* What the supervisor waits for at the end of a container ends: the take-down of
\* the cgroup, the stop of slirp4netns, the joins of its threads, the hooks and the
\* seccomp log reader, each whatever the processes it deals with do.
SupervisorEnds == HandleCloses /\ StopEnds /\ SupervisionEnds /\ HooksEnd /\ ReaderStops
=============================================================================
