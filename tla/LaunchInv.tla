------------------------------ MODULE LaunchInv ------------------------------
(***************************************************************************)
(* The inductive invariant behind the safety properties of Launch: what    *)
(* the order of the parent's steps, the pipes and the setup gate guarantee *)
(* at every point of the launch.                                           *)
(***************************************************************************)
EXTENDS Launch

BeforeFork == {"prepare", "cgroup", "fork", "refused"}

\* The parent's locations from a successful create_internal on.
AfterRelease == {"created", "fifo_open", "fifo_read", "save_running", "probe",
                 "wait", "teardown", "cgclean", "delete", "done", "drop",
                 "drop_net", "err"}

Executing == SetupPhase \cup {"running"}

\* The worker was let through the setup gate, or is about to be.
Released == "setup" \in msgs \/ pc[Worker] \in Executing

\* What the parent must have done before it releases the worker.
InCgroup == cg # "none" => Worker \in members
HasCgroup == cfg.strict => cg # "none"
Networked == (cfg.strict /\ cfg.net = "bridge") =>
                 (net \in {"up", "cleaned"} /\ (cfg.egress => policy = "loaded"))
Mapped == needs_external_userns_mapping => idmap = "written"

\* Which process may be where.
Roles ==
    /\ IF SplitInit
       THEN /\ pc["child"] \in {"unborn", "unshare", "ackwait", "fork", "notify",
                                "reap", "dead"}
            /\ pc["init"] \in {"unborn", "gate", "dead"} \cup Executing
            /\ pc["child"] \in {"notify", "reap"} => pc["init"] # "unborn"
            /\ pc["daemon"] = "unborn"
       ELSE /\ pc["child"] \notin {"fork", "reap"}
            /\ pc["init"] = "unborn"
            /\ pc["daemon"] \in {"unborn", "running", "dead"}
    /\ pc["child"] \in {"unborn", "unshare", "ackwait", "fork"} => pc["init"] = "unborn"

\* Before the fork there is no process, and before the release none is past
\* the gate.
Births ==
    /\ ppc \in BeforeFork =>
          msgs = {} /\ target = "none" /\ \A p \in Procs : pc[p] = "unborn"
    /\ ppc \in CreatePhase \cup BeforeFork \cup {"failed"} =>
          ~Released /\ pc["daemon"] = "unborn"
    /\ "ready" \in msgs \/ target # "none" => pc[Worker] # "unborn"

\* The mappings are written before the child goes past the ack.
Mapping ==
    /\ "ack" \in msgs \/ ppc = "ack" => idmap = "written"
    /\ pc["child"] \in {"fork", "notify", "reap", "gate"} \cup Executing => Mapped
    /\ pc["init"] # "unborn" => Mapped
    /\ pc["daemon"] # "unborn" => Mapped

\* What the parent has prepared at each of its steps, and that a released
\* worker (whose parent may have died since) finds all of it.
Preparation ==
    /\ ppc \notin {"prepare", "cgroup", "refused", "crashed"} => HasCgroup
    /\ ppc \in {"bridge", "egress", "release"} \cup AfterRelease => InCgroup
    /\ ppc \in {"prepare", "cgroup"} => cg = "none"
    /\ cg \in {"removed", "leaked"} => ppc \in {"refused", "abort_kill", "abort_wait", "failed",
                                "delete", "done", "drop_net", "err", "crashed"}
    /\ ppc = "egress" => net = "up"
    /\ ppc = "release" => Networked
    /\ Released \/ pc["daemon"] # "unborn" => InCgroup /\ HasCgroup /\ Networked

\* Membership follows births, and a removed cgroup has no live member.
Membership ==
    /\ members \subseteq {Worker, "daemon"}
    /\ \A p \in members : pc[p] # "unborn"
    /\ pc["daemon"] = "running" /\ cg # "none" => "daemon" \in members
    /\ cg = "removed" => \A p \in members : ~Alive(p)

\* The user namespace handshake, and what an abort without a known target
\* finds: no PID 1, and a child that is dead or waits for an ack that never
\* comes.
Handshake ==
    /\ ppc \in {"request", "ack", "ready"} => target = "none"
    /\ ppc \in {"request", "ack"} =>
          /\ needs_external_userns_mapping
          /\ "ack" \notin msgs
          /\ pc["child"] \in {"unshare", "ackwait", "dead"}
          /\ pc["init"] = "unborn"
    /\ ppc \in {"request", "ack"} /\ ("request" \in msgs \/ ppc = "ack") => pc["child"] # "unshare"
    /\ ppc = "ready" /\ "ready" \notin msgs =>
          pc["child"] \in {"unshare", "ackwait", "fork", "notify", "dead"}
    /\ ppc \in {"abort", "abort_kill"} /\ target = "none" =>
          /\ ~Alive("init")
          /\ pc["child"] = "dead" \/ (pc["child"] = "ackwait" /\ "ack" \notin msgs)
    /\ ppc \in {"abort_wait", "failed"} => \A p \in Procs : ~Alive(p)

\* The reaper does not die before PID 1 unless it is killed from outside.
Reaping ==
    /\ ppc \in {"teardown", "cgclean", "delete", "done"} => pc["child"] = "dead"
    /\ ("ready" \in msgs \/ target # "none") /\ SplitInit => pc["child"] \in {"reap", "dead"}
    /\ ("ready" \in msgs \/ target # "none") /\ SplitInit /\ "child" \notin Kills
           /\ ppc \notin {"abort_wait", "failed", "crashed"} =>
          (pc["child"] = "dead" => pc["init"] = "dead")
    /\ ppc \in {"save", "attach", "bridge", "egress", "release"} \cup AfterRelease
           => target = Worker
    /\ target \in {"none", Worker}

\* Once the network of a container with a cgroup is dismantled its worker is
\* dead, or was never let through the gate.
Teardown ==
    /\ net = "cleaned" => ppc \in {"abort_kill", "abort_wait", "failed", "cgclean",
                                 "delete", "done", "err", "crashed"}
    /\ ppc = "drop_net" => cg # "up"
    /\ (net = "cleaned" /\ cg \in {"up", "removed"} /\ "child" \notin Kills)
           => (pc[Worker] = "dead" \/ ~Released)

\* A deferred native worker is past the FIFO only if somebody opened it.
Starting ==
    (cfg.defer /\ ~cfg.gvisor /\ pc[Worker] \in {"fifo_write", "exec", "running"})
        => (ppc \notin CreatePhase \cup {"created", "fifo_open"} \/ cli # "idle")

\* The inductive invariant: it holds initially, every step preserves it, and
\* it implies Confined, FailedCreateLeavesNoProcess, NoOrphanAfterStart,
\* NativeWaitsForStart and (without an external kill of the reaper)
\* NetworkOutlivesWorkload.
IInv ==
    /\ TypeOK /\ Roles /\ Births /\ Mapping /\ Preparation
    /\ Membership /\ Handshake /\ Reaping /\ Teardown /\ Starting

\* What the state file says at each step of a launch that nobody restarts from
\* outside and whose reaper is not killed: the link between the parent's
\* location and the recorded status that the refinement rests on.
Recorded ==
    /\ cli = "idle"
    /\ ppc \in {"prepare", "cgroup", "fork", "request", "ack", "ready", "save",
               "refused"} => file = "absent"
    /\ ppc \in {"attach", "bridge", "egress", "release", "created", "fifo_open",
               "fifo_read", "save_running"} => file = "created"
    /\ ppc \in {"probe", "wait"} => file = "running"
    /\ ppc \in {"teardown", "cgclean", "delete"} => file \in {"running", "stopped"}
    /\ Released => pc[Worker] = "dead" \/ file \in {"created", "running"}
=============================================================================
