------------------------------ MODULE Registry ------------------------------
(***************************************************************************)
(* The state store and the commands that act on what it says: supervisors  *)
(* of several containers record, update and delete one state file each,    *)
(* while `nucleus stop`, `kill` and `delete` and cleanup_stale read a      *)
(* record, check that its process still runs, and act on the PID some time *)
(* later.  PIDs are reused, by containers and by the rest of the host.     *)
(*                                                                         *)
(* A supervisor's launch is reduced to what the store sees of it; Launch   *)
(* has the detail.  A record's PID and start ticks never change after the  *)
(* first save, so they are kept once, as the supervisor's copy (wpid,      *)
(* wticks), and file holds only the status.                                *)
(***************************************************************************)
EXTENDS Naturals

CONSTANTS
    Ids,        \* container ids; each is launched at most once
    NameOf,     \* the name each is given
    Split,      \* the ids whose worker is reaped by the PID namespace's parent
    Pids,       \* the PIDs of the host
    NoPid,      \* not a PID
    Cmds,       \* command processes; each runs one command
    MaxForks,   \* bound on the number of processes ever forked
    EagerReuse  \* a PID may be reused before its launch has recorded it

ASSUME RegistryAssumption ==
    /\ Split \subseteq Ids
    /\ NoPid \notin Pids
    /\ MaxForks \in Nat
    /\ EagerReuse \in BOOLEAN
    /\ {"other", "none"} \cap Ids = {}

VARIABLES
    sup,     \* where each container's supervisor is
    wpid,    \* state.pid, NoPid before the worker is known
    wticks,  \* state.start_ticks, 0 when they could not be read
    file,    \* the status in each state file
    pst,     \* the process table: "free", "live" or "zombie"
    pof,     \* the container each process belongs to, or "other"
    ptick,   \* its start time
    clock,   \* the last start time given out
    cpc,     \* where each command is
    op,      \* which command it is
    cid,     \* the container its reference was resolved to
    snap,    \* the status in the record it was resolved to
    seen     \* (history) the clock when its last is_running answered true

procs == <<pst, pof, ptick, clock>>
store == <<sup, wpid, wticks, file>>
commands == <<cpc, op, cid, snap, seen>>
vars == <<sup, wpid, wticks, file, pst, pof, ptick, clock, cpc, op, cid, snap, seen>>

SupLocations == {"idle", "checked", "born", "created", "running", "stopped",
                 "done", "refused", "failed", "crashed"}
Ops == {"stop", "kill", "delete", "force", "cleanup"}
CmdLocations == {"idle", "stop", "probe", "term", "poll", "sigkill", "kcheck",
                 "signal", "rcheck", "remove", "ok", "err"}

\* A command is about to call kill(pid, signal).
AboutToSignal == {"term", "sigkill", "signal"}

TypeOK ==
    /\ sup \in [Ids -> SupLocations]
    /\ wpid \in [Ids -> Pids \cup {NoPid}]
    /\ wticks \in [Ids -> Nat]
    /\ file \in [Ids -> {"absent", "created", "running", "stopped"}]
    /\ pst \in [Pids -> {"free", "live", "zombie"}]
    /\ pof \in [Pids -> Ids \cup {"other"}]
    /\ ptick \in [Pids -> Nat]
    /\ clock \in Nat
    /\ cpc \in [Cmds -> CmdLocations]
    /\ op \in [Cmds -> Ops \cup {"none"}]
    /\ cid \in [Cmds -> Ids \cup {"none"}]
    /\ snap \in [Cmds -> {"absent", "created", "running", "stopped"}]
    /\ seen \in [Cmds -> Nat]

Init ==
    /\ sup = [c \in Ids |-> "idle"]
    /\ wpid = [c \in Ids |-> NoPid]
    /\ wticks = [c \in Ids |-> 0]
    /\ file = [c \in Ids |-> "absent"]
    /\ pst = [p \in Pids |-> "free"]
    /\ pof = [p \in Pids |-> "other"]
    /\ ptick = [p \in Pids |-> 0]
    /\ clock = 0
    /\ cpc = [m \in Cmds |-> "idle"]
    /\ op = [m \in Cmds |-> "none"]
    /\ cid = [m \in Cmds |-> "none"]
    /\ snap = [m \in Cmds |-> "absent"]
    /\ seen = [m \in Cmds |-> 0]

\* The worker of container c is at PID wpid[c], dead or alive.
Present(c) == /\ wpid[c] \in Pids
              /\ pst[wpid[c]] # "free" /\ pof[wpid[c]] = c

Live(c) == Present(c) /\ pst[wpid[c]] = "live"

\* fork: a free PID and a new start time.
Spawn(p, owner) ==
    /\ clock < MaxForks /\ pst[p] = "free"
    /\ EagerReuse \/ \A c \in Ids : sup[c] = "born" => wpid[c] # p
    /\ clock' = clock + 1
    /\ pst' = [pst EXCEPT ![p] = "live"]
    /\ pof' = [pof EXCEPT ![p] = owner]
    /\ ptick' = [ptick EXCEPT ![p] = clock + 1]

\* SIGKILL: a container's worker stays a zombie until it is reaped, any other
\* process is gone (its parent is not part of the model).
Killed(p) ==
    [pst EXCEPT ![p] = IF @ = "live" THEN IF pof[p] = "other" THEN "free" ELSE "zombie"
                       ELSE @]

(***************************************************************************)
(* Faulty variants, for checking that the properties can fail.             *)
(***************************************************************************)
\* Trust the PID alone (NoStaleSignal).
RunningByPid(m) ==
    snap[m] # "stopped" /\ wpid[cid[m]] \in Pids /\ pst[wpid[cid[m]]] # "free"

\* Report success at the deadline instead of escalating (StopMeansDead).
GiveUp(m) ==
    /\ cpc[m] = "poll"
    /\ cpc' = [cpc EXCEPT ![m] = IF op[m] = "force" THEN "remove" ELSE "ok"]
    /\ UNCHANGED <<op, cid, snap, seen, procs, store>>

\* Delete the record whether or not the container runs (RemovedOnlyDead).
RemoveUnchecked(m) ==
    /\ cpc[m] = "rcheck"
    /\ cpc' = [cpc EXCEPT ![m] = "remove"]
    /\ UNCHANGED <<op, cid, snap, seen, procs, store>>

\* Poll without a deadline (CommandsReturn).
NeverTimesOut(m) == FALSE /\ UNCHANGED vars

\* Record a container without its start ticks (RegistryInv).
SavesNoTicks(c) ==
    /\ sup[c] = "born"
    /\ file' = [file EXCEPT ![c] = "created"]
    /\ sup' = [sup EXCEPT ![c] = "created"]
    /\ UNCHANGED <<wpid, wticks, procs, commands>>

\* Save a status that readers do not know (TypeOK).
SavesExited(c) ==
    /\ sup[c] = "created"
    /\ file' = [file EXCEPT ![c] = "exited"]
    /\ sup' = [sup EXCEPT ![c] = "running"]
    /\ UNCHANGED <<wpid, wticks, procs, commands>>

(***************************************************************************)
(* The supervisor.                                                         *)
(***************************************************************************)
\* create_internal: refuse a name that some record already has.
CheckName(c) ==
    /\ sup[c] = "idle"
    /\ LET taken == \E d \in Ids : file[d] # "absent" /\ NameOf[d] = NameOf[c]
       IN sup' = [sup EXCEPT ![c] = IF taken THEN "refused" ELSE "checked"]
    /\ UNCHANGED <<wpid, wticks, file, procs, commands>>

\* The fork of the worker, up to the message that reports its PID.
ForkWorker(c, p) ==
    /\ sup[c] = "checked"
    /\ Spawn(p, c)
    /\ wpid' = [wpid EXCEPT ![c] = p]
    /\ sup' = [sup EXCEPT ![c] = "born"]
    /\ UNCHANGED <<wticks, file, commands>>

\* ContainerState::new reads the start ticks of whatever has the PID now, then
\* save_state.
SaveCreated(c) ==
    /\ sup[c] = "born"
    /\ wticks' = [wticks EXCEPT ![c] = IF pst[wpid[c]] = "free" THEN 0 ELSE ptick[wpid[c]]]
    /\ file' = [file EXCEPT ![c] = "created"]
    /\ sup' = [sup EXCEPT ![c] = "created"]
    /\ UNCHANGED <<wpid, procs, commands>>

\* A failed create: SIGKILL to the PID, whoever has it, then waitpid of the
\* forked child.  A state file that was already written stays.
AbortCreate(c) ==
    /\ sup[c] \in {"born", "created"}
    /\ pst' = [Killed(wpid[c]) EXCEPT
                  ![wpid[c]] = IF c \notin Split /\ Present(c) THEN "free" ELSE @]
    /\ sup' = [sup EXCEPT ![c] = "failed"]
    /\ UNCHANGED <<wpid, wticks, file, pof, ptick, clock, commands>>

\* start: save_state(Running).
SaveRunning(c) ==
    /\ sup[c] = "created"
    /\ file' = [file EXCEPT ![c] = "running"]
    /\ sup' = [sup EXCEPT ![c] = "running"]
    /\ UNCHANGED <<wpid, wticks, procs, commands>>

\* start returns an error: the handle's cgroup, if there is one, takes the
\* worker with it.
AbortStart(c) ==
    /\ sup[c] \in {"created", "running"}
    /\ \/ Live(c) /\ pst' = [pst EXCEPT ![wpid[c]] = "zombie"]
       \/ pst' = pst
    /\ sup' = [sup EXCEPT ![c] = "failed"]
    /\ UNCHANGED <<wpid, wticks, file, pof, ptick, clock, commands>>

\* start: waitpid, which reaps the worker unless the PID namespace's parent
\* has done so, then save_state(Stopped), whose failure is only logged.
WaitChild(c) ==
    /\ sup[c] = "running"
    /\ ~Live(c) /\ (c \in Split => ~Present(c))
    /\ pst' = IF Present(c) THEN [pst EXCEPT ![wpid[c]] = "free"] ELSE pst
    /\ \E s \in {file[c], "stopped"} : file' = [file EXCEPT ![c] = s]
    /\ sup' = [sup EXCEPT ![c] = "stopped"]
    /\ UNCHANGED <<wpid, wticks, pof, ptick, clock, commands>>

\* start: delete_state, whose failure is only logged.
DeleteState(c) ==
    /\ sup[c] = "stopped"
    /\ \E s \in {file[c], "absent"} : file' = [file EXCEPT ![c] = s]
    /\ sup' = [sup EXCEPT ![c] = "done"]
    /\ UNCHANGED <<wpid, wticks, procs, commands>>

Supervisor(c) ==
    \/ CheckName(c) \/ (\E p \in Pids : ForkWorker(c, p)) \/ SaveCreated(c)
    \/ AbortCreate(c) \/ SaveRunning(c) \/ AbortStart(c) \/ WaitChild(c)
    \/ DeleteState(c)

(***************************************************************************)
(* The commands.                                                           *)
(***************************************************************************)
\* ContainerState::is_running on the record the command holds.
is_running(m) ==
    LET p == wpid[cid[m]]
    IN /\ snap[m] # "stopped"
       /\ p \in Pids /\ pst[p] # "free"
       /\ wticks[cid[m]] # 0 /\ ptick[p] = wticks[cid[m]]

Exists(m) == pst[wpid[cid[m]]] # "free"

\* Where a stop that succeeded continues: in remove, when it was called there.
Stopped(m) == IF op[m] = "force" THEN "remove" ELSE "ok"

\* resolve_container (for cleanup_stale, one record of list_states) and
\* ensure_container_access, which may refuse.
Resolve(m, o, c) ==
    /\ cpc[m] = "idle" /\ file[c] # "absent"
    /\ op' = [op EXCEPT ![m] = o]
    /\ cid' = [cid EXCEPT ![m] = c]
    /\ snap' = [snap EXCEPT ![m] = file[c]]
    /\ \E l \in {"err", CASE o = "stop" -> "stop" [] o = "kill" -> "kcheck"
                          [] OTHER -> "rcheck"} :
          cpc' = [cpc EXCEPT ![m] = l]
    /\ UNCHANGED <<seen, procs, store>>

\* One is_running check: go to yes or to no.
Checks(m, from, yes, no) ==
    /\ cpc[m] = from
    /\ cpc' = [cpc EXCEPT ![m] = IF is_running(m) THEN yes ELSE no]
    /\ seen' = [seen EXCEPT ![m] = IF is_running(m) THEN clock ELSE @]
    /\ UNCHANGED <<op, cid, snap, procs, store>>

\* stop: already stopped?
StopCheck(m) == Checks(m, "stop", "probe", Stopped(m))

\* stop: kill(pid, None) sees a process that has exited and been reaped.
Probe(m) ==
    /\ cpc[m] = "probe"
    /\ cpc' = [cpc EXCEPT ![m] = IF Exists(m) THEN "term" ELSE Stopped(m)]
    /\ UNCHANGED <<op, cid, snap, seen, procs, store>>

\* kill(pid, sig): ESRCH goes to gone.  A stranger's process may be out of
\* reach (EPERM); a process that gets the signal may die of it, and does when
\* the signal is SIGKILL.
Signals(m, from, fatal, next, gone) ==
    LET p == wpid[cid[m]]
    IN /\ cpc[m] = from
       /\ \/ /\ ~Exists(m) /\ pst' = pst
             /\ cpc' = [cpc EXCEPT ![m] = gone]
          \/ /\ Exists(m) /\ pof[p] = "other" /\ pst' = pst
             /\ cpc' = [cpc EXCEPT ![m] = "err"]
          \/ /\ Exists(m)
             /\ pst' = Killed(p) \/ (~fatal /\ pst' = pst)
             /\ cpc' = [cpc EXCEPT ![m] = next]
       /\ UNCHANGED <<pof, ptick, clock, op, cid, snap, seen, store>>

Term(m) == Signals(m, "term", FALSE, "poll", Stopped(m))

\* stop: one turn of the polling loop.
Poll(m) == Checks(m, "poll", "poll", Stopped(m))

\* stop: the deadline has passed (at once when the timeout is 0).
Timeout(m) ==
    /\ cpc[m] = "poll"
    /\ cpc' = [cpc EXCEPT ![m] = "sigkill"]
    /\ UNCHANGED <<op, cid, snap, seen, procs, store>>

SigKill(m) == Signals(m, "sigkill", TRUE, Stopped(m), Stopped(m))

\* kill_container.
KillCheck(m) == Checks(m, "kcheck", "signal", "err")
KillSignal(m) == Signals(m, "signal", FALSE, "ok", "err")

\* remove: a running container is stopped first, with --force, or refused;
\* cleanup_stale passes over it.
RemoveCheck(m) ==
    Checks(m, "rcheck", CASE op[m] = "force" -> "stop" [] OTHER -> "err", "remove")

\* delete_state, after removing the cgroup and the overlay directories.  Its
\* failure is reported.
Remove(m) ==
    /\ cpc[m] = "remove"
    /\ \/ /\ file' = [file EXCEPT ![cid[m]] = "absent"]
          /\ cpc' = [cpc EXCEPT ![m] = "ok"]
       \/ /\ file' = file
          /\ cpc' = [cpc EXCEPT ![m] = "err"]
    /\ UNCHANGED <<op, cid, snap, seen, procs, sup, wpid, wticks>>

Command(m) ==
    \/ StopCheck(m) \/ Probe(m) \/ Term(m) \/ Poll(m) \/ Timeout(m) \/ SigKill(m)
    \/ KillCheck(m) \/ KillSignal(m) \/ RemoveCheck(m) \/ Remove(m)

(***************************************************************************)
(* The rest of the host.                                                   *)
(***************************************************************************)
\* The workload ends by itself.
WorkerExits(c) ==
    /\ Live(c)
    /\ pst' = [pst EXCEPT ![wpid[c]] = "zombie"]
    /\ UNCHANGED <<pof, ptick, clock, store, commands>>

\* The PID namespace's parent, or init for an orphan, reaps the worker.
Reap(c) ==
    /\ Present(c) /\ ~Live(c)
    /\ c \in Split \/ sup[c] \in {"failed", "crashed"}
    /\ pst' = [pst EXCEPT ![wpid[c]] = "free"]
    /\ UNCHANGED <<pof, ptick, clock, store, commands>>

\* A supervisor is killed at any point; its worker lives on.
Crash(c) ==
    /\ sup[c] \in {"checked", "born", "created", "running", "stopped"}
    /\ sup' = [sup EXCEPT ![c] = "crashed"]
    /\ UNCHANGED <<wpid, wticks, file, procs, commands>>

\* Other processes come and go, and take PIDs that are free.
OtherForks(p) ==
    /\ Spawn(p, "other")
    /\ UNCHANGED <<store, commands>>

OtherExits(p) ==
    /\ pst[p] = "live" /\ pof[p] = "other"
    /\ pst' = [pst EXCEPT ![p] = "free"]
    /\ UNCHANGED <<pof, ptick, clock, store, commands>>

Next ==
    \/ \E c \in Ids : Supervisor(c) \/ WorkerExits(c) \/ Reap(c) \/ Crash(c)
    \/ \E p \in Pids : OtherForks(p) \/ OtherExits(p)
    \/ \E m \in Cmds : (\E o \in Ops, c \in Ids : Resolve(m, o, c)) \/ Command(m)

Spec == Init /\ [][Next]_vars

\* A command that has been issued keeps running; its deadline passes.
FairSpec == Spec /\ \A m \in Cmds : WF_vars(Command(m)) /\ WF_vars(Timeout(m))

(***************************************************************************)
(* Properties.                                                             *)
(***************************************************************************)
\* No signal from a stale record: when stop or kill_container calls kill, the
\* PID belongs to the container's own worker or to a process born after the
\* command last saw is_running answer true.  A record whose process was
\* already gone never leads to a signal, however its PID was reused; what
\* remains is the gap between one check and the kill that follows it.
NoStaleSignal ==
    \A m \in Cmds : cpc[m] \in AboutToSignal /\ Exists(m) =>
        LET p == wpid[cid[m]] IN pof[p] = cid[m] \/ ptick[p] > seen[m]

\* What a successful command promises: after stop, delete or delete --force
\* has returned Ok, or cleanup_stale has removed the record, the container's
\* worker is dead, whatever its supervisor did in the meantime.
StopMeansDead ==
    \A m \in Cmds : cpc[m] \in {"remove", "ok"} /\ op[m] # "kill" => ~Live(cid[m])

\* A container that was recorded and has no record any more has no live
\* worker: neither the commands nor the supervisor forget a running container.
RemovedOnlyDead ==
    \A c \in Ids : wticks[c] # 0 /\ file[c] = "absent" => ~Live(c)

\* Every stop, kill or delete that was issued returns: no state of the
\* container, of its PID or of its supervisor makes a command wait for ever.
CommandsReturn ==
    \A m \in Cmds : cpc[m] # "idle" ~> cpc[m] \in {"ok", "err"}

\* The comment in stop (lifecycle.rs:37-39): the probe protects against PID
\* recycling, so that SIGTERM goes to the container's process.
StopHitsOwnProcess ==
    \A m \in Cmds : cpc[m] = "term" /\ Exists(m) => pof[wpid[cid[m]]] = cid[m]

\* The comment in create_internal (runtime.rs:669): names are unique among
\* running containers.
UniqueNames ==
    \A c, d \in Ids : c # d /\ NameOf[c] = NameOf[d] =>
        ~(sup[c] = "running" /\ Live(c) /\ sup[d] = "running" /\ Live(d))

(***************************************************************************)
(* The inductive invariant behind the safety properties.                   *)
(***************************************************************************)
\* The ticks that a record of c carries are those of its worker.
Known(c) == Present(c) => wticks[c] = ptick[wpid[c]]

\* Start times grow, so a process never has the ticks of an earlier one.
Times ==
    /\ \A p \in Pids : ptick[p] <= clock /\ (pst[p] # "free" => ptick[p] # 0)
    /\ \A c \in Ids : wticks[c] <= clock
    /\ \A m \in Cmds : seen[m] <= clock

\* Each container has at most one worker, and none before it is forked.
Workers ==
    /\ \A p \in Pids : pof[p] # "other" => wpid[pof[p]] = p
    /\ \A c \in Ids :
          /\ sup[c] \in {"idle", "checked", "refused"} => wpid[c] = NoPid
          /\ sup[c] \in {"born", "created", "running", "stopped", "done"} => wpid[c] \in Pids
          /\ file[c] # "absent" \/ wticks[c] # 0 => wpid[c] \in Pids
          /\ sup[c] \in {"idle", "checked", "born"} => file[c] = "absent" /\ wticks[c] = 0
          /\ sup[c] = "born" /\ ~EagerReuse => pof[wpid[c]] = c

\* Equal ticks mean the same process (when the ticks were read in time), and a
\* recorded worker's ticks are known.
Identity ==
    \A c \in Ids :
        /\ wticks[c] # 0 /\ ptick[wpid[c]] = wticks[c] /\ ~EagerReuse
              => pof[wpid[c]] = c
        /\ (sup[c] \in {"created", "running", "stopped", "done"}
              \/ file[c] # "absent" \/ wticks[c] # 0) => Known(c)

\* What a supervisor has established before it records an end.
Ended == \A c \in Ids : sup[c] \in {"stopped", "done"} \/ file[c] = "stopped" => ~Live(c)

\* What a command may rely on at each of its steps.
CommandOK(m) ==
    cpc[m] # "idle" =>
        /\ cid[m] \in Ids /\ wpid[cid[m]] \in Pids /\ Known(cid[m])
        /\ snap[m] = "stopped" => ~Live(cid[m])
        /\ cpc[m] \in {"kcheck", "signal"} => op[m] = "kill"
        /\ cpc[m] = "remove" \/ (cpc[m] = "ok" /\ op[m] # "kill") => ~Live(cid[m])
        /\ cpc[m] \in {"probe", "term", "poll", "sigkill", "signal"} /\ ~EagerReuse =>
              pof[wpid[cid[m]]] = cid[m] \/ ptick[wpid[cid[m]]] > seen[m]

\* The inductive invariant: it implies NoStaleSignal, StopMeansDead and
\* RemovedOnlyDead.
RegistryInv ==
    /\ TypeOK /\ Times /\ Workers /\ Identity /\ Ended /\ RemovedOnlyDead
    /\ \A m \in Cmds : CommandOK(m)
=============================================================================
