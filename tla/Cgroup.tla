------------------------------- MODULE Cgroup -------------------------------
(***************************************************************************)
(* A container's cgroup v2 directory (resources/cgroup.rs): created,       *)
(* limited, entered by one process, and taken down by `cleanup` or `Drop`, *)
(* which freeze it, kill what is in it, wait a bounded number of times for *)
(* it to drain, remove the directory, and thaw it when that failed.        *)
(*                                                                         *)
(* create_internal owns the handle and keeps it until the workload has     *)
(* ended.  The processes in the cgroup go on running, forking and exiting  *)
(* beside the handle's steps.                                              *)
(***************************************************************************)
EXTENDS Naturals, Sequences, Functions

CONSTANTS
    Procs,     \* the processes that may ever exist
    Workload,  \* the one create_internal forks and attaches
    MaxTries,  \* CGROUP_CLEANUP_RETRIES
    Requests   \* the sets of limits a launch may ask for

\* The workload is a process.  One attempt would not do: the freeze takes hold
\* only between two (CGROUP_CLEANUP_RETRIES is 50).
ASSUME CgroupAssumption ==
    /\ Workload \in Procs
    /\ MaxTries \in Nat /\ MaxTries > 1
    /\ Requests \subseteq SUBSET {"memory.max", "memory.high", "memory.swap.max",
                                  "cpu.max", "cpu.weight", "pids.max", "io.max"}

VARIABLES
    kernel,    \* which of cgroup.kill and cgroup.freeze this kernel has
    strict,    \* service_mode.requires_cgroup_enforcement
    wanted,    \* the limits asked for
    hpc,       \* where the handle is
    hstate,    \* its CgroupState
    pass,      \* the take-down it is in: "cleanup" or "drop"
    froze,     \* whether this take-down froze the cgroup
    tries,     \* attempts left in wait_until_empty
    listed_pids, \* the processes read_pids returned last
    cgdir,     \* the directory: "absent" or "present"
    ctl,       \* the control files written in it
    freezer,   \* "thawed", "freezing" once cgroup.freeze is written, or "frozen"
    errs,      \* (history) the operations on the handle that failed
    life,      \* each process
    inside     \* the processes that are in the cgroup

setting == <<kernel, strict, wanted>>
takedown == <<pass, froze, tries, listed_pids>>
directory == <<cgdir, ctl, freezer>>
processes == <<life, inside>>
cgroupVars == <<setting, hpc, hstate, takedown, directory, errs, processes>>

MemoryFiles == {"memory.max", "memory.high", "memory.swap.max"}
LimitFiles == MemoryFiles \cup {"cpu.max", "cpu.weight", "pids.max", "io.max"}

\* set_limits: the files written for a set of requested limits, in order.
Writes(limits) ==
    LET file(cond, name) == IF cond THEN <<name>> ELSE <<>>
        wants(name) == file(name \in limits, name)
    IN wants("memory.max") \o wants("memory.high") \o wants("memory.swap.max")
          \o file(limits \cap MemoryFiles # {}, "memory.oom.group")
          \o wants("cpu.max") \o wants("cpu.weight") \o wants("pids.max") \o wants("io.max")

\* CgroupState::can_transition_to, without the stuttering pairs.
Transitions ==
    {<<"nonexistent", "created">>, <<"created", "configured">>,
     <<"configured", "attached">>, <<"attached", "monitoring">>,
     <<"monitoring", "removed">>, <<"created", "removed">>,
     <<"configured", "removed">>, <<"attached", "removed">>}

CgroupTypeOK ==
    /\ kernel \subseteq {"kill", "freeze"} /\ strict \in BOOLEAN /\ wanted \subseteq LimitFiles
    /\ hpc \in {"create", "limits", "attach", "held", "freeze", "kill", "scan", "signal",
                "drain", "remove", "thaw", "closed"}
    /\ hstate \in {"nonexistent", "created", "configured", "attached", "removed"}
    /\ pass \in {"none", "cleanup", "drop"} /\ froze \in BOOLEAN
    /\ tries \in 0..MaxTries /\ listed_pids \subseteq Procs
    /\ cgdir \in {"absent", "present"} /\ freezer \in {"thawed", "freezing", "frozen"}
    /\ ctl \subseteq LimitFiles \cup {"memory.oom.group"}
    /\ life \in [Procs -> {"unborn", "held", "live", "killed", "dead"}]
    /\ inside \subseteq Procs

CgroupInit ==
    /\ kernel \in SUBSET {"kill", "freeze"} /\ strict \in BOOLEAN /\ wanted \in Requests
    /\ hpc = "create" /\ hstate = "nonexistent"
    /\ pass = "none" /\ froze = FALSE /\ tries = MaxTries /\ listed_pids = {}
    /\ cgdir = "absent" /\ ctl = {} /\ freezer = "thawed" /\ errs = {}
    /\ life = [p \in Procs |-> IF p = Workload THEN "held" ELSE "unborn"]
    /\ inside = {}

\* In the cgroup and not yet gone: what cgroup.procs lists and `populated` counts.
Members == {p \in Procs : p \in inside /\ life[p] \in {"held", "live", "killed"}}

SigKilled(S) ==
    [p \in Procs |-> IF p \in S /\ life[p] \in {"held", "live"} THEN "killed" ELSE life[p]]

Goto(l) == hpc' = l
Failed(what) == errs' = errs \cup {what}

(***************************************************************************)
(* Faulty variants, for checking that the properties can fail.             *)
(***************************************************************************)
\* Carry on with whatever limits could be written (StrictIsLimited).
LimitsBestEffort ==
    /\ hpc = "limits" /\ <<hstate, "configured">> \in Transitions
    /\ hstate' = "configured"
    /\ \E n \in 0..Len(Writes(wanted)) :
          ctl' = Range(SubSeq(Writes(wanted), 1, n))
    /\ Goto("attach")
    /\ UNCHANGED <<errs, cgdir, freezer, setting, takedown, processes>>

\* Report the cgroup as frozen without freezing it (DrainReachesAll).
FreezeLater ==
    /\ hpc = "freeze"
    /\ tries' = MaxTries
    /\ froze' = FALSE
    /\ Goto("kill")
    /\ UNCHANGED <<pass, listed_pids, errs, hstate, setting, directory, processes>>

\* Leave a cgroup that could not be removed frozen (NotLeftFrozen).
NoThaw ==
    /\ hpc = "thaw"
    /\ Goto(IF pass = "cleanup" THEN "freeze" ELSE "closed")
    /\ pass' = "drop"
    /\ UNCHANGED <<froze, tries, listed_pids, errs, hstate, setting, directory, processes>>

\* Wait for the cgroup to drain without counting the attempts (HandleCloses).
DrainForever ==
    /\ hpc = "drain"
    /\ Goto(IF Members = {} THEN "remove" ELSE "scan")
    /\ UNCHANGED <<takedown, errs, hstate, setting, directory, processes>>

(***************************************************************************)
(* Building the cgroup.                                                    *)
(***************************************************************************)
\* Cgroup::create: validate the name and the root, make the directory, validate
\* it.  When the last check fails the directory has been made and no handle
\* owns it.
CreateCgroup ==
    /\ hpc = "create" /\ <<hstate, "created">> \in Transitions
    /\ \/ /\ cgdir' = "present"
          /\ hstate' = "created"
          /\ Goto("limits") /\ UNCHANGED errs
       \/ /\ cgdir' \in {"absent", "present"}
          /\ Failed("create") /\ Goto("closed") /\ UNCHANGED hstate
    /\ UNCHANGED <<takedown, ctl, freezer, setting, processes>>

\* set_limits: the state changes first, then the files are written in order
\* until one fails.  create_internal cleans up after a failure.
SetLimits ==
    /\ hpc = "limits" /\ <<hstate, "configured">> \in Transitions
    /\ hstate' = "configured"
    /\ \E n \in 0..Len(Writes(wanted)) :
          /\ ctl' = Range(SubSeq(Writes(wanted), 1, n))
          /\ IF n = Len(Writes(wanted))
             THEN Goto("attach") /\ UNCHANGED <<pass, errs>>
             ELSE /\ Failed("limits") /\ Goto("freeze")
                  /\ pass' = "cleanup"
    /\ UNCHANGED <<froze, tries, listed_pids, cgdir, freezer, setting, processes>>

\* attach_process writes the PID to cgroup.procs.  A failure drops the
\* handle with the rest of create_internal.
AttachProcess ==
    /\ hpc = "attach" /\ <<hstate, "attached">> \in Transitions
    /\ hstate' = "attached"
    /\ \/ /\ life[Workload] \in {"held", "live"}
          /\ inside' = inside \cup {Workload}
          /\ Goto("held") /\ UNCHANGED <<pass, errs>>
       \/ /\ Failed("attach") /\ Goto("freeze")
          /\ pass' = "drop"
          /\ UNCHANGED inside
    /\ UNCHANGED <<froze, tries, listed_pids, life, setting, directory>>

(***************************************************************************)
(* Taking it down: cleanup(self), and Drop, which also runs after a        *)
(* cleanup that failed because the handle is then not in state Removed.    *)
(***************************************************************************)
\* set_frozen(true), which does not wait until everything is frozen.  cleanup
\* returns the error of a failed write, drop goes on.
FreezeCgroup ==
    /\ hpc = "freeze"
    /\ tries' = MaxTries
    /\ \/ /\ "freeze" \notin kernel
          /\ froze' = FALSE
          /\ Goto("kill") /\ UNCHANGED <<pass, freezer, errs>>
       \/ /\ "freeze" \in kernel
          /\ froze' = TRUE
          /\ freezer' = "freezing"
          /\ Goto("kill") /\ UNCHANGED <<pass, errs>>
       \/ /\ "freeze" \in kernel
          /\ froze' = FALSE
          /\ Failed("freeze")
          /\ Goto(IF pass = "cleanup" THEN "freeze" ELSE "kill")
          /\ pass' = "drop"
          /\ UNCHANGED freezer
    /\ UNCHANGED <<listed_pids, hstate, ctl, cgdir, setting, processes>>

\* Where a failed step of the take-down continues.  cleanup stops there; drop
\* ignores it, and still waits when it was kill_all_processes that failed.
AfterError == IF pass = "cleanup" THEN "thaw"
                 ELSE IF tries = MaxTries THEN "drain" ELSE "remove"

\* kill_all_processes: cgroup.kill, where the kernel has it.
KillAllProcesses ==
    /\ hpc = "kill"
    /\ \/ /\ life' = IF "kill" \in kernel THEN SigKilled(Members) ELSE life
          /\ Goto("scan") /\ UNCHANGED errs
       \/ /\ "kill" \in kernel /\ Failed("kill")
          /\ Goto(AfterError) /\ UNCHANGED life
    /\ UNCHANGED <<takedown, hstate, inside, setting, directory>>

\* kill_visible_processes, first half: read_pids.
ReadPids ==
    /\ hpc = "scan"
    /\ \/ /\ listed_pids' = Members
          /\ Goto("signal") /\ UNCHANGED errs
       \/ Failed("read") /\ Goto(AfterError) /\ UNCHANGED listed_pids
    /\ UNCHANGED <<pass, froze, tries, hstate, setting, directory, processes>>

\* Second half: SIGKILL to every process that was listed, until one of them
\* cannot be signalled.  A process that has gone (ESRCH) is passed over.
SignalListed ==
    /\ hpc = "signal"
    /\ \/ life' = SigKilled(listed_pids) /\ Goto("drain") /\ UNCHANGED errs
       \/ \E S \in SUBSET listed_pids :
             /\ S # listed_pids /\ life' = SigKilled(S)
             /\ Failed("signal") /\ Goto(AfterError)
    /\ listed_pids' = {}
    /\ UNCHANGED <<pass, froze, tries, hstate, inside, setting, directory>>

\* wait_until_empty: one attempt.  The last one does not signal again, and
\* its failure is the timeout.  Between two attempts it sleeps, long enough for
\* the kernel to stop the forks that were under way at the freeze.
WaitUntilEmpty ==
    /\ hpc = "drain"
    /\ tries' = tries - 1
    /\ \/ /\ Goto(CASE Members = {} -> "remove"
                       [] Members # {} /\ tries > 1 -> "scan"
                       [] OTHER -> IF pass = "cleanup" THEN "thaw" ELSE "remove")
          /\ freezer' = IF freezer = "freezing" THEN "frozen" ELSE freezer
          /\ UNCHANGED errs
       \/ /\ Failed("read") /\ UNCHANGED freezer
          /\ Goto(IF pass = "cleanup" THEN "thaw" ELSE "remove")
    /\ UNCHANGED <<pass, froze, listed_pids, hstate, ctl, cgdir, setting, processes>>

\* remove_dir, which the kernel refuses while the cgroup is populated.
RemoveDir ==
    /\ hpc = "remove"
    /\ \/ /\ Members = {}
          /\ cgdir' = "absent"
          /\ freezer' = "thawed"
          /\ ctl' = {}
          /\ hstate' = IF pass = "cleanup" THEN "removed" ELSE hstate
          /\ Goto("closed") /\ UNCHANGED errs
       \/ /\ IF Members = {} THEN Failed("remove") ELSE UNCHANGED errs
          /\ Goto("thaw") /\ UNCHANGED <<hstate, directory>>
    /\ UNCHANGED <<takedown, setting, processes>>

\* set_frozen(false) after a failure, when this take-down froze the cgroup.  A
\* cleanup that failed is followed by the drop of its handle.
ThawCgroup ==
    /\ hpc = "thaw"
    /\ IF froze
       THEN \/ freezer' = "thawed" /\ UNCHANGED errs
            \/ Failed("thaw") /\ UNCHANGED freezer
       ELSE UNCHANGED <<freezer, errs>>
    /\ Goto(IF pass = "cleanup" THEN "freeze" ELSE "closed")
    /\ pass' = "drop"
    /\ UNCHANGED <<froze, tries, listed_pids, hstate, ctl, cgdir, setting, processes>>

TakeDown == \/ FreezeCgroup \/ KillAllProcesses \/ ReadPids \/ SignalListed \/ WaitUntilEmpty
            \/ RemoveDir \/ ThawCgroup

Handle == CreateCgroup \/ SetLimits \/ AttachProcess \/ TakeDown

(***************************************************************************)
(* create_internal and start, as far as they use the handle.               *)
(***************************************************************************)
\* The workload passes the setup gate: with its cgroup, or without one when the
\* cgroup could not be set up and the service mode does not insist on it.
ReleaseWorkload ==
    /\ life[Workload] = "held"
    /\ \/ hpc = "held"
       \/ hpc = "closed" /\ ~strict /\ hstate # "attached"
    /\ life' = [life EXCEPT ![Workload] = "live"]
    /\ UNCHANGED <<hpc, takedown, hstate, errs, inside, setting, directory>>

\* create_internal fails; the workload is killed, if it was forked at all.
RefuseWorkload ==
    /\ life[Workload] = "held" /\ hpc = "closed"
    /\ strict \/ hstate = "attached"
    /\ life' = [life EXCEPT ![Workload] = "dead"]
    /\ UNCHANGED <<hpc, takedown, hstate, errs, inside, setting, directory>>

\* start: the workload was reaped, cgroup.cleanup().
EndLaunch ==
    /\ hpc = "held" /\ life[Workload] = "dead"
    /\ Goto("freeze") /\ pass' = "cleanup"
    /\ UNCHANGED <<froze, tries, listed_pids, hstate, errs, setting, directory, processes>>

\* A later step of create_internal fails, or start gives up before the workload
\* has ended: the handle is dropped.
AbandonLaunch ==
    /\ hpc = "held"
    /\ Goto("freeze") /\ pass' = "drop"
    /\ UNCHANGED <<froze, tries, listed_pids, hstate, errs, setting, directory, processes>>

LaunchCaller == ReleaseWorkload \/ RefuseWorkload \/ EndLaunch \/ AbandonLaunch

(***************************************************************************)
(* The processes.                                                          *)
(***************************************************************************)
Scheduled(p) == p \in inside => freezer # "frozen"

\* A running process forks; the child starts in its cgroup.
ForkProc(p, q) ==
    /\ life[p] = "live" /\ Scheduled(p)
    /\ life[q] = "unborn"
    /\ life' = [life EXCEPT ![q] = "live"]
    /\ inside' = IF p \in inside THEN inside \cup {q} ELSE inside
    /\ UNCHANGED <<hpc, takedown, hstate, errs, setting, directory>>

\* A running process exits; one with a pending SIGKILL dies, frozen or not, but
\* nobody knows when.
ExitProc(p) ==
    /\ \/ life[p] = "live" /\ Scheduled(p) /\ life' = [life EXCEPT ![p] = "dead"]
       \/ life[p] = "killed" /\ life' = [life EXCEPT ![p] = "dead"]
    /\ UNCHANGED <<hpc, takedown, hstate, errs, inside, setting, directory>>

Processes == \/ \E p, q \in Procs : ForkProc(p, q)
             \/ \E p \in Procs : ExitProc(p)

CgroupNext == Handle \/ LaunchCaller \/ Processes

CgroupSpec == CgroupInit /\ [][CgroupNext]_cgroupVars

(***************************************************************************)
(* Properties.                                                             *)
(***************************************************************************)
\* In a service mode that requires cgroup enforcement no process of the workload
\* ever runs outside the cgroup, or before every requested limit (and
\* memory.oom.group, when memory is limited) has been written, whichever write
\* of Cgroup::create, set_limits or attach_process fails.
StrictIsLimited ==
    strict => \A p \in Procs :
        life[p] = "live" =>
            /\ p \in inside
            /\ Range(Writes(wanted)) \subseteq ctl

\* A take-down that gives up after its bounded number of attempts has at least
\* sent SIGKILL to everything in the cgroup, including what was forked meanwhile:
\* cgroup.kill is atomic, and once the freeze has taken hold no process can fork
\* between read_pids and kill.  Holds when no operation failed and the kernel has either file.
DrainReachesAll ==
    hpc = "closed" /\ errs = {} /\ kernel # {} =>
        \A p \in Members : life[p] = "killed"

\* A cgroup that cleanup and Drop could not remove is not left frozen, with its
\* processes stopped for ever, unless writing cgroup.freeze failed.
NotLeftFrozen ==
    hpc = "closed" /\ freezer # "thawed" => "thaw" \in errs

\* What the handle's place says of the rest: until the attach nothing has run and
\* nothing is inside, from then on until the take-down the limits are written,
\* and attempts are left where wait_until_empty is going to use one.
HandleInOrder ==
    /\ hpc \in {"create", "limits", "attach"} =>
          inside = {} /\ \A p \in Procs : life[p] \in {"unborn", "held"}
    /\ hpc \in {"attach", "held"} => Range(Writes(wanted)) \subseteq ctl
    /\ hpc = "held" => Workload \in inside
    /\ \A p \in inside : life[p] # "unborn"
    /\ hpc \in {"kill", "scan", "signal", "drain"} => tries > 0
    /\ hpc = "kill" => tries = MaxTries

\* A cgroup that is not thawed was frozen by the take-down under way, which
\* knows it and will thaw it, unless a thaw has failed already.
ThawIsDue ==
    /\ freezer # "thawed" /\ "thaw" \notin errs =>
          froze /\ hpc \in {"kill", "scan", "signal", "drain", "remove", "thaw"}
    /\ "freeze" \notin kernel => freezer = "thawed"

AllKilled == \A p \in Members : life[p] = "killed"

\* Why DrainReachesAll holds, when nothing has failed.  With cgroup.kill all
\* members are killed in one step.  Without it, the cgroup is frozen by the second
\* attempt, so that the members read_pids lists then are all there will be.
KillsProgress ==
    errs = {} /\ kernel # {} =>
        /\ hpc \in {"remove", "thaw", "closed"} => AllKilled
        /\ hpc \in {"scan", "signal", "drain"} /\ "kill" \in kernel => AllKilled
        /\ hpc \in {"kill", "scan", "signal", "drain"} /\ "kill" \notin kernel =>
              freezer = "frozen" \/ tries = MaxTries
        /\ hpc \in {"kill", "scan", "signal", "drain"} /\ "kill" \notin kernel => freezer # "thawed"
        /\ hpc = "signal" /\ freezer = "frozen" =>
              \A p \in Members : p \in listed_pids \/ life[p] = "killed"
        /\ hpc = "drain" /\ freezer = "frozen" => AllKilled

\* A service in strict mode never runs outside its limits, and the take-down
\* reaches every process of the cgroup and leaves nothing frozen (cgroup.rs,
\* runtime.rs).  The conjuncts that follow are what each of them rests on.
CgroupContains ==
    /\ CgroupTypeOK /\ StrictIsLimited /\ DrainReachesAll /\ NotLeftFrozen
    /\ HandleInOrder /\ ThawIsDue /\ KillsProgress

\* Once begun, the take-down of a cgroup ends, even when its processes fork for
\* ever or do not die: cleanup never hangs the supervisor.
HandleCloses == hpc = "freeze" ~> hpc = "closed"
=============================================================================
