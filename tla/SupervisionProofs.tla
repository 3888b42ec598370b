-------------------------- MODULE SupervisionProofs --------------------------
(***************************************************************************)
(* Proofs about the processes of a launch and the threads that watch them, *)
(* for any number of them and any limits, hooks, retries, timeouts and     *)
(* records: the container's cgroup; the helpers the supervisor starts,     *)
(* slirp4netns and the hooks; the threads of start(); and the readers of   *)
(* the seccomp log.                                                        *)
(***************************************************************************)
EXTENDS Cgroup, Helpers, Supervise, SeccompLog, TLAPS

---------------------------------------------------------------------------
(* The cgroup (Cgroup). *)
CtlFiles == LimitFiles \cup {"memory.oom.group"}

\* set_limits writes a sequence of control files.
LEMMA WritesTyped == ASSUME NEW limits PROVE Writes(limits) \in Seq(CtlFiles)
<1> DEFINE file(cond, name) == IF cond THEN <<name>> ELSE <<>>
<1>1. /\ file("memory.max" \in limits, "memory.max") \in Seq(CtlFiles)
      /\ file("memory.high" \in limits, "memory.high") \in Seq(CtlFiles)
      /\ file("memory.swap.max" \in limits, "memory.swap.max") \in Seq(CtlFiles)
      /\ file(limits \cap MemoryFiles # {}, "memory.oom.group") \in Seq(CtlFiles)
      /\ file("cpu.max" \in limits, "cpu.max") \in Seq(CtlFiles)
      /\ file("cpu.weight" \in limits, "cpu.weight") \in Seq(CtlFiles)
      /\ file("pids.max" \in limits, "pids.max") \in Seq(CtlFiles)
      /\ file("io.max" \in limits, "io.max") \in Seq(CtlFiles)
  <2>1. \A c, name : name \in CtlFiles => file(c, name) \in Seq(CtlFiles)
    OBVIOUS
  <2>2. CtlFiles = {"memory.max", "memory.high", "memory.swap.max", "memory.oom.group",
                    "cpu.max", "cpu.weight", "pids.max", "io.max"}
    BY DEF CtlFiles, LimitFiles, MemoryFiles
  <2> HIDE DEF file
  <2> QED BY <2>1, <2>2
<1>2. Writes(limits) = file("memory.max" \in limits, "memory.max")
        \o file("memory.high" \in limits, "memory.high")
        \o file("memory.swap.max" \in limits, "memory.swap.max")
        \o file(limits \cap MemoryFiles # {}, "memory.oom.group")
        \o file("cpu.max" \in limits, "cpu.max") \o file("cpu.weight" \in limits, "cpu.weight")
        \o file("pids.max" \in limits, "pids.max") \o file("io.max" \in limits, "io.max")
  BY DEF Writes
<1>3. \A s, t \in Seq(CtlFiles) : s \o t \in Seq(CtlFiles)
  OBVIOUS
<1> HIDE DEF file
<1>4. \A s, t, u, v \in Seq(CtlFiles) : s \o t \o u \o v \in Seq(CtlFiles)
  BY <1>3
<1>5. \A s, t, u, v, w \in Seq(CtlFiles) : s \o t \o u \o v \o w \in Seq(CtlFiles)
  BY <1>3, SMTT(30)
<1> QED BY <1>1, <1>2, <1>4, <1>5

\* A prefix of those writes leaves control files, and all of them leave them all.
LEMMA PrefixWritten ==
  ASSUME NEW limits, NEW n \in 0..Len(Writes(limits))
  PROVE  /\ Range(SubSeq(Writes(limits), 1, n)) \subseteq CtlFiles
         /\ n = Len(Writes(limits)) => Range(Writes(limits)) \subseteq Range(SubSeq(Writes(limits), 1, n))
<1> PICK w : w = Writes(limits) OBVIOUS
<1>1. w \in Seq(CtlFiles)
  BY WritesTyped
<1>2. SubSeq(w, 1, n) \in [1..n -> CtlFiles] /\ \A i \in 1..n : SubSeq(w, 1, n)[i] = w[i]
  <2>1. SubSeq(w, 1, n) = [i \in 1..n |-> w[i]]
    BY <1>1 DEF SubSeq
  <2>2. \A i \in 1..n : w[i] \in CtlFiles
    BY <1>1
  <2> QED BY <2>1, <2>2, Zenon
<1>3. DOMAIN w = 1..Len(w)
  BY <1>1
<1> QED BY <1>2, <1>3, Zenon DEF Range

\* What SIGKILL to a set of processes does.
LEMMA Kills ==
  ASSUME CgroupTypeOK, NEW S, life' = SigKilled(S), UNCHANGED inside
  PROVE  /\ life' \in [Procs -> {"unborn", "held", "live", "killed", "dead"}]
         /\ \A p \in Procs : life'[p] \in {"live", "unborn"} => life[p] = life'[p]
         /\ \A p \in Procs : p \in S => life'[p] \notin {"held", "live"}
         /\ \A p \in Procs : life[p] = "killed" => life'[p] = "killed"
         /\ Members' = Members
BY DEF CgroupTypeOK, SigKilled, Members

\* Before create the cgroup is absent and limits nothing.
LEMMA CgroupStart == CgroupInit => CgroupContains
<1> SUFFICES ASSUME CgroupInit PROVE CgroupContains
  OBVIOUS
<1>1. CgroupTypeOK
  <2>1. wanted \subseteq LimitFiles
    BY CgroupAssumption DEF CgroupInit, LimitFiles, MemoryFiles
  <2>2. life \in [Procs -> {"unborn", "held", "live", "killed", "dead"}]
    BY DEF CgroupInit
  <2>3. tries \in 0..MaxTries
    BY CgroupAssumption DEF CgroupInit
  <2> QED BY <2>1, <2>2, <2>3, Zenon DEF CgroupInit, CgroupTypeOK
<1>2. \A p \in Procs : life[p] \in {"unborn", "held"}
  BY DEF CgroupInit
<1> QED
  BY <1>1, <1>2 DEF CgroupInit, CgroupContains, StrictIsLimited, DrainReachesAll, NotLeftFrozen, HandleInOrder,
     ThawIsDue, KillsProgress

\* Each step of the handle and of its members keeps the types.
LEMMA CgroupTyped == CgroupContains /\ [CgroupNext]_cgroupVars => CgroupTypeOK'
<1> SUFFICES ASSUME CgroupContains, [CgroupNext]_cgroupVars PROVE CgroupTypeOK'
  OBVIOUS
<1> USE CgroupAssumption DEF CgroupContains, CgroupTypeOK, HandleInOrder
<1>1. CASE CreateCgroup
  BY <1>1 DEF CreateCgroup, Goto, Failed, setting, takedown, processes
<1>2. CASE SetLimits
  <2>1. PICK n \in 0..Len(Writes(wanted)) : ctl' = Range(SubSeq(Writes(wanted), 1, n))
    BY <1>2 DEF SetLimits
  <2>2. ctl' \subseteq CtlFiles
    BY <2>1, PrefixWritten
  <2> QED BY <1>2, <2>2 DEF SetLimits, CtlFiles, Goto, setting, processes
<1>3. CASE AttachProcess
  BY <1>3 DEF AttachProcess, Goto, Failed, setting, directory
<1>4. CASE FreezeCgroup
  <2>1. tries' \in 0..MaxTries
    BY <1>4 DEF FreezeCgroup
  <2>2. froze' \in BOOLEAN /\ pass' \in {"none", "cleanup", "drop"}
    BY <1>4, Zenon DEF FreezeCgroup
  <2> QED BY <1>4, <2>1, <2>2 DEF FreezeCgroup, Goto, setting, processes
<1>5. CASE KillAllProcesses
  <2>1. life' \in [Procs -> {"unborn", "held", "live", "killed", "dead"}]
    BY <1>5, Kills DEF KillAllProcesses
  <2> QED BY <1>5, <2>1 DEF KillAllProcesses, Goto, AfterError, setting, takedown, directory
<1>6. CASE ReadPids
  <2>1. Members \subseteq Procs
    BY DEF Members
  <2> QED BY <1>6, <2>1 DEF ReadPids, Goto, AfterError, setting, directory, processes
<1>7. CASE SignalListed
  <2>1. PICK S : life' = SigKilled(S)
    BY <1>7 DEF SignalListed
  <2>2. life' \in [Procs -> {"unborn", "held", "live", "killed", "dead"}]
    BY <1>7, <2>1, Kills DEF SignalListed
  <2> QED BY <1>7, <2>2 DEF SignalListed, Goto, AfterError, setting, directory
<1>8. CASE WaitUntilEmpty
  BY <1>8 DEF WaitUntilEmpty, Goto, Failed, setting, processes
<1>9. CASE RemoveDir
  BY <1>9 DEF RemoveDir, Goto, Failed, setting, takedown, directory, processes
<1>10. CASE ThawCgroup
  BY <1>10 DEF ThawCgroup, Goto, Failed, setting, processes
<1>11. CASE ReleaseWorkload
  BY <1>11 DEF ReleaseWorkload, setting, takedown, directory
<1>12. CASE RefuseWorkload
  BY <1>12 DEF RefuseWorkload, setting, takedown, directory
<1>13. CASE EndLaunch
  BY <1>13 DEF EndLaunch, Goto, setting, directory, processes
<1>14. CASE AbandonLaunch
  BY <1>14 DEF AbandonLaunch, Goto, setting, directory, processes
<1>15. ASSUME NEW p \in Procs, NEW q \in Procs, ForkProc(p, q) PROVE CgroupTypeOK'
  BY <1>15 DEF ForkProc, Scheduled, setting, takedown, directory
<1>16. ASSUME NEW p \in Procs, ExitProc(p) PROVE CgroupTypeOK'
  BY <1>16 DEF ExitProc, Scheduled, setting, takedown, directory
<1>17. CASE UNCHANGED cgroupVars
  BY <1>17, SMTT(30) DEF cgroupVars, setting, takedown, directory, processes
<1> QED BY <1>1, <1>2, <1>3, <1>4, <1>5, <1>6, <1>7, <1>8, <1>9, <1>10, <1>11, <1>12, <1>13, <1>14, <1>15, <1>16, <1>17, Zenon DEF CgroupNext, Handle, TakeDown, LaunchCaller, Processes

\* Limits are written before anything is attached.
LEMMA LimitsKept == CgroupContains /\ [CgroupNext]_cgroupVars => (HandleInOrder /\ StrictIsLimited)'
<1> SUFFICES ASSUME CgroupContains, [CgroupNext]_cgroupVars PROVE (HandleInOrder /\ StrictIsLimited)'
  OBVIOUS
<1> USE CgroupAssumption DEF CgroupContains, CgroupTypeOK, HandleInOrder, StrictIsLimited
<1>1. CASE CreateCgroup
  BY <1>1 DEF CreateCgroup, Goto, Failed, setting, takedown, processes
<1>2. CASE SetLimits
  <2>1. PICK n \in 0..Len(Writes(wanted)) :
          /\ ctl' = Range(SubSeq(Writes(wanted), 1, n))
          /\ hpc' = "attach" => n = Len(Writes(wanted))
    BY <1>2 DEF SetLimits, Goto
  <2>2. hpc' \in {"attach", "freeze"} /\ UNCHANGED <<life, inside, wanted, strict, tries>>
    BY <1>2 DEF SetLimits, Goto, setting, processes
  <2>3. hpc' = "attach" => (Range(Writes(wanted)) \subseteq ctl)'
    BY <2>1, <2>2, PrefixWritten
  <2> QED BY <1>2, <2>2, <2>3 DEF SetLimits
<1>3. CASE AttachProcess
  BY <1>3 DEF AttachProcess, Goto, Failed, setting, directory
<1>4. CASE FreezeCgroup
  BY <1>4 DEF FreezeCgroup, Goto, Failed, setting, processes
<1>5. CASE KillAllProcesses
  <2>1. \A p \in Procs : life'[p] \in {"live", "unborn"} => life[p] = life'[p]
    BY <1>5, Kills, Zenon DEF KillAllProcesses
  <2> QED BY <1>5, <2>1, Zenon DEF KillAllProcesses, Goto, AfterError, setting, takedown, directory
<1>6. CASE ReadPids
  BY <1>6, Zenon DEF ReadPids, Goto, Failed, AfterError, setting, directory, processes
<1>7. CASE SignalListed
  <2>1. PICK S : life' = SigKilled(S)
    BY <1>7, Zenon DEF SignalListed
  <2>2. \A p \in Procs : life'[p] \in {"live", "unborn"} => life[p] = life'[p]
    BY <1>7, <2>1, Kills DEF SignalListed
  <2> QED BY <1>7, <2>2 DEF SignalListed, Goto, AfterError, setting, directory
<1>8. CASE WaitUntilEmpty
  BY <1>8 DEF WaitUntilEmpty, Goto, Failed, setting, processes
<1>9. CASE RemoveDir
  <2>1. Members = {} /\ strict => \A p \in Procs : life[p] # "live"
    BY DEF Members
  <2> QED BY <1>9, <2>1 DEF RemoveDir, Goto, setting, takedown, directory, processes
<1>10. CASE ThawCgroup
  BY <1>10 DEF ThawCgroup, Goto, Failed, setting, processes
<1>11. CASE ReleaseWorkload
  BY <1>11 DEF ReleaseWorkload, setting, takedown, directory
<1>12. CASE RefuseWorkload
  BY <1>12 DEF RefuseWorkload, setting, takedown, directory
<1>13. CASE EndLaunch
  BY <1>13 DEF EndLaunch, Goto, setting, directory, processes
<1>14. CASE AbandonLaunch
  BY <1>14, Zenon DEF AbandonLaunch, Goto, setting, directory, processes
<1>15. ASSUME NEW p \in Procs, NEW q \in Procs, ForkProc(p, q) PROVE (HandleInOrder /\ StrictIsLimited)'
  BY <1>15, SMTT(30) DEF ForkProc, Scheduled, setting, takedown, directory
<1>16. ASSUME NEW p \in Procs, ExitProc(p) PROVE (HandleInOrder /\ StrictIsLimited)'
  BY <1>16, SMTT(30) DEF ExitProc, Scheduled, setting, takedown, directory
<1>17. CASE UNCHANGED cgroupVars
  BY <1>17, Zenon DEF cgroupVars, setting, takedown, directory, processes
<1> QED BY <1>1, <1>2, <1>3, <1>4, <1>5, <1>6, <1>7, <1>8, <1>9, <1>10, <1>11, <1>12, <1>13, <1>14, <1>15, <1>16, <1>17, Zenon DEF CgroupNext, Handle, TakeDown, LaunchCaller, Processes

\* The take-down that freezes the cgroup thaws it, unless a thaw fails.
LEMMA ThawKept == CgroupContains /\ [CgroupNext]_cgroupVars => (ThawIsDue /\ NotLeftFrozen)'
<1> SUFFICES ASSUME CgroupContains, [CgroupNext]_cgroupVars PROVE (ThawIsDue /\ NotLeftFrozen)'
  OBVIOUS
<1> USE CgroupAssumption DEF CgroupContains, CgroupTypeOK, ThawIsDue, NotLeftFrozen
<1>1. CASE CreateCgroup
  BY <1>1 DEF CreateCgroup, Goto, Failed, setting, takedown, processes
<1>2. CASE SetLimits
  BY <1>2 DEF SetLimits, Goto, Failed, setting, processes
<1>3. CASE AttachProcess
  BY <1>3 DEF AttachProcess, Goto, Failed, setting, directory
<1>4. CASE FreezeCgroup
  BY <1>4 DEF FreezeCgroup, Goto, Failed, setting, processes
<1>5. CASE KillAllProcesses
  BY <1>5 DEF KillAllProcesses, Goto, Failed, AfterError, setting, takedown, directory
<1>6. CASE ReadPids
  BY <1>6 DEF ReadPids, Goto, Failed, AfterError, setting, directory, processes
<1>7. CASE SignalListed
  BY <1>7 DEF SignalListed, Goto, Failed, AfterError, setting, directory
<1>8. CASE WaitUntilEmpty
  BY <1>8 DEF WaitUntilEmpty, Goto, Failed, setting, processes
<1>9. CASE RemoveDir
  BY <1>9 DEF RemoveDir, Goto, Failed, setting, takedown, directory, processes
<1>10. CASE ThawCgroup
  BY <1>10 DEF ThawCgroup, Goto, Failed, setting, processes
<1>11. CASE ReleaseWorkload
  BY <1>11 DEF ReleaseWorkload, setting, takedown, directory
<1>12. CASE RefuseWorkload
  BY <1>12 DEF RefuseWorkload, setting, takedown, directory
<1>13. CASE EndLaunch
  BY <1>13 DEF EndLaunch, Goto, setting, directory, processes
<1>14. CASE AbandonLaunch
  BY <1>14 DEF AbandonLaunch, Goto, setting, directory, processes
<1>15. ASSUME NEW p \in Procs, NEW q \in Procs, ForkProc(p, q) PROVE (ThawIsDue /\ NotLeftFrozen)'
  BY <1>15 DEF ForkProc, Scheduled, setting, takedown, directory
<1>16. ASSUME NEW p \in Procs, ExitProc(p) PROVE (ThawIsDue /\ NotLeftFrozen)'
  BY <1>16 DEF ExitProc, Scheduled, setting, takedown, directory
<1>17. CASE UNCHANGED cgroupVars
  BY <1>17 DEF cgroupVars, setting, takedown, directory, processes
<1> QED BY <1>1, <1>2, <1>3, <1>4, <1>5, <1>6, <1>7, <1>8, <1>9, <1>10, <1>11, <1>12, <1>13, <1>14, <1>15, <1>16, <1>17, Zenon DEF CgroupNext, Handle, TakeDown, LaunchCaller, Processes

\* A kernel without cgroup.kill that has one of the two files has cgroup.freeze.
LEMMA FreezesOrKills ==
  ASSUME CgroupTypeOK, kernel # {}, "kill" \notin kernel PROVE "freeze" \in kernel
<1>1. PICK f : f \in kernel
  OBVIOUS
<1> QED BY <1>1 DEF CgroupTypeOK

\* Members are those of the step before when no process changes.
LEMMA SameMembers ==
  ASSUME UNCHANGED <<life, inside>>
  PROVE  Members' = Members /\ (AllKilled => AllKilled')
BY Zenon DEF Members, AllKilled

\* Only a member that still runs forks a member.
LEMMA ForkSpares ==
  ASSUME CgroupTypeOK, HandleInOrder, NEW p \in Procs, NEW q \in Procs, ForkProc(p, q)
  PROVE  /\ AllKilled => AllKilled'
         /\ freezer = "frozen" => Members' = Members /\ \A r \in Members : life'[r] = life[r]
<1>1. /\ life[p] = "live" /\ q \notin inside /\ (freezer = "frozen" => p \notin inside)
      /\ p \notin inside => inside' = inside
  BY Zenon DEF ForkProc, HandleInOrder, Scheduled
<1>2. \A r \in Procs : r # q => life'[r] = life[r]
  BY Zenon DEF ForkProc, CgroupTypeOK
<1>3. AllKilled => p \notin inside
  BY <1>1 DEF AllKilled, Members
<1>4. p \notin inside => Members' = Members /\ \A r \in Members : life'[r] = life[r]
  BY <1>1, <1>2, Zenon DEF Members
<1>5. p \notin inside /\ AllKilled => AllKilled'
  BY <1>4, Zenon DEF AllKilled
<1> QED BY <1>1, <1>3, <1>4, <1>5, Zenon

\* A take-down that gives up has killed all members, if nothing failed.
LEMMA KillsKept == CgroupContains /\ [CgroupNext]_cgroupVars => (KillsProgress /\ DrainReachesAll)'
<1> SUFFICES ASSUME CgroupContains, [CgroupNext]_cgroupVars PROVE (KillsProgress /\ DrainReachesAll)'
  OBVIOUS
<1> USE CgroupAssumption DEF CgroupContains, KillsProgress
<1>t. CgroupTypeOK /\ HandleInOrder /\ CgroupTypeOK'
  BY CgroupTyped
<1> SUFFICES KillsProgress'
  BY DEF AllKilled, DrainReachesAll
<1>1. CASE CreateCgroup
  BY <1>1 DEF CreateCgroup, Goto, Failed, setting, takedown, processes
<1>2. CASE SetLimits
  BY <1>2 DEF SetLimits, Goto, Failed, setting, processes
<1>3. CASE AttachProcess
  BY <1>3 DEF AttachProcess, Goto, Failed, setting, directory
<1>4. CASE FreezeCgroup
  <2>1. hpc' \in {"kill", "freeze"} /\ tries' = MaxTries /\ kernel' = kernel
    BY <1>4 DEF FreezeCgroup, Goto, setting
  <2>2. errs' = {} /\ kernel # {} /\ "kill" \notin kernel => freezer' = "freezing"
    <3>1. kernel # {} /\ "kill" \notin kernel => "freeze" \in kernel
      BY <1>t, FreezesOrKills, Zenon
    <3> QED BY <1>4, <3>1 DEF FreezeCgroup, Failed
  <2> QED BY <2>1, <2>2
<1>5. CASE KillAllProcesses
  <2>1. "kill" \in kernel /\ errs' = {} => AllKilled'
    <3>1. "kill" \in kernel /\ errs' = {} => life' = SigKilled(Members)
      BY <1>5 DEF KillAllProcesses, Failed
    <3>2. UNCHANGED inside
      BY <1>5 DEF KillAllProcesses
    <3> QED BY <3>1, <3>2, <1>t, Kills DEF AllKilled, Members
  <2> QED BY <1>5, <2>1, <1>t, Zenon DEF KillAllProcesses, HandleInOrder, Goto, Failed, AfterError, setting, takedown, directory
<1>6. CASE ReadPids
  <2>1. Members' = Members /\ (AllKilled => AllKilled')
    BY <1>6, SameMembers, Zenon DEF ReadPids, processes
  <2> QED BY <1>6, <2>1, <1>t DEF ReadPids, Goto, Failed, AfterError, setting, directory, processes
<1>7. CASE SignalListed
  <2>1. PICK S : life' = SigKilled(S) /\ (S = listed_pids \/ errs' # {})
    BY <1>7, Zenon DEF SignalListed, Failed
  <2>2. Members' = Members /\ (AllKilled => AllKilled')
    BY <1>7, <2>1, <1>t, Kills, Zenon DEF SignalListed, AllKilled, Members
  <2>3. errs' = {} /\ (\A p \in Members : p \in listed_pids \/ life[p] = "killed") => AllKilled'
    BY <1>7, <2>1, <2>2, <1>t, Kills, ZenonT(30) DEF SignalListed, AllKilled, Members
  <2> QED BY <1>7, <2>1, <2>2, <2>3, <1>t DEF SignalListed, Goto, Failed, setting, directory
<1>8. CASE WaitUntilEmpty
  <2>1. Members' = Members /\ (AllKilled => AllKilled') /\ (Members = {} => AllKilled')
    BY <1>8, SameMembers, Zenon DEF WaitUntilEmpty, AllKilled, processes
  <2> QED BY <1>8, <2>1, <1>t DEF WaitUntilEmpty, HandleInOrder, CgroupTypeOK, Goto, Failed, setting
<1>9. CASE RemoveDir
  <2>1. Members' = Members /\ (AllKilled => AllKilled') /\ (Members = {} => AllKilled')
    BY <1>9, SameMembers DEF RemoveDir, AllKilled, processes
  <2> QED BY <1>9, <2>1, <1>t, ZenonT(30) DEF RemoveDir, HandleInOrder, CgroupTypeOK, Goto, Failed, setting, takedown, directory
<1>10. CASE ThawCgroup
  <2>1. Members' = Members /\ (AllKilled => AllKilled') /\ (Members = {} => AllKilled')
    BY <1>10, SameMembers DEF ThawCgroup, AllKilled, processes
  <2>2. hpc = "thaw" /\ hpc' \in {"freeze", "closed"} /\ kernel' = kernel /\ (errs' = {} => errs = {})
    BY <1>10 DEF ThawCgroup, Goto, Failed, setting
  <2> QED BY <2>1, <2>2, Zenon
<1>11. CASE ReleaseWorkload
  <2>1. hpc = "closed" /\ AllKilled => AllKilled'
    BY <1>11, <1>t DEF ReleaseWorkload, AllKilled, Members, CgroupTypeOK
  <2>2. hpc \in {"held", "closed"} /\ UNCHANGED <<hpc, kernel, errs>>
    BY <1>11, Zenon DEF ReleaseWorkload, setting
  <2> QED BY <2>1, <2>2, Zenon
<1>12. CASE RefuseWorkload
  <2>1. hpc = "closed" /\ AllKilled => AllKilled'
    BY <1>12, <1>t DEF RefuseWorkload, AllKilled, Members, CgroupTypeOK
  <2>2. hpc \in {"held", "closed"} /\ UNCHANGED <<hpc, kernel, errs>>
    BY <1>12, Zenon DEF RefuseWorkload, setting
  <2> QED BY <2>1, <2>2, Zenon
<1>13. CASE EndLaunch
  BY <1>13 DEF EndLaunch, Goto, setting, directory, processes
<1>14. CASE AbandonLaunch
  BY <1>14, Zenon DEF AbandonLaunch, Goto, setting, directory, processes
<1>15. ASSUME NEW p \in Procs, NEW q \in Procs, ForkProc(p, q) PROVE KillsProgress'
  <2>1. AllKilled => AllKilled'
    BY <1>15, <1>t, ForkSpares, Zenon
  <2>2. freezer = "frozen" => Members' = Members /\ \A r \in Members : life'[r] = life[r]
    BY <1>15, <1>t, ForkSpares, Zenon
  <2>3. UNCHANGED <<hpc, kernel, errs, tries, listed_pids, freezer>>
    BY <1>15 DEF ForkProc, setting, takedown, directory
  <2> QED BY <2>1, <2>2, <2>3, Zenon
<1>16. ASSUME NEW p \in Procs, ExitProc(p) PROVE KillsProgress'
  <2>1. AllKilled => AllKilled'
    BY <1>16, <1>t, Zenon DEF ExitProc, AllKilled, Members, CgroupTypeOK
  <2>2. Members' \subseteq Members /\ \A r \in Members' : life'[r] = life[r]
    <3>1. inside' = inside /\ life' = [life EXCEPT ![p] = "dead"] /\ DOMAIN life = Procs
      BY <1>16, <1>t, Zenon DEF ExitProc, CgroupTypeOK
    <3>2. \A r \in Procs : life'[r] = IF r = p THEN "dead" ELSE life[r]
      BY <3>1, Zenon
    <3> QED BY <3>1, <3>2, Zenon DEF Members
  <2> QED BY <1>16, <2>1, <2>2, Zenon DEF ExitProc, setting, takedown, directory
<1>17. CASE UNCHANGED cgroupVars
  BY <1>17, SameMembers DEF cgroupVars, setting, takedown, directory, processes
<1> QED BY <1>1, <1>2, <1>3, <1>4, <1>5, <1>6, <1>7, <1>8, <1>9, <1>10, <1>11, <1>12, <1>13, <1>14, <1>15, <1>16, <1>17, Zenon DEF CgroupNext, Handle, TakeDown, LaunchCaller, Processes

\* Cgroup, set_limits, attach_process, cleanup, Drop and create_internal's use of
\* them: CgroupContains holds whatever fails and however the processes of the
\* cgroup run, for any number of them, any limits and any number of attempts
\* above one.
THEOREM CgroupCorrect == CgroupSpec => []CgroupContains
<1>1. CgroupContains /\ [CgroupNext]_cgroupVars => CgroupContains'
  BY CgroupTyped, LimitsKept, ThawKept, KillsKept, SMTT(30) DEF CgroupContains
<1> QED BY CgroupStart, <1>1, PTL DEF CgroupSpec

---------------------------------------------------------------------------
(* slirp4netns and the hooks (Helpers). *)
SlirpInv == SlirpTypeOK /\ HelperStopped /\ NoHelperHere
HooksInv == HooksTypeOK /\ HooksRunAlone /\ FatalHooksAll /\ HooksInOrder

\* The driver of slirp4netns (userspace.rs): each step keeps track of its helper.
LEMMA SlirpStep == SlirpInv /\ [SlirpNext]_slirpVars => SlirpInv'
<1> SUFFICES ASSUME SlirpInv, [SlirpNext]_slirpVars PROVE SlirpInv'
  OBVIOUS
<1> USE SlirpAssumption DEF SlirpInv, SlirpTypeOK, HelperStopped, NoHelperHere
<1>1. CASE ResolveSlirp
  BY <1>1, Zenon DEF ResolveSlirp
<1>2. CASE SpawnSlirp
  BY <1>2, Zenon DEF SpawnSlirp
<1>3. CASE WaitUntilReady
  BY <1>3, Zenon DEF WaitUntilReady
<1>4. CASE AddPortForward
  BY <1>4 DEF AddPortForward
<1>5. CASE PollHelper
  <2>1. polls' \in 0..MaxPolls
    BY <1>5 DEF PollHelper
  <2>2. upc' \in {"stop", "rmdir", "kill", "closed"} /\ lost' \in BOOLEAN
    BY <1>5, Zenon DEF PollHelper
  <2>3. upc' \in {"rmdir", "closed"} /\ ~lost' => upc' = "rmdir" /\ helper = "gone"
    BY <1>5, Zenon DEF PollHelper
  <2>4. UNCHANGED <<slirp_sandbox, helper, runtime_dir, nstate, forwards>>
    BY <1>5 DEF PollHelper
  <2>5. upc' # "resolve" /\ upc' # "spawn" /\ upc' # "failed"
    BY <2>2
  <2>6. upc = "stop"
    BY <1>5 DEF PollHelper
  <2> QED BY <2>1, <2>2, <2>3, <2>4, <2>5, <2>6, Zenon
<1>6. CASE KillHelper
  BY <1>6, Zenon DEF KillHelper
<1>7. CASE CleanupRuntimeDir
  BY <1>7, Zenon DEF CleanupRuntimeDir
<1>8. CASE CleanupSlirp
  BY <1>8 DEF CleanupSlirp
<1>9. CASE SlirpCrash
  BY <1>9 DEF SlirpCrash
<1>10. CASE HelperStep
  BY <1>10 DEF HelperStep, HelperReports, HelperEnds
<1>11. CASE UNCHANGED slirpVars
  BY <1>11 DEF slirpVars
<1> QED BY <1>1, <1>2, <1>3, <1>4, <1>5, <1>6, <1>7, <1>8, <1>9, <1>10, <1>11, Zenon DEF SlirpNext, Supervising

\* A list of hooks is a sequence.
LEMMA HookListTyped ==
  ASSUME HooksTypeOK
  PROVE  Len(hooks) \in Nat /\ DOMAIN hooks = 1..Len(hooks)
<1>1. hooks \in Seq([binary : STRING, does : STRING])
  BY HooksAssumption, SMTT(30) DEF HooksTypeOK
<1> QED BY <1>1

\* What a counter that starts at zero and is stepped below its bound takes as values.
LEMMA Within ==
  ASSUME NEW n \in Nat
  PROVE  0 \in 0..n /\ \A m \in 0..n : m \in Nat /\ (m < n => m + 1 \in 0..n)
OBVIOUS

\* The hooks before the next one are those up to the current one.
LEMMA NextIndex ==
  ASSUME NEW n \in Nat
  PROVE  /\ 1..(n + 1) \ {n + 1} = 1..n /\ 1..n \subseteq 1..(n + 1)
         /\ n + 1 \notin 1..n /\ n + 1 > 0
OBVIOUS

\* The runner of a list of hooks (oci/mod.rs): each step keeps it in order.
LEMMA HooksStep == HooksInv /\ [HooksNext]_hookVars => HooksInv'
<1> SUFFICES ASSUME HooksInv, [HooksNext]_hookVars PROVE HooksInv'
  OBVIOUS
<1> USE HooksAssumption, HookListTyped DEF HooksInv, HooksTypeOK, HooksRunAlone, FatalHooksAll, HooksInOrder
<1>1. CASE NextHook
  <2>1. CASE at = Len(hooks)
    BY <1>1, <2>1, Zenon DEF NextHook
  <2>2. CASE at # Len(hooks)
    <3>1. at' = at + 1 /\ at' \in 0..Len(hooks) /\ hook_pc' \in {"spawn", "failed"}
      BY <1>1, <2>2 DEF NextHook
    <3>2. being_written' \in BOOLEAN /\ busy_retries' = 0 /\ hook_polls' = 0
      BY <1>1, <2>2, Zenon DEF NextHook
    <3>3. hook_pc = "next" /\ UNCHANGED <<hooks, fatal, alive_hooks, daemons, completed>>
      BY <1>1, Zenon DEF NextHook
    <3>4. alive_hooks = {} /\ completed \subseteq 1..at /\ (fatal => 1..at \subseteq completed)
      BY <3>3, Zenon
    <3>5. at \in Nat /\ 0 \in 0..BusyRetries /\ 0 \in 0..HookTimeout
      BY HookListTyped, Within, Zenon
    <3>6. HooksTypeOK'
      BY <3>1, <3>2, <3>3, <3>5, Zenon
    <3>7. /\ 1..at' \ {at'} = 1..at /\ 1..at \subseteq 1..at'
          /\ at' \notin 1..at /\ at' > 0
      BY <3>1, <3>5, NextIndex, Zenon
    <3>8. HooksRunAlone' /\ HooksInOrder'
      BY <3>1, <3>3, <3>4, <3>7, Zenon
    <3>9. fatal => 1..at' \ {at'} \subseteq completed'
      BY <3>3, <3>4, <3>7, Zenon
    <3>10. hook_pc' # "error" /\ hook_pc' # "ok" /\ fatal' = fatal
      BY <3>1, <3>3, Zenon
    <3>11. FatalHooksAll'
      BY <3>9, <3>10, Zenon
    <3> QED BY <3>6, <3>8, <3>11, Zenon
  <2> QED BY <2>1, <2>2, Zenon
<1>2. CASE SpawnHook
  BY <1>2 DEF SpawnHook
<1>3. CASE PollHook
  <2>1. hook_polls < HookTimeout => hook_polls + 1 \in 0..HookTimeout
    BY Within, Zenon
  <2> QED BY <1>3, <2>1, Zenon DEF PollHook
<1>4. CASE HookReaped
  BY <1>4, Zenon DEF HookReaped
<1>5. CASE ReadStderr
  BY <1>5, Zenon DEF ReadStderr
<1>6. CASE HookFailed
  BY <1>6, Zenon DEF HookFailed
<1>7. CASE HookEnds
  BY <1>7 DEF HookEnds
<1>8. CASE WriterCloses
  BY <1>8, Zenon DEF WriterCloses
<1>9. CASE UNCHANGED hookVars
  BY <1>9 DEF hookVars
<1> QED BY <1>1, <1>2, <1>3, <1>4, <1>5, <1>6, <1>7, <1>8, <1>9, Zenon DEF HooksNext, HookRunner

\* The helper processes of a launch (userspace.rs, oci/mod.rs) stay under control
\* side by side, for any hooks, timeouts, retries and port forwards.
THEOREM HelpersCorrect == SlirpSpec /\ HooksSpec => []HelpersControlled
<1>1. SlirpInit => SlirpInv
  <2>1. ASSUME SlirpInit PROVE polls \in 0..MaxPolls /\ forwards \in 0..MaxForwards
    BY <2>1, SlirpAssumption DEF SlirpInit
  <2> QED BY <2>1, Zenon DEF SlirpInit, SlirpInv, SlirpTypeOK, HelperStopped, NoHelperHere
<1>2. HooksInit => HooksInv
  <2> SUFFICES ASSUME HooksInit PROVE HooksInv
    OBVIOUS
  <2>1. hooks \in Seq([binary : STRING, does : STRING])
    BY HooksAssumption DEF HooksInit
  <2>2. HooksTypeOK
    <3>1. at \in 0..Len(hooks) /\ busy_retries \in 0..BusyRetries /\ hook_polls \in 0..HookTimeout
      BY <2>1, HooksAssumption DEF HooksInit
    <3> QED BY <3>1, Zenon DEF HooksInit, HooksTypeOK
  <2> QED BY <2>2 DEF HooksInit, HooksInv, HooksRunAlone, FatalHooksAll, HooksInOrder
<1>3. SlirpInv /\ HooksInv => HelpersControlled
  BY DEF SlirpInv, HooksInv, HelpersControlled
<1> QED BY <1>1, <1>2, <1>3, SlirpStep, HooksStep, PTL DEF SlirpSpec, HooksSpec
---------------------------------------------------------------------------
(* The threads of start() (Supervise). *)
LEMMA SuperviseStart == SuperviseInit => SignalsOwn
<1> SUFFICES ASSUME SuperviseInit PROVE SignalsOwn
  OBVIOUS
<1>1. attempts \in 0..MaxAttempts /\ failures \in Nat
  BY SuperviseAssumption, SMTT(30) DEF SuperviseInit
<1> QED
  BY <1>1, SuperviseAssumption DEF SuperviseInit, SignalsOwn, SuperviseTypeOK, HealthSignalsOwn, WakeStaysInside, SignalsInOrder

\* Each step of the threads of start() signals only what they own.
LEMMA SuperviseKept == SignalsOwn /\ [SuperviseNext]_superviseVars => SignalsOwn'
<1> SUFFICES ASSUME SignalsOwn, [SuperviseNext]_superviseVars PROVE SignalsOwn'
  OBVIOUS
<1> USE SuperviseAssumption DEF SignalsOwn, SuperviseTypeOK, HealthSignalsOwn, WakeStaysInside, SignalsInOrder
<1>1. CASE StartThreads
  BY <1>1, Zenon DEF StartThreads, outside, signalled
<1>2. CASE BeginAttempt
  BY <1>2, SMTT(30) DEF BeginAttempt, outside, signalled
<1>3. CASE AttemptEnds
  BY <1>3, Zenon DEF AttemptEnds, outside, signalled
<1>4. CASE SpawnChecker
  BY <1>4, Zenon DEF SpawnChecker, outside, signalled
<1>5. CASE Poststart
  BY <1>5, Zenon DEF Poststart, threads, outside, signalled
<1>6. CASE ChildWaited
  BY <1>6, Zenon DEF ChildWaited, threads, outside, signalled
<1>7. CASE StopRelay
  BY <1>7, Zenon DEF StopRelay, threads, outside, signalled
<1>8. CASE CancelChecker
  BY <1>8, Zenon DEF CancelChecker, outside, signalled
<1>9. CASE JoinChecker
  BY <1>9, Zenon DEF JoinChecker, threads, outside, signalled
<1>10. CASE StopForwarder
  BY <1>10, Zenon DEF StopForwarder, threads, outside, signalled
<1>11. CASE JoinForwarder
  BY <1>11, Zenon DEF JoinForwarder, threads, outside, signalled
<1>12. CASE CheckerSleeps
  BY <1>12, Zenon DEF CheckerSleeps, outside, signalled, CheckerMoves
<1>13. CASE CheckerVerifies
  BY <1>13, Zenon DEF CheckerVerifies, outside, signalled, CheckerMoves
<1>14. CASE CheckEnds
  BY <1>14, SMTT(30) DEF CheckEnds, outside, signalled, CheckerMoves
<1>15. CASE SignalUnhealthy
  <2>1. sup.pidfd \in BOOLEAN /\ sup' = sup
    BY <1>15, Zenon DEF CheckerMoves, outside, SignalUnhealthy
  <2>2. CASE sup.pidfd
    <3>1. received' \subseteq received \cup {"term"} /\ stray' = stray /\ checker' = "ended"
      BY <1>15, <2>2 DEF SignalUnhealthy
    <3> QED BY <1>15, <2>1, <3>1 DEF SignalUnhealthy, CheckerMoves
  <2>3. CASE ~sup.pidfd
    BY <1>15, <2>1, <2>3, Zenon DEF SignalUnhealthy, signalled, CheckerMoves
  <2> QED BY <2>1, <2>2, <2>3, Zenon
<1>16. CASE KillUnhealthy
  <2>1. sup.pidfd \in BOOLEAN /\ sup' = sup /\ ~sup.pidfd
    BY <1>16 DEF KillUnhealthy, CheckerMoves, outside
  <2>2. /\ received' \subseteq received \cup {"term"}
        /\ stray' \subseteq stray \cup {"term"}
    BY <1>16, Zenon DEF KillUnhealthy, Kill
  <2> QED BY <1>16, <2>1, <2>2, Zenon DEF KillUnhealthy, CheckerMoves
<1>17. CASE TakeSignal
  <2>1. received' \subseteq received \cup {"user"} /\ stray' \subseteq stray \cup {"user"}
    BY <1>17, Zenon DEF TakeSignal, signalled, Kill
  <2>2. waking' => waking
    BY <1>17, Zenon DEF TakeSignal
  <2> QED BY <1>17, <2>1, <2>2 DEF TakeSignal, outside
<1>18. CASE EnterAndRun
  BY <1>18, Zenon DEF EnterAndRun, outside, signalled
<1>19. CASE TargetEnds
  BY <1>19, Zenon DEF TargetEnds, threads, outside, signalled
<1>20. CASE ChildReaps
  BY <1>20, Zenon DEF ChildReaps, threads, outside, signalled
<1>21. CASE RelayEnds
  BY <1>21, Zenon DEF RelayEnds, outside, signalled
<1>22. CASE PidReused
  BY <1>22, Zenon DEF PidReused, threads, outside, signalled
<1>23. CASE HealthChanges
  BY <1>23, Zenon DEF HealthChanges, threads, signalled
<1>24. CASE SignalArrives
  BY <1>24, Zenon DEF SignalArrives, signalled
<1>25. CASE UNCHANGED superviseVars
  BY <1>25, Zenon DEF superviseVars
<1> QED BY <1>1, <1>2, <1>3, <1>4, <1>5, <1>6, <1>7, <1>8, <1>9, <1>10, <1>11, <1>12, <1>13, <1>14, <1>15, <1>16, <1>17, <1>18, <1>19, <1>20, <1>21, <1>22, <1>23, <1>24, <1>25, Zenon
     DEF SuperviseNext, MainThread, CheckerThread

\* start() with its signal, health-check and relay threads (runtime.rs, health.rs):
\* its signals reach their own container, however the threads, the container's
\* end and the reuse of its PID interleave, for any retries and attempts.
THEOREM SuperviseCorrect == SuperviseSpec => []SignalsOwn
BY SuperviseStart, SuperviseKept, PTL DEF SuperviseSpec

---------------------------------------------------------------------------
(* The seccomp log readers (SeccompLog). *)
\* What the property says of the record the logger has decided.
Attributed == \A h \in handled :
                 /\ h.there => h.logged
                 /\ h.logged /\ h.pid # Target => h.ever /\ h.age <= StalePidTtl

\* Before the first interval no PID is known and no record was handled.
LEMMA LogStart == SeccompLogInit => DenialsAttributed
<1> SUFFICES ASSUME SeccompLogInit PROVE DenialsAttributed
  OBVIOUS
<1>1. kmsg \in Seq(LogPids \X BOOLEAN) /\ at_record \in 0..Len(kmsg)
  <2>1. kmsg = <<>> \/ \E r \in LogPids \X BOOLEAN : kmsg = <<r>>
    BY Zenon DEF SeccompLogInit
  <2>2. at_record = 0
    BY Zenon DEF SeccompLogInit
  <2>3. ASSUME NEW S, NEW k, k = <<>> \/ \E r \in S : k = <<r>>
        PROVE  k \in Seq(S) /\ 0 \in 0..Len(k)
    <3>1. CASE k = <<>>
      BY <3>1
    <3>2. ASSUME NEW r \in S, k = <<r>> PROVE k \in Seq(S) /\ 0 \in 0..Len(k)
      BY <3>2, SMTT(30)
    <3> QED BY <2>3, <3>1, <3>2
  <2> QED BY <2>1, <2>2, <2>3, Zenon
<1>2. log_procs \in [LogPids -> [inside : BOOLEAN, state : {"none", "alive", "zombie"}]]
  BY Zenon DEF SeccompLogInit
<1>3. /\ clock \in Nat \ {0} /\ last_refresh \in 0..clock
      /\ known_pids \in [LogPids -> 0..clock] /\ gone_at \in [LogPids -> 0..clock]
  BY SMTT(30) DEF SeccompLogInit
<1>4. \A p \in LogPids : known_pids[p] = 0
  BY Zenon DEF SeccompLogInit
<1>5. handled = {}
  BY Zenon DEF SeccompLogInit
<1> QED BY <1>1, <1>2, <1>3, <1>4, <1>5 DEF DenialsAttributed, LogTypeOK, SeenWhileInside

\* A scan of the container's processes remembers only those in scope, or what was
\* remembered before.
LEMMA RefreshSound ==
  ASSUME LogTypeOK, SeenWhileInside
  PROVE  /\ Refresh(known_pids) \in [LogPids -> 0..clock]
         /\ \A p \in LogPids : p # Target /\ Refresh(known_pids)[p] # 0 =>
               InScope(p) \/ gone_at[p] >= Refresh(known_pids)[p]
         /\ \A p \in LogPids : InScope(p) => Refresh(known_pids)[p] = clock
<1>1. \A p \in LogPids : /\ Refresh(known_pids)[p] \in {0, clock, known_pids[p]}
                         /\ InScope(p) => Refresh(known_pids)[p] = clock
                         /\ p # Target /\ ~InScope(p) => Refresh(known_pids)[p] \in {0, known_pids[p]}
  BY DEF Refresh
<1>2. Refresh(known_pids) \in [LogPids -> 0..clock]
  <2> DEFINE seen(p) == IF p = Target \/ InScope(p) THEN clock
                        ELSE IF IsRecent(known_pids[p]) THEN known_pids[p] ELSE 0
  <2>1. \A p \in LogPids : seen(p) \in 0..clock
    BY DEF LogTypeOK
  <2>2. Refresh(known_pids) = [p \in LogPids |-> seen(p)]
    BY Zenon DEF Refresh
  <2> HIDE DEF seen
  <2> QED BY <2>1, <2>2
<1>3. \A p \in LogPids : p # Target /\ Refresh(known_pids)[p] # 0 =>
         InScope(p) \/ gone_at[p] >= Refresh(known_pids)[p]
  BY <1>1, Zenon DEF SeenWhileInside
<1> QED BY <1>1, <1>2, <1>3, Zenon

\* A step that keeps the processes keeps who is in scope.
LEMMA SameScope ==
  ASSUME UNCHANGED <<log_procs, gone_at>>, NEW p
  PROVE  InScope(p)' = InScope(p) /\ gone_at'[p] = gone_at[p]
BY Zenon DEF InScope

\* Each step of the reader attributes a record only to a PID that is or was recently inside.
LEMMA LogKept == DenialsAttributed /\ [SeccompLogNext]_logVars => DenialsAttributed'
<1> SUFFICES ASSUME DenialsAttributed, [SeccompLogNext]_logVars PROVE DenialsAttributed'
  OBVIOUS
<1>t. LogTypeOK /\ SeenWhileInside /\ Attributed
  BY Zenon DEF DenialsAttributed, Attributed
<1> SUFFICES LogTypeOK' /\ SeenWhileInside' /\ Attributed'
  BY DEF DenialsAttributed, Attributed
<1> USE SeccompLogAssumption
<1>1. CASE OpenKmsg
  <2>1. UNCHANGED <<log_procs, gone_at, clock, kmsg, at_record, handled>>
    BY <1>1, Zenon DEF OpenKmsg, processVars
  <2>2. \/ UNCHANGED <<known_pids, last_refresh>>
        \/ known_pids' = Refresh(known_pids) /\ last_refresh' = clock
    BY <1>1, Zenon DEF OpenKmsg
  <2>3. LogTypeOK'
    BY <1>t, <2>1, <2>2, RefreshSound, SMTT(30) DEF LogTypeOK
  <2>4. SeenWhileInside'
    BY <1>t, <2>1, <2>2, RefreshSound, SameScope, Zenon DEF SeenWhileInside
  <2> QED BY <1>t, <2>1, <2>3, <2>4 DEF Attributed
<1>2. CASE TraceRecord
  <2>1. UNCHANGED <<log_procs, gone_at, clock, kmsg, handled, known_pids, last_refresh>>
    BY <1>2, Zenon DEF TraceRecord, processVars
  <2>2. at_record' \in 0..Len(kmsg)
    <3>1. at_record \in 0..Len(kmsg) /\ kmsg \in Seq(LogPids \X BOOLEAN)
      BY <1>t, Zenon DEF LogTypeOK
    <3>2. at_record' = at_record \/ (at_record < Len(kmsg) /\ at_record' = at_record + 1)
      BY <1>2, Zenon DEF TraceRecord
    <3>3. Len(kmsg) \in Nat
      BY <3>1
    <3> QED BY <3>1, <3>2, <3>3
  <2>3. SeenWhileInside'
    BY <1>t, <2>1, SameScope, Zenon DEF SeenWhileInside
  <2> QED BY <1>t, <2>1, <2>2, <2>3, Zenon DEF Attributed, LogTypeOK
<1>3. CASE WriteTraceFile
  <2>1. UNCHANGED <<log_procs, gone_at, clock, kmsg, at_record, handled, known_pids, last_refresh>>
    BY <1>3, Zenon DEF WriteTraceFile, processVars
  <2>2. SeenWhileInside'
    BY <1>t, <2>1, SameScope, Zenon DEF SeenWhileInside
  <2> QED BY <1>t, <2>1, <2>2 DEF Attributed, LogTypeOK
<1>4. CASE LogDenied
  <2>1. UNCHANGED <<log_procs, gone_at, clock, kmsg>>
    BY <1>4, Zenon DEF LogDenied, processVars
  <2>2. CASE UNCHANGED <<at_record, known_pids, last_refresh, handled>>
    <3>1. SeenWhileInside'
      BY <1>t, <2>1, <2>2, SameScope, Zenon DEF SeenWhileInside
    <3> QED BY <1>t, <2>1, <2>2, <3>1, Zenon DEF Attributed, LogTypeOK
  <2>3. CASE at_record < Len(kmsg) /\ at_record' = at_record + 1 /\ ~UNCHANGED <<at_record, known_pids, last_refresh, handled>>
    <3>1. PICK p : p = kmsg[at_record + 1][1]
      BY Zenon
    <3>2. p \in LogPids
      BY <1>t, <2>3, <3>1, SMTT(30) DEF LogTypeOK
    <3>3. /\ handled' = {[pid |-> p, there |-> InScope(p), logged |-> MatchesPid(p),
                          age |-> IF InScope(p) THEN 0 ELSE clock - gone_at[p],
                          ever |-> gone_at[p] # 0 \/ InScope(p)]}
          /\ known_pids' = ScopeAfter(p) /\ last_refresh' = ScopeTime(p)
      BY <1>4, <2>3, <3>1, Zenon DEF LogDenied
    <3>4. /\ ScopeAfter(p) \in {[known_pids EXCEPT ![Target] = clock], known_pids, Refresh(known_pids)}
          /\ ScopeTime(p) \in {last_refresh, clock}
      BY Zenon DEF ScopeAfter, ScopeTime, RefreshIfStale
    <3>5. LogTypeOK'
      <4>1. [known_pids EXCEPT ![Target] = clock] \in [LogPids -> 0..clock]
        BY <1>t DEF LogTypeOK
      <4>2. known_pids' \in [LogPids -> 0..clock]
        BY <1>t, <3>3, <3>4, <4>1, RefreshSound, Zenon DEF LogTypeOK
      <4>3. last_refresh' \in 0..clock /\ at_record' \in 0..Len(kmsg)
        BY <1>t, <2>3, <3>3, <3>4, SMTT(30) DEF LogTypeOK
      <4> QED BY <1>t, <2>1, <4>2, <4>3 DEF LogTypeOK
    <3>6. SeenWhileInside'
      BY <1>t, <2>1, <3>3, <3>4, RefreshSound, SameScope, Zenon DEF SeenWhileInside, LogTypeOK
    <3>7. InScope(p) => MatchesPid(p)
      <4> SUFFICES ASSUME InScope(p) PROVE IsRecent(Refresh(known_pids)[p])
        BY Zenon DEF MatchesPid
      <4>1. Refresh(known_pids)[p] = clock
        BY <1>t, <3>2, RefreshSound, Zenon
      <4>2. clock \in Nat \ {0} /\ StalePidTtl \in Nat
        BY <1>t, Zenon DEF LogTypeOK
      <4>3. clock # 0 /\ clock - clock <= StalePidTtl
        BY <4>2
      <4> QED BY <4>1, <4>3, Zenon DEF IsRecent
    <3>8. MatchesPid(p) /\ p # Target /\ ~InScope(p) => gone_at[p] # 0 /\ clock - gone_at[p] <= StalePidTtl
      <4> SUFFICES ASSUME MatchesPid(p), p # Target, ~InScope(p)
                   PROVE  gone_at[p] # 0 /\ clock - gone_at[p] <= StalePidTtl
        OBVIOUS
      <4>1. PICK seen : seen \in {known_pids[p], Refresh(known_pids)[p]} /\ IsRecent(seen)
        BY DEF MatchesPid, RefreshIfStale
      <4>2. seen \in 0..clock /\ seen # 0 /\ gone_at[p] >= seen /\ gone_at[p] \in 0..clock
        <5>1. known_pids[p] \in 0..clock /\ Refresh(known_pids)[p] \in 0..clock /\ gone_at[p] \in 0..clock
          BY <1>t, <3>2, RefreshSound, Zenon DEF LogTypeOK
        <5>2. seen # 0
          BY <4>1, Zenon DEF IsRecent
        <5>3. gone_at[p] >= seen
          BY <1>t, <3>2, <4>1, <5>2, RefreshSound, Zenon DEF SeenWhileInside
        <5> QED BY <4>1, <5>1, <5>2, <5>3, Zenon
      <4> QED BY <1>t, <4>1, <4>2 DEF IsRecent, LogTypeOK
    <3>9. Attributed'
      <4>1. PICK there \in BOOLEAN, logged \in BOOLEAN, ever \in BOOLEAN, age \in {0, clock - gone_at[p]} :
               /\ there = InScope(p) /\ logged = MatchesPid(p) /\ ever = (gone_at[p] # 0 \/ InScope(p))
               /\ age = IF InScope(p) THEN 0 ELSE clock - gone_at[p]
        BY Zenon DEF InScope, MatchesPid
      <4>2. handled' = {[pid |-> p, there |-> there, logged |-> logged, age |-> age, ever |-> ever]}
        BY <3>3, <4>1, Zenon
      <4>3. /\ there => logged
            /\ logged /\ p # Target => ever /\ age <= StalePidTtl
        BY <3>7, <3>8, <4>1, SMTT(30)
      <4> QED BY <4>2, <4>3 DEF Attributed
    <3> QED BY <3>5, <3>6, <3>9, Zenon
  <2> QED BY <1>4, <2>2, <2>3, Zenon DEF LogDenied
<1>5. CASE LoggerPolls
  <2>1. UNCHANGED <<log_procs, gone_at, clock, kmsg, at_record, handled>>
    BY <1>5 DEF LoggerPolls, processVars
  <2>2. known_pids' = Refresh(known_pids) /\ last_refresh' = clock
    BY <1>5, Zenon DEF LoggerPolls
  <2>3. LogTypeOK'
    BY <1>t, <2>1, <2>2, RefreshSound, SMTT(30) DEF LogTypeOK
  <2>4. SeenWhileInside'
    BY <1>t, <2>1, <2>2, RefreshSound, SameScope, Zenon DEF SeenWhileInside
  <2> QED BY <1>t, <2>1, <2>3, <2>4 DEF Attributed
<1>6. CASE ProcessStarts
  <2>1. PICK p \in LogPids, in \in BOOLEAN :
           /\ log_procs[p].state = "none"
           /\ log_procs' = [log_procs EXCEPT ![p] = [inside |-> in, state |-> "alive"]]
    BY <1>6, Zenon DEF ProcessStarts
  <2>2. UNCHANGED <<kmsg, clock, gone_at, at_record, handled, known_pids, last_refresh>>
    BY <1>6, Zenon DEF ProcessStarts, readerVars
  <2>3. LogTypeOK'
    BY <1>t, <2>1, <2>2, Zenon DEF LogTypeOK
  <2>4. \A q \in LogPids : InScope(q) => InScope(q)'
    BY <1>t, <2>1, Zenon DEF InScope, LogTypeOK
  <2> QED BY <1>t, <2>2, <2>3, <2>4, Zenon DEF Attributed, SeenWhileInside
<1>7. CASE SyscallLogged
  <2>1. PICK p \in LogPids, killed \in BOOLEAN :
           /\ log_procs[p].state = "alive"
           /\ kmsg' = Append(kmsg, <<p, log_procs[p].inside>>)
           /\ log_procs' = [log_procs EXCEPT ![p].state = IF killed THEN "zombie" ELSE "alive"]
    BY <1>7, Zenon DEF SyscallLogged
  <2>2. UNCHANGED <<clock, gone_at, at_record, handled, known_pids, last_refresh>>
    BY <1>7 DEF SyscallLogged, readerVars
  <2>3. kmsg' \in Seq(LogPids \X BOOLEAN) /\ at_record \in 0..Len(kmsg')
    BY <1>t, <2>1 DEF LogTypeOK
  <2>4. log_procs' \in [LogPids -> [inside : BOOLEAN, state : {"none", "alive", "zombie"}]]
    BY <1>t, <2>1, Zenon DEF LogTypeOK
  <2>5. \A q \in LogPids : InScope(q) => InScope(q)'
    BY <1>t, <2>1 DEF InScope, LogTypeOK
  <2> QED BY <1>t, <2>2, <2>3, <2>4, <2>5 DEF Attributed, SeenWhileInside, LogTypeOK
<1>8. CASE ProcessReaped
  <2>1. PICK p \in LogPids :
           /\ log_procs[p].state = "zombie"
           /\ log_procs' = [log_procs EXCEPT ![p] = [inside |-> FALSE, state |-> "none"]]
           /\ gone_at' = IF log_procs[p].inside THEN [gone_at EXCEPT ![p] = clock] ELSE gone_at
    BY <1>8, Zenon DEF ProcessReaped
  <2>2. UNCHANGED <<kmsg, clock, at_record, handled, known_pids, last_refresh>>
    BY <1>8, Zenon DEF ProcessReaped, readerVars
  <2>3. LogTypeOK'
    BY <1>t, <2>1, <2>2, SMTT(30) DEF LogTypeOK
  <2>4. \A q \in LogPids : q # p => InScope(q)' = InScope(q) /\ gone_at'[q] = gone_at[q]
    BY <1>t, <2>1, Zenon DEF InScope, LogTypeOK
  <2>5. InScope(p) => gone_at'[p] = clock
    BY <1>t, <2>1, Zenon DEF InScope, LogTypeOK
  <2>6. ~InScope(p) => gone_at'[p] = gone_at[p]
    BY <1>t, <2>1, Zenon DEF InScope, LogTypeOK
  <2>7. SeenWhileInside'
    <3> SUFFICES ASSUME NEW q \in LogPids, q # Target, known_pids[q] # 0
                 PROVE  InScope(q)' \/ gone_at'[q] >= known_pids[q]
      BY <2>2, Zenon DEF SeenWhileInside
    <3>1. InScope(q) \/ gone_at[q] >= known_pids[q]
      BY <1>t, Zenon DEF SeenWhileInside
    <3>2. known_pids[q] \in 0..clock /\ clock \in Nat
      BY <1>t, Zenon DEF LogTypeOK
    <3>3. clock >= known_pids[q]
      BY <3>2
    <3>4. CASE q # p
      BY <2>4, <3>1, <3>4, Zenon
    <3>5. CASE q = p
      BY <2>5, <2>6, <3>1, <3>3, <3>5, Zenon
    <3> QED BY <3>4, <3>5, Zenon
  <2> QED BY <1>t, <2>2, <2>3, <2>7 DEF Attributed
<1>9. CASE Tick
  <2>1. UNCHANGED <<log_procs, gone_at, kmsg, at_record, handled, known_pids, last_refresh>>
    BY <1>9 DEF Tick, processVars, readerVars
  <2>2. clock' = clock + 1
    BY <1>9, Zenon DEF Tick
  <2>3. LogTypeOK'
    BY <1>t, <2>1, <2>2, SMTT(30) DEF LogTypeOK
  <2>4. SeenWhileInside'
    BY <1>t, <2>1, SameScope, Zenon DEF SeenWhileInside
  <2> QED BY <1>t, <2>1, <2>3, <2>4 DEF Attributed
<1>10. CASE StopReader
  <2>1. UNCHANGED <<log_procs, gone_at, clock, kmsg, at_record, handled, known_pids, last_refresh>>
    BY <1>10, Zenon DEF StopReader, processVars, readerVars
  <2>2. SeenWhileInside'
    BY <1>t, <2>1, SameScope, Zenon DEF SeenWhileInside
  <2> QED BY <1>t, <2>1, <2>2 DEF Attributed, LogTypeOK
<1>11. CASE UNCHANGED logVars
  <2>1. UNCHANGED <<log_procs, gone_at, clock, kmsg, at_record, handled, known_pids, last_refresh>>
    BY <1>11, Zenon DEF logVars
  <2>2. SeenWhileInside'
    BY <1>t, <2>1, SameScope, Zenon DEF SeenWhileInside
  <2> QED BY <1>t, <2>1, <2>2 DEF Attributed, LogTypeOK
<1> QED BY <1>1, <1>2, <1>3, <1>4, <1>5, <1>6, <1>7, <1>8, <1>9, <1>10, <1>11 DEF SeccompLogNext, ReaderStep

\* The readers of /dev/kmsg (seccomp_trace.rs): denials are attributed to the right
\* container for any set of PIDs, any time-to-live and any number of records.
THEOREM SeccompLogCorrect == SeccompLogSpec => []DenialsAttributed
BY LogStart, LogKept, PTL DEF SeccompLogSpec
=============================================================================
