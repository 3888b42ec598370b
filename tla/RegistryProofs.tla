---------------------------- MODULE RegistryProofs ----------------------------
(***************************************************************************)
(* Proofs that, for every set of containers, PIDs and commands, no command *)
(* signals a process on the word of a stale record, a successful stop or   *)
(* delete leaves no live worker, and no running container loses its        *)
(* record.  Only the first needs an assumption: that a PID is not reused   *)
(* between its report to the supervisor and the reading of its start       *)
(* ticks.                                                                  *)
(***************************************************************************)
EXTENDS Registry, TLAPS

\* A step in which processes only die and are reaped.
Decays ==
    /\ UNCHANGED <<wpid, wticks, pof, ptick>>
    /\ \A p \in Pids : /\ pst'[p] # "free" => pst[p] # "free"
                       /\ pst'[p] = "live" => pst[p] = "live"

\* A step of command m: it touches no other command, and the only record it may
\* remove is that of a dead worker.
Steps(m) ==
    /\ UNCHANGED <<sup, clock>>
    /\ \A c \in Ids : file'[c] = file[c] \/ (file'[c] = "absent" /\ ~Live(c))
    /\ seen'[m] <= clock
    /\ \A n \in Cmds \ {m} : /\ cpc'[n] = cpc[n] /\ op'[n] = op[n] /\ cid'[n] = cid[n]
                             /\ snap'[n] = snap[n] /\ seen'[n] = seen[n]

\* In such a step no worker comes to life and every recorded identity is kept.
LEMMA LiveDecays ==
  ASSUME TypeOK, Decays, NEW c \in Ids
  PROVE  (Live(c)' => Live(c)) /\ (Known(c) => Known(c)')
BY DEF TypeOK, Decays, Live, Known, Present

\* A command that does not move keeps what it relies on.
LEMMA CommandKept ==
  ASSUME TypeOK, Decays, NEW n \in Cmds, CommandOK(n),
         cpc'[n] = cpc[n], op'[n] = op[n], cid'[n] = cid[n],
         snap'[n] = snap[n], seen'[n] = seen[n]
  PROVE  CommandOK(n)'
<1>1. \A c \in Ids : (Live(c)' => Live(c)) /\ (Known(c) => Known(c)')
  BY LiveDecays
<1> QED BY <1>1 DEF CommandOK, Decays

\* A step of a command preserves the invariant if it leaves the command itself
\* in order.
LEMMA CommandStep ==
  ASSUME RegistryInv, NEW m \in Cmds, TypeOK', Decays, Steps(m), CommandOK(m)'
  PROVE  RegistryInv'
<1> USE DEF RegistryInv
<1>1. \A c \in Ids : (Live(c)' => Live(c)) /\ (Known(c) => Known(c)')
  BY LiveDecays
<1>2. Times' /\ Workers'
  BY DEF Decays, Steps, TypeOK, Times, Workers
<1>3. Identity'
  BY <1>1 DEF Decays, Steps, TypeOK, Workers, Identity
<1>4. Ended' /\ RemovedOnlyDead'
  BY <1>1 DEF Decays, Steps, TypeOK, Ended, RemovedOnlyDead
<1>5. ASSUME NEW n \in Cmds PROVE CommandOK(n)'
  <2>1. CASE n = m
    BY <2>1
  <2>2. CASE n # m
    BY <2>2, CommandKept DEF Steps
  <2> QED BY <2>1, <2>2
<1> QED BY <1>2, <1>3, <1>4, <1>5

\* What an is_running check tells: no means that the worker is dead, and yes that
\* the PID is still the worker's.
LEMMA CheckAnswers ==
  ASSUME RegistryInv, NEW m \in Cmds, cpc[m] # "idle"
  PROVE  /\ ~is_running(m) => ~Live(cid[m])
         /\ is_running(m) /\ ~EagerReuse => pof[wpid[cid[m]]] = cid[m]
<1>1. cid[m] \in Ids /\ Known(cid[m]) /\ (snap[m] = "stopped" => ~Live(cid[m]))
  BY DEF RegistryInv, CommandOK
<1>2. ~is_running(m) => ~Live(cid[m])
  BY <1>1 DEF RegistryInv, TypeOK, Times, is_running, Known, Live, Present
<1>3. is_running(m) /\ ~EagerReuse => pof[wpid[cid[m]]] = cid[m]
  BY <1>1 DEF RegistryInv, Identity, is_running
<1> QED BY <1>2, <1>3

\* ESRCH means that the worker is dead.
LEMMA GoneIsDead ==
  ASSUME NEW m \in Cmds, ~Exists(m)
  PROVE  ~Live(cid[m])
BY DEF Exists, Live, Present


\* One step per action of the supervisor.
LEMMA SupervisorPreserves ==
  ASSUME RegistryInv, NEW c \in Ids, Supervisor(c)
  PROVE  RegistryInv'
<1> USE RegistryAssumption DEF RegistryInv, procs, store, commands
<1>1. CASE CheckName(c)
  <2>1. TypeOK' /\ Decays
    BY <1>1 DEF CheckName, Decays, TypeOK, Workers, SupLocations
  <2>2. \A d \in Ids : (Live(d)' => Live(d)) /\ (Known(d) => Known(d)')
    BY <1>1, <2>1, LiveDecays DEF CheckName
  <2>3. Times'
    BY <1>1, <2>1 DEF CheckName, Decays, TypeOK, Times
  <2>4. Workers'
    BY <1>1 DEF CheckName, TypeOK, Workers
  <2>5. Identity'
    BY <1>1, <2>2 DEF CheckName, TypeOK, Workers, Identity
  <2>6. Ended' /\ RemovedOnlyDead'
    BY <1>1, <2>2 DEF CheckName, TypeOK, Workers, Ended, RemovedOnlyDead
  <2>7. \A m \in Cmds : CommandOK(m)'
    BY <1>1, <2>1, CommandKept DEF CheckName
  <2> QED BY <2>1, <2>3, <2>4, <2>5, <2>6, <2>7
<1>2. ASSUME NEW p \in Pids, ForkWorker(c, p) PROVE RegistryInv'
  <2>1. TypeOK'
    BY <1>2 DEF ForkWorker, Spawn, TypeOK, Workers, SupLocations
  <2>2. Times' /\ Workers'
    BY <1>2 DEF ForkWorker, Spawn, TypeOK, Times, Workers
  <2>3. Identity'
    BY <1>2 DEF ForkWorker, Spawn, TypeOK, Times, Workers, Identity, Known,
         Present
  <2>4. Ended' /\ RemovedOnlyDead'
    BY <1>2 DEF ForkWorker, Spawn, TypeOK, Workers, Ended, RemovedOnlyDead,
         Live, Present
  <2>5. \A d \in Ids : wpid[d] \in Pids => (Live(d)' => Live(d)) /\ (Known(d) => Known(d)')
    BY <1>2 DEF ForkWorker, Spawn, TypeOK, Workers, Known, Live, Present
  <2>6. ASSUME NEW m \in Cmds PROVE CommandOK(m)'
    BY <1>2, <2>5 DEF ForkWorker, Spawn, TypeOK, Times, Workers, CommandOK
  <2> QED BY <2>1, <2>2, <2>3, <2>4, <2>6
<1>3. CASE SaveCreated(c)
  <2>1. TypeOK'
    BY <1>3 DEF SaveCreated, TypeOK, Workers, SupLocations
  <2>2. Times' /\ Workers'
    BY <1>3 DEF SaveCreated, TypeOK, Times, Workers
  <2>3. Identity'
    BY <1>3 DEF SaveCreated, TypeOK, Times, Workers, Identity, Known, Present
  <2>4. Ended' /\ RemovedOnlyDead'
    BY <1>3 DEF SaveCreated, TypeOK, Workers, Ended, RemovedOnlyDead, Live,
         Present
  <2>5. \A d \in Ids : wpid[d] \in Pids => (Live(d)' => Live(d)) /\ (Known(d) => Known(d)')
    BY <1>3 DEF SaveCreated, TypeOK, Workers, Known, Live, Present
  <2>6. ASSUME NEW m \in Cmds PROVE CommandOK(m)'
    BY <1>3, <2>5 DEF SaveCreated, TypeOK, Times, Workers, CommandOK
  <2> QED BY <2>1, <2>2, <2>3, <2>4, <2>6
<1>4. CASE AbortCreate(c)
  <2>1. TypeOK' /\ Decays
    BY <1>4 DEF AbortCreate, Decays, TypeOK, Workers, SupLocations, Killed,
         Present
  <2>2. \A d \in Ids : (Live(d)' => Live(d)) /\ (Known(d) => Known(d)')
    BY <1>4, <2>1, LiveDecays DEF AbortCreate
  <2>3. Times'
    BY <1>4, <2>1 DEF AbortCreate, Decays, TypeOK, Times
  <2>4. Workers'
    BY <1>4 DEF AbortCreate, TypeOK, Workers
  <2>5. Identity'
    BY <1>4, <2>2 DEF AbortCreate, TypeOK, Workers, Identity
  <2>6. Ended' /\ RemovedOnlyDead'
    BY <1>4, <2>2 DEF AbortCreate, TypeOK, Workers, Ended, RemovedOnlyDead
  <2>7. \A m \in Cmds : CommandOK(m)'
    BY <1>4, <2>1, CommandKept DEF AbortCreate
  <2> QED BY <2>1, <2>3, <2>4, <2>5, <2>6, <2>7
<1>5. CASE SaveRunning(c)
  <2>1. TypeOK' /\ Decays
    BY <1>5 DEF SaveRunning, Decays, TypeOK, Workers, SupLocations
  <2>2. \A d \in Ids : (Live(d)' => Live(d)) /\ (Known(d) => Known(d)')
    BY <1>5, <2>1, LiveDecays DEF SaveRunning
  <2>3. Times'
    BY <1>5, <2>1 DEF SaveRunning, Decays, TypeOK, Times
  <2>4. Workers'
    BY <1>5 DEF SaveRunning, TypeOK, Workers
  <2>5. Identity'
    BY <1>5, <2>2 DEF SaveRunning, TypeOK, Workers, Identity
  <2>6. Ended' /\ RemovedOnlyDead'
    BY <1>5, <2>2 DEF SaveRunning, TypeOK, Workers, Ended, RemovedOnlyDead
  <2>7. \A m \in Cmds : CommandOK(m)'
    BY <1>5, <2>1, CommandKept DEF SaveRunning
  <2> QED BY <2>1, <2>3, <2>4, <2>5, <2>6, <2>7
<1>6. CASE AbortStart(c)
  <2>1. TypeOK' /\ Decays
    BY <1>6 DEF AbortStart, Decays, TypeOK, Workers, SupLocations, Live,
         Present
  <2>2. \A d \in Ids : (Live(d)' => Live(d)) /\ (Known(d) => Known(d)')
    BY <1>6, <2>1, LiveDecays DEF AbortStart
  <2>3. Times'
    BY <1>6, <2>1 DEF AbortStart, Decays, TypeOK, Times
  <2>4. Workers'
    BY <1>6 DEF AbortStart, TypeOK, Workers
  <2>5. Identity'
    BY <1>6, <2>2 DEF AbortStart, TypeOK, Workers, Identity
  <2>6. Ended' /\ RemovedOnlyDead'
    BY <1>6, <2>2 DEF AbortStart, TypeOK, Workers, Ended, RemovedOnlyDead
  <2>7. \A m \in Cmds : CommandOK(m)'
    BY <1>6, <2>1, CommandKept DEF AbortStart
  <2> QED BY <2>1, <2>3, <2>4, <2>5, <2>6, <2>7
<1>7. CASE WaitChild(c)
  <2>1. TypeOK' /\ Decays
    BY <1>7 DEF WaitChild, Decays, TypeOK, Workers, SupLocations, Present
  <2>2. \A d \in Ids : (Live(d)' => Live(d)) /\ (Known(d) => Known(d)')
    BY <1>7, <2>1, LiveDecays DEF WaitChild
  <2>3. Times'
    BY <1>7, <2>1 DEF WaitChild, Decays, TypeOK, Times
  <2>4. Workers'
    BY <1>7 DEF WaitChild, TypeOK, Workers
  <2>5. Identity'
    BY <1>7, <2>2 DEF WaitChild, TypeOK, Workers, Identity
  <2>6. Ended' /\ RemovedOnlyDead'
    BY <1>7, <2>2 DEF WaitChild, TypeOK, Workers, Ended, RemovedOnlyDead
  <2>7. \A m \in Cmds : CommandOK(m)'
    BY <1>7, <2>1, CommandKept DEF WaitChild
  <2> QED BY <2>1, <2>3, <2>4, <2>5, <2>6, <2>7
<1>8. CASE DeleteState(c)
  <2>1. TypeOK' /\ Decays
    BY <1>8 DEF DeleteState, Decays, TypeOK, Workers, SupLocations
  <2>2. \A d \in Ids : (Live(d)' => Live(d)) /\ (Known(d) => Known(d)')
    BY <1>8, <2>1, LiveDecays DEF DeleteState
  <2>3. Times'
    BY <1>8, <2>1 DEF DeleteState, Decays, TypeOK, Times
  <2>4. Workers'
    BY <1>8 DEF DeleteState, TypeOK, Workers
  <2>5. Identity'
    BY <1>8, <2>2 DEF DeleteState, TypeOK, Workers, Identity
  <2>6. Ended' /\ RemovedOnlyDead'
    BY <1>8, <2>2 DEF DeleteState, TypeOK, Workers, Ended, RemovedOnlyDead
  <2>7. \A m \in Cmds : CommandOK(m)'
    BY <1>8, <2>1, CommandKept DEF DeleteState
  <2> QED BY <2>1, <2>3, <2>4, <2>5, <2>6, <2>7
<1> QED BY <1>1, <1>2, <1>3, <1>4, <1>5, <1>6, <1>7, <1>8 DEF Supervisor

\* The end and the reaping of a worker, and a crash of its supervisor.
LEMMA ContainerPreserves ==
  ASSUME RegistryInv, NEW c \in Ids, WorkerExits(c) \/ Reap(c) \/ Crash(c)
  PROVE  RegistryInv'
<1> USE RegistryAssumption DEF RegistryInv, procs, store, commands
<1>1. CASE WorkerExits(c)
  <2>1. TypeOK' /\ Decays
    BY <1>1 DEF WorkerExits, Decays, TypeOK, Workers, SupLocations, Live,
         Present
  <2>2. \A d \in Ids : (Live(d)' => Live(d)) /\ (Known(d) => Known(d)')
    BY <1>1, <2>1, LiveDecays DEF WorkerExits
  <2>3. Times'
    BY <1>1, <2>1 DEF WorkerExits, Decays, TypeOK, Times
  <2>4. Workers'
    BY <1>1 DEF WorkerExits, TypeOK, Workers
  <2>5. Identity'
    BY <1>1, <2>2 DEF WorkerExits, TypeOK, Workers, Identity
  <2>6. Ended' /\ RemovedOnlyDead'
    BY <1>1, <2>2, SMTT(30) DEF WorkerExits, TypeOK, Workers, Ended, RemovedOnlyDead
  <2>7. \A m \in Cmds : CommandOK(m)'
    BY <1>1, <2>1, CommandKept DEF WorkerExits
  <2> QED BY <2>1, <2>3, <2>4, <2>5, <2>6, <2>7
<1>2. CASE Reap(c)
  <2>1. TypeOK' /\ Decays
    BY <1>2 DEF Reap, Decays, TypeOK, Workers, SupLocations, Live, Present
  <2>2. \A d \in Ids : (Live(d)' => Live(d)) /\ (Known(d) => Known(d)')
    BY <1>2, <2>1, LiveDecays DEF Reap
  <2>3. Times'
    BY <1>2, <2>1 DEF Reap, Decays, TypeOK, Times
  <2>4. Workers'
    BY <1>2 DEF Reap, TypeOK, Workers
  <2>5. Identity'
    BY <1>2, <2>2 DEF Reap, TypeOK, Workers, Identity
  <2>6. Ended' /\ RemovedOnlyDead'
    BY <1>2, <2>2, SMTT(30) DEF Reap, TypeOK, Workers, Ended, RemovedOnlyDead
  <2>7. \A m \in Cmds : CommandOK(m)'
    BY <1>2, <2>1, CommandKept DEF Reap
  <2> QED BY <2>1, <2>3, <2>4, <2>5, <2>6, <2>7
<1>3. CASE Crash(c)
  <2>1. TypeOK' /\ Decays
    BY <1>3 DEF Crash, Decays, TypeOK, Workers, SupLocations
  <2>2. \A d \in Ids : (Live(d)' => Live(d)) /\ (Known(d) => Known(d)')
    BY <1>3, <2>1, LiveDecays DEF Crash
  <2>3. Times'
    BY <1>3, <2>1 DEF Crash, Decays, TypeOK, Times
  <2>4. Workers'
    BY <1>3 DEF Crash, TypeOK, Workers
  <2>5. Identity'
    BY <1>3, <2>2 DEF Crash, TypeOK, Workers, Identity
  <2>6. Ended' /\ RemovedOnlyDead'
    BY <1>3, <2>2 DEF Crash, TypeOK, Workers, Ended, RemovedOnlyDead
  <2>7. \A m \in Cmds : CommandOK(m)'
    BY <1>3, <2>1, CommandKept DEF Crash
  <2> QED BY <2>1, <2>3, <2>4, <2>5, <2>6, <2>7
<1> QED BY <1>1, <1>2, <1>3

\* Other processes: a new one has ticks that no record holds.
LEMMA HostPreserves ==
  ASSUME RegistryInv, NEW p \in Pids, OtherForks(p) \/ OtherExits(p)
  PROVE  RegistryInv'
<1> USE RegistryAssumption DEF RegistryInv, procs, store, commands
<1>1. CASE OtherForks(p)
  <2>1. TypeOK'
    BY <1>1 DEF OtherForks, Spawn, TypeOK, Workers, SupLocations
  <2>2. Times' /\ Workers'
    BY <1>1 DEF OtherForks, Spawn, TypeOK, Times, Workers
  <2>3. Identity'
    BY <1>1 DEF OtherForks, Spawn, TypeOK, Times, Workers, Identity, Known,
         Present
  <2>4. Ended' /\ RemovedOnlyDead'
    BY <1>1 DEF OtherForks, Spawn, TypeOK, Workers, Ended, RemovedOnlyDead,
         Live, Present
  <2>5. \A d \in Ids : wpid[d] \in Pids => (Live(d)' => Live(d)) /\ (Known(d) => Known(d)')
    BY <1>1 DEF OtherForks, Spawn, TypeOK, Workers, Known, Live, Present
  <2>6. ASSUME NEW m \in Cmds PROVE CommandOK(m)'
    BY <1>1, <2>5 DEF OtherForks, Spawn, TypeOK, Times, Workers, CommandOK
  <2> QED BY <2>1, <2>2, <2>3, <2>4, <2>6
<1>2. CASE OtherExits(p)
  <2>1. TypeOK' /\ Decays
    BY <1>2 DEF OtherExits, Decays, TypeOK, Workers, SupLocations
  <2>2. \A d \in Ids : (Live(d)' => Live(d)) /\ (Known(d) => Known(d)')
    BY <1>2, <2>1, LiveDecays DEF OtherExits
  <2>3. Times'
    BY <1>2, <2>1 DEF OtherExits, Decays, TypeOK, Times
  <2>4. Workers'
    BY <1>2 DEF OtherExits, TypeOK, Workers
  <2>5. Identity'
    BY <1>2, <2>2 DEF OtherExits, TypeOK, Workers, Identity
  <2>6. Ended' /\ RemovedOnlyDead'
    BY <1>2, <2>2 DEF OtherExits, TypeOK, Workers, Ended, RemovedOnlyDead
  <2>7. \A m \in Cmds : CommandOK(m)'
    BY <1>2, <2>1, CommandKept DEF OtherExits
  <2> QED BY <2>1, <2>3, <2>4, <2>5, <2>6, <2>7
<1> QED BY <1>1, <1>2

\* One step per action of a command.
LEMMA CommandPreserves ==
  ASSUME RegistryInv, NEW m \in Cmds,
         (\E o \in Ops, c \in Ids : Resolve(m, o, c)) \/ Command(m)
  PROVE  RegistryInv'
<1> USE RegistryAssumption DEF RegistryInv, procs, store, commands
<1>1. ASSUME NEW o \in Ops, NEW c \in Ids, Resolve(m, o, c) PROVE RegistryInv'
  <2>1. TypeOK'
    BY <1>1 DEF Resolve, TypeOK, CommandOK, CmdLocations, Ops
  <2>2. Decays /\ Steps(m)
    BY <1>1 DEF Resolve, Decays, Steps, TypeOK, Times, CommandOK
  <2>3. CommandOK(m)'
    BY <1>1 DEF Resolve, TypeOK, CommandOK, Workers, Identity, Ended, Known,
         Live, Present
  <2> QED BY <2>1, <2>2, <2>3, CommandStep
<1>2. CASE StopCheck(m)
  <2>1. TypeOK'
    BY <1>2 DEF StopCheck, Checks, Stopped, TypeOK, CommandOK, CmdLocations,
         Ops
  <2>2. Decays /\ Steps(m)
    BY <1>2 DEF StopCheck, Checks, Stopped, Decays, Steps, TypeOK, Times,
         CommandOK
  <2>3. \A c \in Ids : (Live(c)' => Live(c)) /\ (Known(c) => Known(c)')
    BY <2>2, LiveDecays
  <2>4. CommandOK(m)'
    BY <1>2, <2>3, CheckAnswers DEF StopCheck, Checks, Stopped, TypeOK,
         CommandOK
  <2> QED BY <2>1, <2>2, <2>4, CommandStep
<1>3. CASE Probe(m)
  <2>1. TypeOK'
    BY <1>3 DEF Probe, Stopped, TypeOK, CommandOK, CmdLocations, Ops
  <2>2. Decays /\ Steps(m)
    BY <1>3 DEF Probe, Stopped, Decays, Steps, TypeOK, Times, CommandOK
  <2>3. \A c \in Ids : (Live(c)' => Live(c)) /\ (Known(c) => Known(c)')
    BY <2>2, LiveDecays
  <2>4. CommandOK(m)'
    BY <1>3, <2>3, GoneIsDead DEF Probe, Stopped, TypeOK, CommandOK
  <2> QED BY <2>1, <2>2, <2>4, CommandStep
<1>4. CASE Term(m)
  <2>1. TypeOK'
    BY <1>4 DEF Term, Signals, Stopped, Killed, TypeOK, CommandOK,
         CmdLocations, Ops
  <2>2. Decays /\ Steps(m)
    BY <1>4 DEF Term, Signals, Stopped, Killed, Decays, Steps, TypeOK, Times,
         CommandOK
  <2>3. \A c \in Ids : (Live(c)' => Live(c)) /\ (Known(c) => Known(c)')
    BY <2>2, LiveDecays
  <2>4. CommandOK(m)'
    BY <1>4, <2>3, GoneIsDead DEF Term, Signals, Stopped, Killed, TypeOK,
         CommandOK
  <2> QED BY <2>1, <2>2, <2>4, CommandStep
<1>5. CASE Poll(m)
  <2>1. TypeOK'
    BY <1>5 DEF Poll, Checks, Stopped, TypeOK, CommandOK, CmdLocations, Ops
  <2>2. Decays /\ Steps(m)
    BY <1>5 DEF Poll, Checks, Stopped, Decays, Steps, TypeOK, Times, CommandOK
  <2>3. \A c \in Ids : (Live(c)' => Live(c)) /\ (Known(c) => Known(c)')
    BY <2>2, LiveDecays
  <2>4. CommandOK(m)'
    BY <1>5, <2>3, CheckAnswers DEF Poll, Checks, Stopped, TypeOK, CommandOK
  <2> QED BY <2>1, <2>2, <2>4, CommandStep
<1>6. CASE Timeout(m)
  <2>1. TypeOK'
    BY <1>6 DEF Timeout, TypeOK, CommandOK, CmdLocations, Ops
  <2>2. Decays /\ Steps(m)
    BY <1>6 DEF Timeout, Decays, Steps, TypeOK, Times, CommandOK
  <2>3. \A c \in Ids : (Live(c)' => Live(c)) /\ (Known(c) => Known(c)')
    BY <2>2, LiveDecays
  <2>4. CommandOK(m)'
    BY <1>6, <2>3 DEF Timeout, TypeOK, CommandOK
  <2> QED BY <2>1, <2>2, <2>4, CommandStep
<1>7. CASE SigKill(m)
  <2>1. TypeOK'
    BY <1>7 DEF SigKill, Signals, Stopped, Killed, TypeOK, CommandOK,
         CmdLocations, Ops
  <2>2. Decays /\ Steps(m)
    BY <1>7 DEF SigKill, Signals, Stopped, Killed, Decays, Steps, TypeOK,
         Times, CommandOK
  <2>3. \A c \in Ids : (Live(c)' => Live(c)) /\ (Known(c) => Known(c)')
    BY <2>2, LiveDecays
  <2>4. cpc'[m] # "err" => ~Live(cid[m])'
    BY <1>7 DEF SigKill, Signals, Exists, Killed, Stopped, TypeOK, CommandOK,
         Live, Present
  <2>5. CommandOK(m)'
    BY <1>7, <2>3, <2>4, GoneIsDead DEF SigKill, Signals, Stopped, Killed,
         TypeOK, CommandOK
  <2> QED BY <2>1, <2>2, <2>5, CommandStep
<1>8. CASE KillCheck(m)
  <2>1. TypeOK'
    BY <1>8 DEF KillCheck, Checks, TypeOK, CommandOK, CmdLocations, Ops
  <2>2. Decays /\ Steps(m)
    BY <1>8 DEF KillCheck, Checks, Decays, Steps, TypeOK, Times, CommandOK
  <2>3. \A c \in Ids : (Live(c)' => Live(c)) /\ (Known(c) => Known(c)')
    BY <2>2, LiveDecays
  <2>4. CommandOK(m)'
    BY <1>8, <2>3, CheckAnswers DEF KillCheck, Checks, TypeOK, CommandOK
  <2> QED BY <2>1, <2>2, <2>4, CommandStep
<1>9. CASE KillSignal(m)
  <2>1. TypeOK'
    BY <1>9 DEF KillSignal, Signals, Killed, TypeOK, CommandOK, CmdLocations,
         Ops
  <2>2. Decays /\ Steps(m)
    BY <1>9 DEF KillSignal, Signals, Killed, Decays, Steps, TypeOK, Times,
         CommandOK
  <2>3. \A c \in Ids : (Live(c)' => Live(c)) /\ (Known(c) => Known(c)')
    BY <2>2, LiveDecays
  <2>4. CommandOK(m)'
    BY <1>9, <2>3 DEF KillSignal, Signals, Killed, TypeOK, CommandOK
  <2> QED BY <2>1, <2>2, <2>4, CommandStep
<1>10. CASE RemoveCheck(m)
  <2>1. TypeOK'
    BY <1>10 DEF RemoveCheck, Checks, TypeOK, CommandOK, CmdLocations, Ops
  <2>2. Decays /\ Steps(m)
    BY <1>10 DEF RemoveCheck, Checks, Decays, Steps, TypeOK, Times, CommandOK
  <2>3. \A c \in Ids : (Live(c)' => Live(c)) /\ (Known(c) => Known(c)')
    BY <2>2, LiveDecays
  <2>4. CommandOK(m)'
    BY <1>10, <2>3, CheckAnswers DEF RemoveCheck, Checks, TypeOK, CommandOK
  <2> QED BY <2>1, <2>2, <2>4, CommandStep
<1>11. CASE Remove(m)
  <2>1. TypeOK'
    BY <1>11 DEF Remove, TypeOK, CommandOK, CmdLocations, Ops
  <2>2. Decays /\ Steps(m)
    BY <1>11 DEF Remove, Decays, Steps, TypeOK, Times, CommandOK
  <2>3. \A c \in Ids : (Live(c)' => Live(c)) /\ (Known(c) => Known(c)')
    BY <2>2, LiveDecays
  <2>4. CommandOK(m)'
    BY <1>11, <2>3 DEF Remove, TypeOK, CommandOK
  <2> QED BY <2>1, <2>2, <2>4, CommandStep
<1> QED BY <1>1, <1>2, <1>3, <1>4, <1>5, <1>6, <1>7, <1>8, <1>9, <1>10, <1>11
  DEF Command

\* The initial state satisfies the invariant: nothing has been launched.
LEMMA RegistryInvInit == Init => RegistryInv
BY RegistryAssumption
   DEF Init, RegistryInv, TypeOK, Times, Workers, Identity, Ended, CommandOK,
       RemovedOnlyDead, Known, Present, Live, SupLocations,
       CmdLocations, Ops

\* Every step of the system preserves it.
LEMMA RegistryInvStep ==
  ASSUME RegistryInv, [Next]_vars
  PROVE  RegistryInv'
<1>1. CASE UNCHANGED vars
  <2>1. TypeOK' /\ Times' /\ Workers'
    BY <1>1, Zenon DEF vars, RegistryInv, TypeOK, Times, Workers
  <2>2. Identity' /\ Ended' /\ RemovedOnlyDead'
    BY <1>1, Zenon DEF vars, RegistryInv, Identity, Ended, RemovedOnlyDead, Known, Present, Live
  <2>3. \A m \in Cmds : CommandOK(m)'
    BY <1>1 DEF vars, RegistryInv, CommandOK, Known, Present, Live
  <2> QED BY <2>1, <2>2, <2>3 DEF RegistryInv
<1>2. CASE Next
  BY <1>2, SupervisorPreserves, ContainerPreserves, HostPreserves,
     CommandPreserves DEF Next
<1> QED BY <1>1, <1>2

\* The invariant of the registry holds in every reachable state.
THEOREM RegistryInvariance == Spec => []RegistryInv
BY RegistryInvInit, RegistryInvStep, PTL DEF Spec

\* Records, processes and commands stay well typed; the file of a container says
\* absent, created, running or stopped and nothing else.
THEOREM RegistryTyped == Spec => []TypeOK
<1>1. RegistryInv => TypeOK
  BY DEF RegistryInv
<1> QED BY <1>1, RegistryInvariance, PTL

\* stop and kill_container never signal on the word of a stale record: the
\* process that has the PID is the container's worker, or was born after the
\* command's last is_running check.  It needs the ticks of a record to be those of
\* the worker.
THEOREM SignalsAreFresh ==
  ASSUME ~EagerReuse
  PROVE  Spec => []NoStaleSignal
<1>1. RegistryInv => NoStaleSignal
  BY DEF RegistryInv, CommandOK, NoStaleSignal, AboutToSignal
<1> QED BY <1>1, RegistryInvariance, PTL

\* A stop, delete or delete --force that returned Ok leaves no live worker.
THEOREM StopIsFinal == Spec => []StopMeansDead
<1>1. RegistryInv => StopMeansDead
  BY DEF RegistryInv, CommandOK, StopMeansDead, Live, Present
<1> QED BY <1>1, RegistryInvariance, PTL

\* Neither commands nor supervisors delete the record of a live worker.
THEOREM RecordsOutliveWorkers == Spec => []RemovedOnlyDead
<1>1. RegistryInv => RemovedOnlyDead
  BY DEF RegistryInv
<1> QED BY <1>1, RegistryInvariance, PTL
===============================================================================
