----------------------------- MODULE Supervise -----------------------------
(***************************************************************************)
(* The supervisor of a running container (container/runtime.rs start):     *)
(* the main thread that waits for the container, the thread that forwards  *)
(* signals, the health-check thread (container/health.rs) and the console  *)
(* relay (container/console.rs), with the probes that are forked into the  *)
(* container (isolation/attach.rs).                                        *)
(*                                                                         *)
(* The supervisor's child reaps the container's first process; from then   *)
(* on the kernel may give its PID to a process of somebody else.           *)
(***************************************************************************)
EXTENDS Naturals

CONSTANTS
    Supervisions,   \* [uid, rootless, pidfd, console, readiness, health] of a container
    MaxAttempts,    \* readiness attempts (60)
    Retries,        \* failed health checks that make a container unhealthy
    MaxProbeRounds, \* bound: health checks that are followed
    MaxSent         \* bound: signals sent to the supervisor from outside

ASSUME SuperviseAssumption ==
    /\ \A v \in Supervisions : v.pidfd \in BOOLEAN
    /\ MaxAttempts \in Nat /\ Retries \in Nat

VARIABLES
    sup,            \* the container's supervision, one of Supervisions
    target,         \* its first process: "up", "zombie", "reaped", "reused"
    answers,        \* what a probe command does: "passes", "fails" or "hangs"
    main,           \* the main thread
    erred,          \* has a step of start() failed, so that it returns early?
    attempts,       \* readiness attempts made
    checker,        \* the health-check thread
    failures,       \* consecutive failures
    rounds,         \* health checks made
    helper_state,   \* the probe helper: "none", "forked", "entered", "exec"
    cancel, sig_stop, \* the two stop flags
    forwarder,      \* the signal thread: "waiting", "woken", "ended", "none"
    waking,         \* is the wake-up signal (SIGUSR1) pending?
    sent,           \* signals sent from outside
    pending_signals,\* those not yet taken by the signal thread
    relay,          \* the console output thread: "none", "open", "ended"
    received,       \* what the container was sent: "user", "wake", "term"
    stray           \* history: processes of others that were signalled, by whom

superviseVars == <<sup, target, answers, main, erred, attempts, checker, failures, rounds, helper_state,
                   cancel, sig_stop, forwarder, waking, sent, pending_signals, relay, received, stray>>

SuperviseTypeOK ==
    /\ target \in {"up", "zombie", "reaped", "reused"}
    /\ sup \in Supervisions /\ failures \in Nat /\ attempts \in 0..MaxAttempts
    /\ received \subseteq {"user", "wake", "term"}

SuperviseInit ==
    /\ sup \in Supervisions
    /\ target = "up" /\ answers = "passes"
    /\ main = "begin" /\ erred = FALSE /\ attempts = 0
    /\ checker = "none" /\ failures = 0 /\ rounds = 0 /\ helper_state = "none"
    /\ cancel = FALSE /\ sig_stop = FALSE /\ forwarder = "none" /\ waking = FALSE
    /\ sent = 0 /\ pending_signals = 0 /\ relay = "none"
    /\ received = {} /\ stray = {}

threads == <<checker, failures, rounds, helper_state, cancel, forwarder, pending_signals, relay>>
outside == <<sup, answers, sent>>
signalled == <<received, stray>>

\* kill(pid, ..): whoever has the PID now gets it.
Kill(what) ==
    CASE target \in {"up", "zombie"} -> received' = received \cup {what} /\ UNCHANGED stray
      [] target = "reaped" -> UNCHANGED <<received, stray>>
      [] target = "reused" -> stray' = stray \cup {what} /\ UNCHANGED received

\* kill(pid, 0)
Alive == target # "reaped"

---------------------------------------------------------------------------
(* The main thread *)

\* setup_signal_forwarding_static and NativeConsoleRelay::start
StartThreads ==
    /\ main = "begin"
    /\ main' = IF sup.readiness THEN "ready" ELSE "spawn"
    /\ forwarder' = "waiting"
    /\ relay' = IF sup.console THEN "open" ELSE "none"
    /\ UNCHANGED <<outside, erred, target, attempts, checker, failures, rounds, helper_state, cancel, sig_stop,
                   waking, pending_signals, signalled>>

\* run_readiness_probe: an attempt begins, unless the container is gone or
\* the attempts are used up: start() returns an error and drops its guards,
\* the relay before the signal thread's.
BeginAttempt ==
    /\ main = "ready" /\ helper_state = "none"
    /\ IF Alive /\ attempts < MaxAttempts
       THEN attempts' = attempts + 1 /\ helper_state' = "forked" /\ main' = "probing" /\ UNCHANGED erred
       ELSE main' = "relay" /\ erred' = TRUE /\ UNCHANGED <<attempts, helper_state>>
    /\ UNCHANGED <<outside, target, checker, failures, rounds, cancel, sig_stop, forwarder, waking,
                   pending_signals, relay, signalled>>

\* health_check_loop is spawned when a command is configured.
SpawnChecker ==
    /\ main = "spawn" /\ main' = "poststart"
    /\ checker' = IF sup.health THEN "period" ELSE "none"
    /\ UNCHANGED <<outside, erred, target, attempts, failures, rounds, helper_state, cancel, sig_stop, forwarder,
                   waking, pending_signals, relay, signalled>>

\* The poststart hooks; a failure ends start() with an error, which drops
\* the guards in the reverse order of their declaration.
Poststart ==
    /\ main = "poststart"
    /\ \/ main' = "wait" /\ UNCHANGED erred
       \/ main' = "health" /\ erred' = TRUE
    /\ UNCHANGED <<outside, target, attempts, threads, sig_stop, waking, signalled>>

\* wait_for_child_static: the supervisor's child ends once it has reaped
\* the container's first process.
ChildWaited ==
    /\ main = "wait" /\ target \in {"reaped", "reused"} /\ main' = "relay"
    /\ UNCHANGED <<outside, erred, target, attempts, threads, sig_stop, waking, signalled>>

\* NativeConsoleRelay::stop joins the output thread.
StopRelay ==
    /\ main = "relay" /\ relay # "open"
    /\ main' = IF erred THEN "signals" ELSE "health"
    /\ UNCHANGED <<outside, erred, target, attempts, threads, sig_stop, waking, signalled>>

\* HealthThreadGuard::stop: the flag, ...
CancelChecker ==
    /\ main = "health" /\ ~cancel /\ cancel' = TRUE
    /\ UNCHANGED <<outside, erred, target, main, attempts, checker, failures, rounds, helper_state, sig_stop,
                   forwarder, waking, pending_signals, relay, signalled>>

\* ... and the join.
JoinChecker ==
    /\ main = "health" /\ cancel /\ checker \in {"none", "ended"}
    /\ main' = IF erred THEN "relay" ELSE "signals"
    /\ UNCHANGED <<outside, erred, target, attempts, threads, sig_stop, waking, signalled>>

\* The flag is set, but nothing wakes the thread.
StopUnwoken ==
    /\ main = "signals" /\ main' = "join" /\ sig_stop' = TRUE
    /\ UNCHANGED <<outside, erred, target, attempts, threads, waking, signalled>>

\* The thread is woken without the flag.
WakeUnflagged ==
    /\ main = "signals" /\ main' = "join" /\ waking' = TRUE
    /\ UNCHANGED <<outside, erred, target, attempts, threads, sig_stop, signalled>>

\* SignalThreadGuard::stop: the flag first, then the wake-up.
StopForwarder ==
    /\ main = "signals" /\ main' = "join"
    /\ sig_stop' = TRUE /\ waking' = TRUE
    /\ UNCHANGED <<outside, erred, target, attempts, threads, signalled>>

JoinForwarder ==
    /\ main = "join" /\ forwarder = "ended" /\ main' = "done"
    /\ UNCHANGED <<outside, erred, target, attempts, threads, sig_stop, waking, signalled>>

---------------------------------------------------------------------------
(* The signal thread *)

\* sigwait returns a pending signal; the flag is read after it.
TakeSignal ==
    /\ forwarder = "waiting"
    /\ waking \/ pending_signals > 0
    /\ IF sig_stop THEN forwarder' = "ended" /\ UNCHANGED <<waking, pending_signals, signalled>>
       ELSE /\ IF pending_signals > 0
               THEN pending_signals' = pending_signals - 1 /\ Kill("user") /\ UNCHANGED waking
               ELSE waking' = FALSE /\ Kill("wake") /\ UNCHANGED pending_signals
            /\ UNCHANGED forwarder
    /\ UNCHANGED <<outside, erred, target, main, attempts, checker, failures, rounds, helper_state, cancel, sig_stop, relay>>

---------------------------------------------------------------------------
(* Probes: NamespaceCommandRunner::run *)

\* apply_exec_hardening has dropped every capability, so setgroups (outside
\* a user namespace), setgid and setuid must not need one.
MaySetIdentity == sup.rootless /\ sup.uid = 0

\* enter_namespaces, apply_exec_hardening, apply_process_identity and exec.
EnterAndRun ==
    /\ helper_state = "forked"
    /\ helper_state' = IF ~Alive THEN "failed" ELSE IF MaySetIdentity THEN "exec" ELSE "no-identity"
    /\ UNCHANGED <<outside, erred, target, main, attempts, checker, failures, rounds, cancel, sig_stop, forwarder,
                   waking, pending_signals, relay, signalled>>

\* What wait_for_probe may return; a command that hangs is timed out.
ProbeResults ==
    CASE helper_state \in {"failed", "no-identity"} -> {FALSE}
      [] helper_state = "exec" /\ answers = "passes" -> {TRUE}
      [] helper_state = "exec" /\ answers \in {"fails", "hangs"} -> {FALSE}
      [] OTHER -> {}

AttemptEnds ==
    /\ main = "probing"
    /\ \E ok \in ProbeResults : main' = IF ok THEN "spawn" ELSE "ready"
    /\ helper_state' = "none"
    /\ UNCHANGED <<outside, erred, target, attempts, checker, failures, rounds, cancel, sig_stop, forwarder, waking,
                   pending_signals, relay, signalled>>

---------------------------------------------------------------------------
(* The health-check thread *)

CheckerMoves == UNCHANGED <<outside, erred, target, main, attempts, cancel, sig_stop, forwarder, waking,
                            pending_signals, relay>>

\* The start period and the interval are slept in small steps.
CheckerSleeps ==
    /\ checker \in {"period", "interval"}
    /\ checker' = IF cancel THEN "ended" ELSE "verify"
    /\ UNCHANGED <<failures, rounds, helper_state, signalled>> /\ CheckerMoves

\* The start ticks and kill(pid, 0), then the probe is forked.
CheckerVerifies ==
    /\ checker = "verify" /\ helper_state = "none"
    /\ IF cancel \/ target \in {"reaped", "reused"} \/ rounds = MaxProbeRounds
       THEN checker' = "ended" /\ UNCHANGED <<helper_state, rounds>>
       ELSE checker' = "probing" /\ helper_state' = "forked" /\ rounds' = rounds + 1
    /\ UNCHANGED <<failures, signalled>> /\ CheckerMoves

CheckEnds ==
    /\ checker = "probing"
    /\ \E ok \in ProbeResults :
          /\ failures' = IF ok THEN 0 ELSE failures + 1
          /\ checker' = IF ok \/ failures + 1 < Retries THEN "interval" ELSE "unhealthy"
    /\ helper_state' = "none"
    /\ UNCHANGED <<rounds, signalled>> /\ CheckerMoves

\* The signal goes to the number, whoever has it now.
TermByNumber ==
    /\ checker = "unhealthy" /\ checker' = "ended"
    /\ Kill("term")
    /\ UNCHANGED <<failures, rounds, helper_state>> /\ CheckerMoves

\* pidfd_send_signal_or_kill: a pidfd names the process it was opened for;
\* without one the start ticks are compared before the kill.
SignalUnhealthy ==
    /\ checker = "unhealthy"
    /\ IF sup.pidfd
       THEN /\ checker' = "ended"
            /\ received' = IF target \in {"up", "zombie"} THEN received \cup {"term"} ELSE received
            /\ UNCHANGED stray
       ELSE checker' = (IF target \in {"up", "zombie"} THEN "kill" ELSE "ended") /\ UNCHANGED signalled
    /\ UNCHANGED <<failures, rounds, helper_state>> /\ CheckerMoves

KillUnhealthy ==
    /\ checker = "kill" /\ checker' = "ended"
    /\ Kill("term")
    /\ UNCHANGED <<failures, rounds, helper_state>> /\ CheckerMoves

---------------------------------------------------------------------------
(* The container and the world *)

\* The container's first process ends (run_as_init when its workload does)
\* and with its PID namespace every process in it, and the relay's terminal.
TargetEnds ==
    /\ target = "up" /\ main # "begin" /\ target' = "zombie"
    /\ UNCHANGED <<outside, erred, main, attempts, threads, sig_stop, waking, signalled>>

ChildReaps ==
    /\ target = "zombie" /\ target' = "reaped"
    /\ UNCHANGED <<outside, erred, main, attempts, threads, sig_stop, waking, signalled>>

RelayEnds ==
    /\ relay = "open" /\ target \in {"reaped", "reused"} /\ relay' = "ended"
    /\ UNCHANGED <<outside, erred, target, main, attempts, checker, failures, rounds, helper_state, cancel, sig_stop,
                   forwarder, waking, pending_signals, signalled>>

PidReused ==
    /\ target = "reaped" /\ target' = "reused"
    /\ UNCHANGED <<outside, erred, main, attempts, threads, sig_stop, waking, signalled>>

\* The workload's health changes; somebody signals the supervisor.
HealthChanges ==
    /\ target = "up" /\ answers = "passes" /\ answers' \in {"fails", "hangs"}
    /\ UNCHANGED <<sup, erred, sent, target, main, attempts, threads, sig_stop, waking, signalled>>

SignalArrives ==
    /\ sent < MaxSent /\ forwarder = "waiting"
    /\ sent' = sent + 1 /\ pending_signals' = pending_signals + 1
    /\ UNCHANGED <<sup, erred, answers, target, main, attempts, checker, failures, rounds, helper_state, cancel, sig_stop,
                   forwarder, waking, relay, signalled>>

MainThread ==
    \/ StartThreads \/ BeginAttempt \/ AttemptEnds \/ SpawnChecker \/ Poststart \/ ChildWaited
    \/ StopRelay \/ CancelChecker \/ JoinChecker \/ StopForwarder \/ JoinForwarder

CheckerThread ==
    CheckerSleeps \/ CheckerVerifies \/ CheckEnds \/ SignalUnhealthy \/ KillUnhealthy

SuperviseNext ==
    \/ MainThread \/ CheckerThread \/ TakeSignal \/ EnterAndRun
    \/ TargetEnds \/ ChildReaps \/ RelayEnds \/ PidReused \/ HealthChanges \/ SignalArrives

SuperviseSpec == SuperviseInit /\ [][SuperviseNext]_superviseVars

\* The main thread, and the child it waits for, which reaps what has ended.
SuperviseStep == MainThread \/ ChildReaps

---------------------------------------------------------------------------

(***************************************************************************)
(* Once the container has ended, start() joins the relay, the health check *)
(* and the signal thread and goes on to its cleanup, whatever each of them *)
(* was doing when the container ended (the guards of runtime.rs).          *)
(***************************************************************************)
SupervisionEnds == (target # "up") ~> (main = "done")

(***************************************************************************)
(* The health check never signals a process of somebody else when pidfds   *)
(* are available, even if the container ends and its PID is used again     *)
(* while the last probe is running.                                        *)
(***************************************************************************)
HealthSignalsOwn == sup.pidfd => "term" \notin stray

(***************************************************************************)
(* The signal that wakes the forwarding thread at the end is never         *)
(* forwarded, to the container or to whoever has its PID by then.          *)
(***************************************************************************)
WakeStaysInside == "wake" \notin received \cup stray

(***************************************************************************)
(* Why: the wake-up is raised after the flag that makes the thread swallow *)
(* it; a kill by number is left to the case without pidfds; and the one    *)
(* thread that probes has not used up its failures (one, with 0 retries).  *)
(***************************************************************************)
SignalsInOrder ==
    /\ waking => sig_stop
    /\ checker = "kill" => ~sup.pidfd
    /\ main \in {"begin", "ready", "probing", "spawn"} => checker = "none"
    /\ checker \notin {"unhealthy", "kill", "ended"} => failures = 0 \/ failures < Retries
    /\ failures <= Retries \/ failures = 1

(***************************************************************************)
(* The signals the supervisor sends reach whom they are meant for: the     *)
(* health check's its own container, the wake-up only the forwarder        *)
(* (health.rs, runtime.rs).  SignalsInOrder is what this rests on.         *)
(***************************************************************************)
SignalsOwn == SuperviseTypeOK /\ HealthSignalsOwn /\ WakeStaysInside /\ SignalsInOrder

(***************************************************************************)
(* A container whose probe command has always succeeded is not terminated  *)
(* by its health check: the probe runs, as the configured service account. *)
(***************************************************************************)
HealthyIsLeftAlone == answers = "passes" => "term" \notin received
=============================================================================
