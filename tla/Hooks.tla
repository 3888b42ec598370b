------------------------------- MODULE Hooks -------------------------------
(***************************************************************************)
(* OCI lifecycle hooks (oci/mod.rs OciHooks): a list of host programs run  *)
(* one after the other at a point of the lifecycle, each spawned, fed the  *)
(* container's state, polled and killed at its timeout.                    *)
(***************************************************************************)
EXTENDS Naturals, Sequences

CONSTANTS
    HookLists,      \* sequences of [binary, does] : what a hook's file is and what it does
    BusyRetries,    \* spawns retried while the file is being written (100)
    HookTimeout     \* polls before a hook is killed (its timeout / 50 ms)

ASSUME HooksAssumption ==
    /\ HookLists \subseteq Seq([binary : STRING, does : STRING])
    /\ BusyRetries \in Nat /\ HookTimeout \in Nat

VARIABLES
    hooks,          \* the list of this point
    fatal,          \* run_hooks, or run_hooks_best_effort
    at,             \* the hook being run
    hook_pc,        \* "next", "spawn", "poll", "stderr", "failed", "ok", "error"
    busy_retries,   \* spawns retried for this hook
    hook_polls,     \* polls of this hook
    being_written,  \* is this hook's file still open for writing?
    alive_hooks,    \* the hooks whose process runs
    daemons,        \* those that left a process behind that holds their stderr
    completed       \* the hooks that succeeded

hookVars == <<hooks, fatal, at, hook_pc, busy_retries, hook_polls, being_written, alive_hooks, daemons, completed>>

HooksTypeOK ==
    /\ hooks \in HookLists /\ fatal \in BOOLEAN /\ being_written \in BOOLEAN
    /\ at \in 0..Len(hooks)
    /\ hook_pc \in {"next", "spawn", "poll", "stderr", "failed", "ok", "error"}
    /\ busy_retries \in 0..BusyRetries /\ hook_polls \in 0..HookTimeout
    /\ alive_hooks \cup daemons \cup completed \subseteq DOMAIN hooks

HooksInit ==
    /\ hooks \in HookLists /\ fatal \in BOOLEAN
    /\ at = 0 /\ hook_pc = "next" /\ busy_retries = 0 /\ hook_polls = 0 /\ being_written = FALSE
    /\ alive_hooks = {} /\ daemons = {} /\ completed = {}

Current == hooks[at]

\* The checks of execute_hook on the path and validate_hook_binary on the
\* file: a trusted absolute path that is no symlink, owned by root or the
\* caller, that nobody else can write and that raises no privilege.
HookBinaryOk(binary) == binary \notin {"relative", "untrusted", "symlink", "missing", "writable", "foreign", "setuid"}

\* run_hooks and run_hooks_best_effort take the next hook.
NextHook ==
    /\ hook_pc = "next"
    /\ IF at = Len(hooks) THEN hook_pc' = "ok" /\ UNCHANGED <<at, busy_retries, hook_polls, being_written>>
       ELSE /\ at' = at + 1 /\ busy_retries' = 0 /\ hook_polls' = 0
            /\ being_written' = (hooks[at + 1].binary = "busy")
            /\ hook_pc' = IF HookBinaryOk(hooks[at + 1].binary) THEN "spawn" ELSE "failed"
    /\ UNCHANGED <<hooks, fatal, alive_hooks, daemons, completed>>

\* The retries are not counted.
SpawnUncounted ==
    /\ hook_pc = "spawn" /\ ~being_written /\ hook_pc' = "poll" /\ alive_hooks' = alive_hooks \cup {at}
    /\ UNCHANGED <<hooks, fatal, at, busy_retries, hook_polls, being_written, daemons, completed>>

\* cmd.spawn(): ETXTBSY is retried, BusyRetries times; any other error is final.
SpawnHook ==
    /\ hook_pc = "spawn"
    /\ \/ ~being_written /\ hook_pc' = "poll" /\ alive_hooks' = alive_hooks \cup {at} /\ UNCHANGED busy_retries
       \/ being_written /\ busy_retries < BusyRetries
          /\ busy_retries' = busy_retries + 1 /\ UNCHANGED <<hook_pc, alive_hooks>>
       \/ ~being_written /\ hook_pc' = "failed" /\ UNCHANGED <<busy_retries, alive_hooks>>
       \/ being_written /\ busy_retries = BusyRetries /\ hook_pc' = "failed" /\ UNCHANGED <<busy_retries, alive_hooks>>
    /\ UNCHANGED <<hooks, fatal, at, hook_polls, being_written, daemons, completed>>

\* The timed-out hook is given up but not killed.
TimeoutAbandons ==
    /\ hook_pc = "poll" /\ at \in alive_hooks
    /\ IF hook_polls < HookTimeout THEN hook_polls' = hook_polls + 1 /\ UNCHANGED hook_pc
       ELSE hook_pc' = "failed" /\ UNCHANGED hook_polls
    /\ UNCHANGED <<hooks, fatal, at, busy_retries, being_written, alive_hooks, daemons, completed>>

\* try_wait finds it running: sleep 50 ms, or at the timeout kill and wait.  (It
\* does not fail for a child that nobody else reaps.)
PollHook ==
    /\ hook_pc = "poll" /\ at \in alive_hooks
    /\ IF hook_polls < HookTimeout THEN hook_polls' = hook_polls + 1 /\ UNCHANGED <<hook_pc, alive_hooks>>
       ELSE hook_pc' = "failed" /\ alive_hooks' = alive_hooks \ {at} /\ UNCHANGED hook_polls
    /\ UNCHANGED <<hooks, fatal, at, busy_retries, being_written, daemons, completed>>

\* try_wait finds it ended.
HookReaped ==
    /\ hook_pc = "poll" /\ at \notin alive_hooks
    /\ hook_pc' = IF at \in completed THEN "next" ELSE "stderr"
    /\ UNCHANGED <<hooks, fatal, at, busy_retries, hook_polls, being_written, alive_hooks, daemons, completed>>

\* read_to_string of a failed hook's stderr returns once nobody can write it.
ReadStderr ==
    /\ hook_pc = "stderr" /\ at \notin daemons /\ hook_pc' = "failed"
    /\ UNCHANGED <<hooks, fatal, at, busy_retries, hook_polls, being_written, alive_hooks, daemons, completed>>

\* Every failure is a warning.
FailureIsAdvice ==
    /\ hook_pc = "failed" /\ hook_pc' = "next"
    /\ UNCHANGED <<hooks, fatal, at, busy_retries, hook_polls, being_written, alive_hooks, daemons, completed>>

\* The first failure ends run_hooks; run_hooks_best_effort only warns.
HookFailed ==
    /\ hook_pc = "failed"
    /\ hook_pc' = IF fatal THEN "error" ELSE "next"
    /\ UNCHANGED <<hooks, fatal, at, busy_retries, hook_polls, being_written, alive_hooks, daemons, completed>>

\* The hook ends: it succeeds, fails, or fails and leaves a process behind;
\* one that hangs, or fills a pipe nobody reads, does not end by itself.
HookEnds ==
    /\ at \in alive_hooks /\ Current.does # "hangs"
    /\ alive_hooks' = alive_hooks \ {at}
    /\ completed' = IF Current.does = "succeeds" THEN completed \cup {at} ELSE completed
    /\ daemons' = IF Current.does = "lingers" THEN daemons \cup {at} ELSE daemons
    /\ UNCHANGED <<hooks, fatal, at, hook_pc, busy_retries, hook_polls, being_written>>

\* Whoever was writing the hook's file closes it.
WriterCloses ==
    /\ being_written /\ being_written' = FALSE
    /\ UNCHANGED <<hooks, fatal, at, hook_pc, busy_retries, hook_polls, alive_hooks, daemons, completed>>

HookRunner == NextHook \/ SpawnHook \/ PollHook \/ HookReaped \/ ReadStderr \/ HookFailed
HooksNext == HookRunner \/ HookEnds \/ WriterCloses

HooksSpec == HooksInit /\ [][HooksNext]_hookVars

---------------------------------------------------------------------------

(***************************************************************************)
(* Once started, the runner comes to an end, although hooks may hang and   *)
(* files stay busy, unless a hook that failed left a process behind: the   *)
(* read of its stderr (oci/mod.rs) has no timeout.                         *)
(***************************************************************************)
HooksEnd == at > 0 ~> (hook_pc \in {"ok", "error"} \/ daemons # {})

(***************************************************************************)
(* A hook runs alone: when the next one starts, and when the point is      *)
(* over, the ones before it have ended or were killed and reaped.          *)
(***************************************************************************)
HooksRunAlone ==
    /\ alive_hooks \subseteq {at}
    /\ hook_pc \in {"next", "ok", "error"} => alive_hooks = {}

(***************************************************************************)
(* A point whose hooks may fail the launch is passed only if all of them   *)
(* succeeded, in their order; a best-effort point tries every one.         *)
(***************************************************************************)
FatalHooksAll ==
    /\ fatal /\ hook_pc # "error" => 1..at \ {at} \subseteq completed
    /\ fatal /\ hook_pc = "ok" => completed = DOMAIN hooks
    /\ hook_pc = "error" => fatal /\ at \notin completed

(***************************************************************************)
(* Where the runner is with its list: only a hook it polls may be running, *)
(* only hooks it has come to have succeeded, the current one not before it *)
(* ended, and under `fatal` it takes the next one only after a success.    *)
(***************************************************************************)
HooksInOrder ==
    /\ completed \subseteq 1..at
    /\ alive_hooks # {} => hook_pc = "poll"
    /\ hook_pc \notin {"next", "ok"} => at > 0
    /\ hook_pc \in {"spawn", "stderr", "failed", "error"} \/ at \in alive_hooks => at \notin completed
    /\ fatal /\ hook_pc \in {"next", "ok"} => 1..at \subseteq completed
    /\ hook_pc = "ok" => at = Len(hooks)
=============================================================================
