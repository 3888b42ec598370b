----------------------------- MODULE SeccompLog -----------------------------
(***************************************************************************)
(* The two threads that read seccomp audit records from /dev/kmsg for a    *)
(* container (security/seccomp_trace.rs): the trace reader, which counts   *)
(* the syscalls of the target and writes the trace file when it is         *)
(* stopped, and the deny logger, which reports the denials of every        *)
(* process of the container.  Both read the same ring of records while     *)
(* processes fork, are denied, die, are reaped and their PIDs are used     *)
(* again by strangers.  At most one of the two runs in a container.        *)
(*                                                                         *)
(* PIDs are sequences of digits, because the trace reader looks for its    *)
(* PID as text.  The clock counts refresh intervals of the logger.         *)
(***************************************************************************)
EXTENDS Naturals, Sequences

CONSTANTS Target, LogPids,      \* PIDs, with Target among them
          StalePidTtl,          \* DENY_SCOPE_STALE_PID_TTL, in refresh intervals
          MaxClock, MaxRecords

ASSUME SeccompLogAssumption == Target \in LogPids /\ StalePidTtl \in Nat

VARIABLES log_mode,      \* "trace" or "deny": which reader the launch started
          log_procs,     \* PID -> [inside, state]
          kmsg,          \* the audit records, oldest first: <<pid, inside>>
          at_record,     \* how many the reader has read
          reader,        \* "open", "reading", "flush" or "done"
          log_stop,      \* the reader's stop flag
          traced,        \* records counted by the trace reader
          trace_file,    \* what the trace file holds: nothing yet, or a count
          known_pids,    \* PID -> when the logger last saw it inside, or 0
          last_refresh,
          clock,         \* from 1
          gone_at,       \* PID -> when it last stopped being the container's
          handled        \* the record the logger decided last: what was true, what it did

logVars == <<log_mode, log_procs, kmsg, at_record, reader, log_stop, traced,
             trace_file, known_pids, last_refresh, clock, gone_at, handled>>
processVars == <<log_procs, gone_at>>
readerVars == <<at_record, reader, traced, trace_file, known_pids, last_refresh, handled>>

LogTypeOK ==
    /\ log_procs \in [LogPids -> [inside : BOOLEAN, state : {"none", "alive", "zombie"}]]
    /\ kmsg \in Seq(LogPids \X BOOLEAN) /\ at_record \in 0..Len(kmsg)
    /\ clock \in Nat \ {0} /\ last_refresh \in 0..clock
    /\ known_pids \in [LogPids -> 0..clock] /\ gone_at \in [LogPids -> 0..clock]

SeccompLogInit ==
    /\ log_mode \in {"trace", "deny"}
    /\ log_procs = [p \in LogPids |-> [inside |-> p = Target,
                                       state |-> IF p = Target THEN "alive" ELSE "none"]]
    /\ kmsg \in {<<>>} \cup {<<<<old, FALSE>>>> : old \in LogPids}
    /\ at_record = 0 /\ reader = "open" /\ log_stop = FALSE
    /\ traced = 0 /\ trace_file = <<>>
    /\ known_pids = [p \in LogPids |-> 0]
    /\ last_refresh = 0 /\ clock = 1
    /\ gone_at = [p \in LogPids |-> 0]
    /\ handled = {}

\* ---------------------------------------------------------------------------
\* The processes and the kernel (external)

\* A process of the container forks, or a stranger gets a free PID.
ProcessStarts ==
    /\ \E p \in LogPids, in \in BOOLEAN :
          /\ log_procs[p].state = "none"
          /\ in => log_procs[Target] = [inside |-> TRUE, state |-> "alive"]
          /\ log_procs' = [log_procs EXCEPT ![p] = [inside |-> in, state |-> "alive"]]
    /\ UNCHANGED <<log_mode, kmsg, log_stop, clock, gone_at, readerVars>>

\* A system call is logged; a denied process may be killed by it.
SyscallLogged ==
    /\ Len(kmsg) < MaxRecords
    /\ \E p \in LogPids, killed \in BOOLEAN :
          /\ log_procs[p].state = "alive"
          /\ kmsg' = Append(kmsg, <<p, log_procs[p].inside>>)
          /\ log_procs' = [log_procs EXCEPT ![p].state = IF killed THEN "zombie" ELSE "alive"]
    /\ UNCHANGED <<log_mode, log_stop, clock, gone_at, readerVars>>

\* A dead process is reaped: its PID is free.
ProcessReaped ==
    /\ \E p \in LogPids :
          /\ log_procs[p].state = "zombie"
          /\ log_procs' = [log_procs EXCEPT ![p] = [inside |-> FALSE, state |-> "none"]]
          /\ gone_at' = IF log_procs[p].inside THEN [gone_at EXCEPT ![p] = clock] ELSE gone_at
    /\ UNCHANGED <<log_mode, kmsg, log_stop, clock, readerVars>>

Tick ==
    /\ clock < MaxClock /\ log_mode = "deny"
    /\ clock' = clock + 1
    /\ UNCHANGED <<log_mode, processVars, kmsg, log_stop, readerVars>>

\* start() is done with the container: stop_and_flush, stop, or the Drop of
\* either.
StopReader ==
    /\ ~log_stop
    /\ log_stop' = TRUE
    /\ UNCHANGED <<log_mode, processVars, kmsg, clock, readerVars>>

\* ---------------------------------------------------------------------------
\* The scope of the deny logger

\* collect_process_tree_pids, cgroup.procs, /proc/<pid>/cgroup and the PID
\* namespace find the processes of the container that have not been reaped.
InScope(p) == log_procs[p].inside /\ log_procs[p].state # "none"

NeverStale(seen) == seen # 0
\* is_recent
IsRecent(seen) == seen # 0 /\ clock - seen <= StalePidTtl

\* expire_stale_pids, then remember the target and all that is in scope.
Refresh(known) ==
    [p \in LogPids |-> IF p = Target \/ InScope(p) THEN clock
                       ELSE IF IsRecent(known[p]) THEN known[p] ELSE 0]
RefreshIfStale(known) == IF clock - last_refresh >= 1 THEN Refresh(known) ELSE known

\* matches_pid without the scan it forces for a PID it does not know.
KnownOnly(p) == p = Target \/ IsRecent(RefreshIfStale(known_pids)[p])

\* matches_pid: the target, a PID seen lately, or one a fresh scan finds.
MatchesPid(p) ==
    \/ p = Target
    \/ IsRecent(RefreshIfStale(known_pids)[p])
    \/ IsRecent(Refresh(known_pids)[p])

\* What matches_pid leaves behind.
ScopeAfter(p) ==
    IF p = Target THEN [known_pids EXCEPT ![Target] = clock]
    ELSE IF IsRecent(RefreshIfStale(known_pids)[p]) THEN RefreshIfStale(known_pids)
    ELSE Refresh(known_pids)
ScopeTime(p) == IF p = Target THEN last_refresh
                ELSE IF clock - last_refresh >= 1 \/ ~IsRecent(known_pids[p]) THEN clock
                ELSE last_refresh

\* ---------------------------------------------------------------------------
\* The readers

\* Opening /dev/kmsg: it may be refused, which ends the reader (the trace
\* reader writes an empty file first).
OpenKmsg ==
    /\ reader = "open"
    /\ \/ /\ reader' = "reading"
          /\ IF log_mode = "deny"
             THEN known_pids' = Refresh(known_pids) /\ last_refresh' = clock
             ELSE UNCHANGED <<known_pids, last_refresh>>
       \/ /\ reader' = IF log_mode = "trace" THEN "flush" ELSE "done"
          /\ UNCHANGED <<known_pids, last_refresh>>
    /\ UNCHANGED <<log_mode, processVars, kmsg, at_record, log_stop, traced, trace_file,
                   clock, handled>>

\* Without O_NONBLOCK the flag is only looked at when a record arrives.
StopAfterRecord == log_stop /\ at_record < Len(kmsg)
\* Both loops look at the stop flag after each read, before they use it.
SeesStop == log_stop

\* The text "pid=<pid>" contains "pid=<target>".
NamesTarget(pid) == Len(Target) <= Len(pid) /\ SubSeq(pid, 1, Len(Target)) = Target

\* record_loop: the record counts when its text contains "pid=<target>", which
\* a longer PID with the same first digits does too.
TraceRecord ==
    /\ reader = "reading" /\ log_mode = "trace"
    /\ IF SeesStop
       THEN reader' = "flush" /\ UNCHANGED <<at_record, traced>>
       ELSE /\ at_record < Len(kmsg)
            /\ at_record' = at_record + 1
            /\ traced' = IF NamesTarget(kmsg[at_record + 1][1]) THEN traced + 1 ELSE traced
            /\ UNCHANGED reader
    /\ UNCHANGED <<log_mode, processVars, kmsg, log_stop, trace_file, known_pids,
                   last_refresh, clock, handled>>

\* write_trace_file, which may fail: the thread only logs that.
WriteTraceFile ==
    /\ reader = "flush"
    /\ trace_file' \in {<<traced>>, trace_file}
    /\ reader' = "done"
    /\ UNCHANGED <<log_mode, processVars, kmsg, at_record, log_stop, traced, known_pids,
                   last_refresh, clock, handled>>

\* deny_log_loop with denied_syscall_record_for_scope.
LogDenied ==
    /\ reader = "reading" /\ log_mode = "deny"
    /\ IF SeesStop
       THEN reader' = "done" /\ UNCHANGED <<at_record, known_pids, last_refresh, handled>>
       ELSE /\ at_record < Len(kmsg)
            /\ at_record' = at_record + 1
            /\ LET p == kmsg[at_record + 1][1] IN
               /\ handled' =
                     {[pid |-> p, there |-> InScope(p), logged |-> MatchesPid(p),
                       age |-> IF InScope(p) THEN 0 ELSE clock - gone_at[p],
                       ever |-> gone_at[p] # 0 \/ InScope(p)]}
               /\ known_pids' = ScopeAfter(p)
               /\ last_refresh' = ScopeTime(p)
            /\ UNCHANGED reader
    /\ UNCHANGED <<log_mode, processVars, kmsg, log_stop, traced, trace_file, clock>>

\* Nothing to read: the logger refreshes its scope and polls.
LoggerPolls ==
    /\ reader = "reading" /\ log_mode = "deny" /\ ~log_stop
    /\ at_record = Len(kmsg)
    /\ clock - last_refresh >= 1
    /\ known_pids' = Refresh(known_pids)
    /\ last_refresh' = clock
    /\ UNCHANGED <<log_mode, processVars, kmsg, at_record, reader, log_stop, traced,
                   trace_file, clock, handled>>

ReaderStep == OpenKmsg \/ TraceRecord \/ WriteTraceFile \/ LogDenied
SeccompLogNext ==
    \/ ReaderStep \/ LoggerPolls
    \/ ProcessStarts \/ SyscallLogged \/ ProcessReaped \/ Tick \/ StopReader

SeccompLogSpec == SeccompLogInit /\ [][SeccompLogNext]_logVars

\* ---------------------------------------------------------------------------
\* Properties

\* A PID the logger remembers was the container's when it was last seen: it still
\* is, or the container lost it only later.
SeenWhileInside ==
    \A p \in LogPids : p # Target /\ known_pids[p] # 0 => InScope(p) \/ gone_at[p] >= known_pids[p]

\* The deny logger reports a denial exactly when it should be able to: always
\* when the process is still there as its record is read, also one it had never
\* seen; and never for a PID, other than the target's, that the container last
\* had more than the time-to-live ago, however the PID is used since
\* (matches_pid, refresh, is_recent).  This rests on SeenWhileInside.
DenialsAttributed ==
    /\ LogTypeOK /\ SeenWhileInside
    /\ \A h \in handled :
          /\ h.there => h.logged
          /\ h.logged /\ h.pid # Target => h.ever /\ h.age <= StalePidTtl

\* Once start() raises the stop flag, the reader thread it then joins ends,
\* also when no further record ever arrives (stop_and_flush, stop, Drop).
ReaderStops == log_stop ~> reader = "done"
=============================================================================
