-------------------------------- MODULE Slirp --------------------------------
(***************************************************************************)
(* Userspace NAT (network/userspace.rs): a slirp4netns helper process that *)
(* the supervisor starts, waits for, configures over its API socket, and   *)
(* stops by closing the exit pipe, killing it at a deadline.  Both pipes   *)
(* are made with nix::unistd::pipe, without O_CLOEXEC, so the helper       *)
(* inherits the writing end of its own exit pipe and never sees the end of *)
(* it: closing the supervisor's end changes nothing the model could show.  *)
(***************************************************************************)
EXTENDS Naturals

CONSTANTS
    MaxPolls,      \* try_wait attempts before the deadline of a stop
    MaxForwards    \* port forwards of the container, at most

ASSUME SlirpAssumption == MaxPolls \in Nat /\ MaxForwards \in Nat

VARIABLES
    upc,        \* where the supervisor is
    slirp_sandbox, \* whether this slirp4netns was started with --enable-sandbox
    helper,     \* the slirp4netns process
    runtime_dir,
    nstate,     \* NetworkState
    forwards,   \* port forwards still to configure
    polls,      \* attempts left before the deadline
    lost        \* (history) a wait, a kill or a removal failed

slirpVars == <<upc, slirp_sandbox, helper, runtime_dir, nstate, forwards, polls, lost>>

SlirpTypeOK ==
    /\ upc \in {"resolve", "spawn", "ready", "forward", "active", "stop", "kill", "rmdir",
                "failed", "closed", "crashed"}
    /\ slirp_sandbox \in BOOLEAN /\ lost \in BOOLEAN
    /\ helper \in {"none", "starting", "serving", "gone"}
    /\ runtime_dir \in {"absent", "present"}
    /\ nstate \in {"unconfigured", "configuring", "active", "cleaned"}
    /\ forwards \in 0..MaxForwards /\ polls \in 0..MaxPolls

SlirpInit ==
    /\ upc = "resolve" /\ slirp_sandbox = TRUE /\ lost = FALSE
    /\ helper = "none" /\ runtime_dir = "absent"
    /\ nstate = "unconfigured" /\ forwards \in 0..MaxForwards /\ polls = MaxPolls

(***************************************************************************)
(* Faulty variants, for checking that the properties can fail.             *)
(***************************************************************************)
\* Give the helper up at the deadline instead of killing it (HelperStopped).
DeadlineGivesUp ==
    /\ upc = "stop"
    /\ \/ helper = "gone" /\ upc' = "rmdir" /\ UNCHANGED polls
       \/ helper # "gone" /\ polls > 0 /\ polls' = polls - 1 /\ UNCHANGED upc
       \/ helper # "gone" /\ polls = 0 /\ upc' = "rmdir" /\ UNCHANGED polls
    /\ UNCHANGED <<slirp_sandbox, helper, runtime_dir, nstate, forwards, lost>>

\* Wait for the helper without a deadline (StopEnds).
NoDeadline ==
    /\ upc = "stop" /\ helper = "gone" /\ upc' = "rmdir"
    /\ UNCHANGED <<slirp_sandbox, helper, runtime_dir, nstate, forwards, polls, lost>>

(***************************************************************************)
(* Setup.                                                                  *)
(***************************************************************************)
\* The configuration is validated, the runtime directory made, the binary
\* resolved.  A binary that is not found leaves the directory.
ResolveSlirp ==
    /\ upc = "resolve"
    /\ \/ /\ upc' = "spawn" /\ nstate' = "configuring" /\ runtime_dir' = "present"
          /\ UNCHANGED lost
       \/ /\ upc' = "failed" /\ nstate' \in {"unconfigured", "configuring"}
          /\ runtime_dir' \in {"absent", "present"} /\ lost' = (runtime_dir' = "present")
    /\ UNCHANGED <<slirp_sandbox, helper, forwards, polls>>

\* spawn_slirp up to the spawn; the first attempt asks for the sandbox.
SpawnSlirp ==
    /\ upc = "spawn"
    /\ \/ upc' = "ready" /\ helper' = "starting"
          /\ UNCHANGED <<slirp_sandbox, runtime_dir>>
       \/ /\ slirp_sandbox /\ slirp_sandbox' = FALSE
          /\ UNCHANGED <<upc, helper, runtime_dir>>
       \/ /\ ~slirp_sandbox /\ upc' = "failed" /\ runtime_dir' = "absent"
          /\ UNCHANGED <<slirp_sandbox, helper>>
    /\ UNCHANGED <<nstate, forwards, polls, lost>>

\* wait_until_ready: the byte "1", or anything else, or the end of the pipe; then
\* the helper is killed and reaped, and started again without the sandbox.
WaitUntilReady ==
    /\ upc = "ready"
    /\ \/ /\ helper = "serving" /\ upc' = "forward"
          /\ UNCHANGED <<slirp_sandbox, helper, runtime_dir>>
       \/ /\ helper \in {"serving", "gone"} /\ helper' = "gone"
          /\ IF slirp_sandbox THEN upc' = "spawn" /\ slirp_sandbox' = FALSE /\ UNCHANGED runtime_dir
             ELSE upc' = "failed" /\ runtime_dir' = "absent" /\ UNCHANGED slirp_sandbox
    /\ UNCHANGED <<nstate, forwards, polls, lost>>

\* configure_port_forwards: one API request each.  An error is cleaned up with
\* best effort.
AddPortForward ==
    /\ upc = "forward"
    /\ \/ /\ forwards > 0 /\ helper = "serving" /\ forwards' = forwards - 1
          /\ UNCHANGED <<upc, nstate>>
       \/ /\ forwards = 0 /\ upc' = "active" /\ nstate' = "active"
          /\ UNCHANGED <<forwards>>
       \/ /\ forwards > 0 /\ upc' = "stop"
          /\ UNCHANGED <<forwards, nstate>>
    /\ UNCHANGED <<slirp_sandbox, helper, runtime_dir, polls, lost>>

(***************************************************************************)
(* Stopping: cleanup with stop_child, or cleanup_best_effort on a drop.    *)
(***************************************************************************)
\* cleanup marks the state first, so that a drop after it does nothing.
CleanupSlirp ==
    /\ upc = "active" /\ upc' = "stop"
    /\ nstate' \in {"active", "cleaned"}
    /\ UNCHANGED <<slirp_sandbox, helper, runtime_dir, forwards, polls, lost>>

\* stop_child: try_wait until the deadline.  An error of try_wait ends cleanup
\* there; the best-effort version goes on.
PollHelper ==
    /\ upc = "stop"
    /\ \/ helper = "gone" /\ upc' = "rmdir" /\ UNCHANGED <<polls, lost>>
       \/ helper # "gone" /\ polls > 0 /\ polls' = polls - 1 /\ UNCHANGED <<upc, lost>>
       \/ helper # "gone" /\ polls = 0 /\ upc' = "kill" /\ UNCHANGED <<polls, lost>>
       \/ /\ lost' = TRUE /\ UNCHANGED polls
          /\ upc' = IF nstate = "cleaned" THEN "closed" ELSE "rmdir"
    /\ UNCHANGED <<slirp_sandbox, helper, runtime_dir, nstate, forwards>>

KillHelper ==
    /\ upc = "kill"
    /\ \/ helper' = "gone" /\ upc' = "rmdir" /\ UNCHANGED lost
       \/ /\ lost' = TRUE /\ UNCHANGED helper
          /\ upc' = IF nstate = "cleaned" THEN "closed" ELSE "rmdir"
    /\ UNCHANGED <<slirp_sandbox, runtime_dir, nstate, forwards, polls>>

CleanupRuntimeDir ==
    /\ upc = "rmdir" /\ upc' = "closed" /\ nstate' = "cleaned"
    /\ \/ runtime_dir' = "absent" /\ UNCHANGED lost
       \/ lost' = TRUE /\ UNCHANGED runtime_dir
    /\ UNCHANGED <<slirp_sandbox, helper, forwards, polls>>

\* The supervisor dies, and leaves the helper behind.
SlirpCrash ==
    /\ upc \notin {"failed", "closed", "crashed"}
    /\ upc' = "crashed"
    /\ UNCHANGED <<slirp_sandbox, helper, runtime_dir, nstate, forwards, polls, lost>>

(***************************************************************************)
(* slirp4netns, as the code relies on it: it reports that it is ready, and *)
(* may end at any time.                                                    *)
(***************************************************************************)
HelperReports == helper = "starting" /\ helper' = "serving"
HelperEnds == helper \in {"starting", "serving"} /\ helper' = "gone"
HelperStep == /\ HelperReports \/ HelperEnds
              /\ UNCHANGED <<upc, slirp_sandbox, runtime_dir, nstate, forwards, polls, lost>>

Supervising == \/ ResolveSlirp \/ SpawnSlirp \/ WaitUntilReady \/ AddPortForward
               \/ PollHelper \/ KillHelper \/ CleanupRuntimeDir

SlirpNext == Supervising \/ CleanupSlirp \/ SlirpCrash \/ HelperStep

SlirpSpec == SlirpInit /\ [][SlirpNext]_slirpVars

(***************************************************************************)
(* Properties.                                                             *)
(***************************************************************************)
\* When setup has failed or the driver is gone, no helper process and no runtime
\* directory is left, unless a wait, kill or removal failed.
HelperStopped ==
    upc \in {"failed", "closed"} /\ ~lost =>
        helper \in {"none", "gone"} /\ runtime_dir = "absent"

\* Where the driver knows that no helper runs: before the first spawn, between
\* two (the one before was killed and reaped), and once it waited for the last.
NoHelperHere ==
    /\ upc = "resolve" => helper = "none" /\ runtime_dir = "absent"
    /\ upc = "spawn" => helper \in {"none", "gone"}
    /\ upc = "rmdir" /\ ~lost => helper = "gone"

\* Stopping ends: the deadline bounds the wait for a helper that does not react
\* to the exit pipe.
StopEnds == upc = "stop" ~> upc \in {"closed", "crashed"}
=============================================================================
