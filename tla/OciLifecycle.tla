---------------------------- MODULE OciLifecycle ----------------------------
(***************************************************************************)
(* What a launch promises to whoever reads the state directory: the        *)
(* recorded status only moves forward through OciStatus (absent, created,  *)
(* running, stopped, absent again), the workload begins only once its      *)
(* record exists, and the record says "stopped", or disappears, only after *)
(* the workload has ended.                                                 *)
(***************************************************************************)
VARIABLES
    status,   \* the status on disk, or "absent"
    work      \* the workload's main process: "idle", "running" or "ended"

vars == <<status, work>>

Statuses == {"absent", "created", "running", "stopped"}

Init == status = "absent" /\ work = "idle"

\* save_state(Created): the setup process may already have died.
Record == status = "absent" /\ work # "running" /\ status' = "created" /\ work' = work

\* The workload begins; its start may be recorded before or after.
Begin == work = "idle" /\ status \in {"created", "running"}
         /\ work' = "running" /\ UNCHANGED status

\* The workload ends, or dies before it ever began.
End == work \in {"idle", "running"} /\ work' = "ended" /\ UNCHANGED status

MarkRunning == status = "created" /\ status' = "running" /\ UNCHANGED work

MarkStopped == status = "running" /\ work = "ended"
               /\ status' = "stopped" /\ UNCHANGED work

\* delete_state: normally after "stopped", whose own save may have failed.
Forget == status \in {"running", "stopped"} /\ work = "ended"
          /\ status' = "absent" /\ UNCHANGED work

Next == Record \/ Begin \/ End \/ MarkRunning \/ MarkStopped \/ Forget

Spec == Init /\ [][Next]_vars
=============================================================================
