------------------------------ MODULE Workspace ------------------------------
(***************************************************************************)
(* The copy-in-out workspace: the host directory is copied into a private  *)
(* staging directory, the workload edits the copy, and after it has ended  *)
(* the runtime mirrors the staging directory back, entry by entry, and     *)
(* deletes it only when that succeeded (src/src/filesystem/workspace.rs     *)
(* and Container::{prepare_workspace_staging,sync_workspace_copy_in_out,    *)
(* cleanup_workspace_staging} of src/src/container/runtime.rs).             *)
(*                                                                         *)
(* A tree gives every path of WorkspacePaths what is there: nothing, a     *)
(* directory, a file with the old or the new content, a symbolic link or a *)
(* special file.                                                           *)
(***************************************************************************)
EXTENDS Lists

CONSTANTS WorkspacePaths,   \* sequences of names, closed under nonempty prefixes
          HostTrees,        \* trees the host directory may start as
          WorkTrees,        \* trees the workload may leave behind
          MaxHostEdits      \* edits of the host directory while the workload runs

VARIABLES host_tree, staging, \* staging is NoTree or a tree
          result,             \* the tree the workload left, NoTree before
          todo, wspc, edits

workspaceVars == <<host_tree, staging, result, todo, wspc, edits>>

NoTree == << >>

Kinds == {"none", "dir", "old", "new", "link", "special"}

Ancestors(p) == {q \in WorkspacePaths : Precedes(q, p)}

IsTree(t) ==
    /\ t \in [WorkspacePaths -> Kinds]
    /\ \A p \in WorkspacePaths : t[p] # "none" => \A q \in Ancestors(p) : t[q] = "dir"

Entries(t) == {p \in WorkspacePaths : t[p] # "none"}

ASSUME WorkspaceAssumption ==
    /\ \A p \in WorkspacePaths : p \in Seq(STRING)
    /\ \A t \in HostTrees \cup WorkTrees : IsTree(t)

WorkspaceTypeOK ==
    /\ IsTree(host_tree)
    /\ staging = NoTree \/ IsTree(staging)
    /\ todo \subseteq WorkspacePaths
    /\ wspc \in {"copyIn", "run", "stale", "copyOut", "cleanup", "done", "failed", "kept"}

WorkspaceInit ==
    /\ host_tree \in HostTrees
    /\ staging = [p \in WorkspacePaths |-> "none"]
    /\ result = NoTree /\ edits = 0
    /\ todo = Entries(host_tree) /\ wspc = "copyIn"

(* remove_existing_path: the entry and everything below it. *)
RemoveExisting(t, p) == [q \in WorkspacePaths |-> IF Begins(p, q) THEN "none" ELSE t[q]]

(* A copy that merges a directory into whatever is there. *)
CopyKeepsBelow(src, dst, p) ==
    IF src[p] = "special" THEN dst ELSE [dst EXCEPT ![p] = src[p]]

(* copy_entry for one entry whose parent is there already. *)
CopyEntry(src, dst, p) ==
    CASE src[p] = "dir" /\ dst[p] = "dir" -> dst
      [] src[p] = "special" -> dst
      [] OTHER -> [RemoveExisting(dst, p) EXCEPT ![p] = src[p]]

(* Stale entries stay where they are. *)
KeepStale(stage, dest) == dest

(* remove_stale_entries descends only where both sides have a directory. *)
RemoveStale(stage, dest) ==
    LET gone == {p \in WorkspacePaths :
                    /\ stage[p] = "none"
                    /\ \A q \in Ancestors(p) : stage[q] = "dir" /\ dest[q] = "dir"}
    IN  [p \in WorkspacePaths |->
            IF \E q \in gone : Begins(q, p) THEN "none" ELSE dest[p]]

Ready == {p \in todo : \A q \in todo : ~Precedes(q, p)}

(* prepare_workspace_staging; an entry that cannot be copied, or chowned    *)
(* afterwards, fails the launch and leaves the staging directory behind.   *)
CopyIn ==
    /\ wspc = "copyIn"
    /\ \/ \E p \in Ready : /\ staging' = CopyEntry(host_tree, staging, p)
                           /\ todo' = todo \ {p} /\ UNCHANGED wspc
       \/ todo = {} /\ wspc' = "run" /\ UNCHANGED <<staging, todo>>
       \/ wspc' = "failed" /\ UNCHANGED <<staging, todo>>
    /\ UNCHANGED <<host_tree, result, edits>>

(* The workload ends, leaving some tree in the staging directory. *)
WorkloadLeaves ==
    /\ wspc = "run"
    /\ staging' \in WorkTrees
    /\ result' = staging' /\ wspc' = "stale"
    /\ UNCHANGED <<host_tree, todo, edits>>

(* Someone edits the host directory meanwhile. *)
HostEdit ==
    /\ wspc = "run" /\ edits < MaxHostEdits
    /\ \E p \in WorkspacePaths, k \in {"none", "old", "dir"} :
          /\ \A q \in Ancestors(p) : host_tree[q] = "dir"
          /\ host_tree' = [RemoveExisting(host_tree, p) EXCEPT ![p] = k]
    /\ edits' = edits + 1
    /\ UNCHANGED <<staging, result, todo, wspc>>

(* sync_workspace_out, first half; it may fail with the work done or not.   *)
RemoveStaleEntries ==
    /\ wspc = "stale"
    /\ \/ /\ host_tree' = RemoveStale(staging, host_tree)
          /\ todo' = Entries(staging) /\ wspc' = "copyOut"
       \/ /\ host_tree' \in {host_tree, RemoveStale(staging, host_tree)}
          /\ wspc' = "kept" /\ UNCHANGED todo
    /\ UNCHANGED <<staging, result, edits>>

(* The entries copy_entry removes at the destination before it copies. *)
Replaced == {p \in Ready : staging[p] # "special" /\ ~(staging[p] = "dir" /\ host_tree[p] = "dir")}

(* Second half; a failed copy, of which the removal may be done, keeps the  *)
(* staging directory.                                                      *)
CopyOut ==
    /\ wspc = "copyOut"
    /\ \/ \E p \in Ready : /\ host_tree' = CopyEntry(staging, host_tree, p)
                           /\ todo' = todo \ {p} /\ UNCHANGED wspc
       \/ todo = {} /\ wspc' = "cleanup" /\ UNCHANGED <<host_tree, todo>>
       \/ /\ todo # {} /\ wspc' = "kept" /\ UNCHANGED todo
          /\ host_tree' \in {host_tree} \cup {RemoveExisting(host_tree, p) : p \in Replaced}
    /\ UNCHANGED <<staging, result, edits>>

(* The staging directory goes whether or not it was mirrored. *)
CleanupAlways ==
    /\ wspc \in {"cleanup", "kept"}
    /\ staging' = NoTree
    /\ wspc' = IF wspc = "cleanup" THEN "done" ELSE wspc
    /\ UNCHANGED <<host_tree, result, todo, edits>>

(* cleanup_workspace_staging; a failure is only logged. *)
CleanupStaging ==
    /\ wspc = "cleanup"
    /\ staging' \in {NoTree, staging}
    /\ wspc' = "done"
    /\ UNCHANGED <<host_tree, result, todo, edits>>

(* The supervising process dies. *)
WorkspaceCrash ==
    /\ wspc \in {"run", "stale", "copyOut", "cleanup"}
    /\ wspc' = "kept"
    /\ UNCHANGED <<host_tree, staging, result, todo, edits>>

WorkspaceNext == \/ CopyIn \/ WorkloadLeaves \/ HostEdit \/ RemoveStaleEntries
                 \/ CopyOut \/ CleanupStaging \/ WorkspaceCrash

WorkspaceSpec == WorkspaceInit /\ [][WorkspaceNext]_workspaceVars
------------------------------------------------------------------------------
(* The host tree is the workload's, but at its special files, which        *)
(* copy_entry skips: there the host keeps what it had.                     *)
Mirrors(t) ==
    \A p \in WorkspacePaths :
        (\A q \in Ancestors(p) \cup {p} : t[q] # "special") => host_tree[p] = t[p]

(***************************************************************************)
(* sync_workspace_out leaves a mirror: whatever the host directory held,   *)
(* and however files, links and directories changed places, once the       *)
(* staging directory may be deleted the host has exactly the workload's    *)
(* entries, special files aside.                                           *)
(***************************************************************************)
SyncMirrors == wspc \in {"cleanup", "done"} => Mirrors(result)

(***************************************************************************)
(* The workload's result is never lost: from its end on, through failing   *)
(* copies and a crash at any entry, it is complete in the staging          *)
(* directory or mirrored on the host.                                      *)
(***************************************************************************)
ResultKept == result # NoTree => staging = result \/ Mirrors(result)

(***************************************************************************)
(* The inductive invariant behind them.                                    *)
(***************************************************************************)
(* The staging directory holds the result until it may be deleted.         *)
StagingHoldsResult ==
    /\ wspc \in {"copyIn", "run"} => result = NoTree
    /\ wspc \in {"stale", "copyOut", "cleanup"} => staging = result /\ IsTree(staging)
    /\ wspc # "done" /\ result # NoTree => staging = result
    /\ wspc = "copyIn" => IsTree(staging)

(* Entries are copied after the directory they are in; `left' are the ones   *)
(* still to copy.                                                          *)
ParentsFirst(left, src, dst) ==
    /\ left \subseteq Entries(src)
    /\ \A p \in left, q \in Entries(src) : Precedes(p, q) => q \in left
    /\ \A p \in Entries(src) \ left : src[p] # "special" => dst[p] = src[p]

(* What the workload does not have is gone from the host, or below an entry *)
(* that is yet to replace a directory, or below a special file.            *)
StaleGone(left, src, dst) ==
    \A p \in WorkspacePaths \ Entries(src) :
        dst[p] # "none" =>
            \E q \in Ancestors(p) : \/ src[q] = "special"
                                    \/ src[q] # "dir" /\ q \in left

(* Copying out makes the host directory mirror what the workload left, and *)
(* until then the staging directory keeps it (workspace.rs, runtime.rs);    *)
(* with what makes this inductive.                                         *)
WorkspaceKept ==
    /\ WorkspaceTypeOK /\ SyncMirrors /\ ResultKept /\ StagingHoldsResult
    /\ wspc = "copyIn" => ParentsFirst(todo, host_tree, staging)
    /\ wspc = "copyOut" => /\ ParentsFirst(todo, staging, host_tree)
                           /\ StaleGone(todo, staging, host_tree)
=============================================================================
