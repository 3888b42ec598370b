--------------------------- MODULE WorkspaceProofs ---------------------------
(***************************************************************************)
(* Proofs about what the parent prepares on the host for the child: the    *)
(* copy-in-out workspace, for every set of paths closed under parents, and *)
(* the id maps that decide whose the files are, for every request and all  *)
(* subordinate ids.  StaleRemoved looks at the topmost path that should    *)
(* have gone, and subid_range_for takes the first usable line: both need   *)
(* that a set of natural numbers has a least element.                      *)
(***************************************************************************)
EXTENDS Workspace, UserMap, WellFoundedInduction, TLAPS

\* A nonempty set of natural numbers has a least element.
LEMMA LeastNat ==
  ASSUME NEW T, T \subseteq Nat, T # {}
  PROVE  \E x \in T : \A y \in T : x <= y
<1>1. PICK x \in T : \A y \in T : ~(<<y, x>> \in OpToRel(<, Nat))
  BY NatLessThanWellFounded, WFMin, Zenon
<1>2. \A y \in T : y < x => <<y, x>> \in OpToRel(<, Nat)
  BY DEF OpToRel
<1>3. \A y \in T : ~(y < x)
  BY <1>1, <1>2, Zenon
<1> QED BY <1>3

\* Begins position by position.
LEMMA PrefixMeans ==
  ASSUME NEW S, NEW s \in Seq(S), NEW t \in Seq(S)
  PROVE  Begins(s, t) <=> Len(s) <= Len(t) /\ \A i \in 1..Len(s) : s[i] = t[i]
BY DEF Begins

\* Paths are ordered by being above one another.
LEMMA PathOrder ==
  ASSUME NEW p \in WorkspacePaths, NEW q \in WorkspacePaths, NEW r \in WorkspacePaths
  PROVE  /\ Begins(p, p)
         /\ Begins(p, q) /\ Begins(q, p) => p = q
         /\ Begins(p, q) /\ Begins(q, r) => Begins(p, r)
         /\ Precedes(p, q) => Len(p) < Len(q) /\ Len(p) \in Nat /\ Len(q) \in Nat
<1>0. p \in Seq(STRING) /\ q \in Seq(STRING) /\ r \in Seq(STRING)
  BY WorkspaceAssumption
<1>1. Begins(p, p)
  BY <1>0, PrefixMeans
<1>2. Begins(p, q) /\ Begins(q, p) => p = q
  BY <1>0, PrefixMeans
<1>3. Begins(p, q) /\ Begins(q, r) => Begins(p, r)
  BY <1>0, PrefixMeans
<1>4. Precedes(p, q) => Len(p) < Len(q) /\ Len(p) \in Nat /\ Len(q) \in Nat
  BY <1>0, PrefixMeans DEF Precedes
<1> QED BY <1>1, <1>2, <1>3, <1>4, Zenon

\* remove_existing takes a whole subtree, so what is left is a tree.
LEMMA RemoveIsTree ==
  ASSUME NEW t, IsTree(t), NEW p \in WorkspacePaths
  PROVE  IsTree(RemoveExisting(t, p))
<1>1. RemoveExisting(t, p) \in [WorkspacePaths -> Kinds]
  BY DEF RemoveExisting, IsTree, Kinds
<1>2. ASSUME NEW r \in WorkspacePaths, RemoveExisting(t, p)[r] # "none", NEW q \in Ancestors(r)
      PROVE  RemoveExisting(t, p)[q] = "dir"
  <2>1. ~Begins(p, r) /\ t[r] # "none"
    BY <1>2 DEF RemoveExisting
  <2>2. q \in WorkspacePaths /\ Begins(q, r) /\ t[q] = "dir"
    BY <2>1 DEF Ancestors, Precedes, IsTree
  <2>3. ~Begins(p, q)
    BY <2>1, <2>2, PathOrder
  <2> QED BY <2>2, <2>3 DEF RemoveExisting
<1> QED BY <1>1, <1>2 DEF IsTree

\* Putting an entry where its parent is a directory gives a tree again.
LEMMA ReplaceIsTree ==
  ASSUME NEW t, IsTree(t), NEW p \in WorkspacePaths, NEW k \in Kinds,
         \A q \in Ancestors(p) : t[q] = "dir"
  PROVE  /\ IsTree([RemoveExisting(t, p) EXCEPT ![p] = k])
         /\ [RemoveExisting(t, p) EXCEPT ![p] = k][p] = k
         /\ \A q \in WorkspacePaths \ {p} :
               [RemoveExisting(t, p) EXCEPT ![p] = k][q] = IF Begins(p, q) THEN "none" ELSE t[q]
<1> DEFINE u == [RemoveExisting(t, p) EXCEPT ![p] = k]
<1>1. /\ u \in [WorkspacePaths -> Kinds] /\ u[p] = k
      /\ \A q \in WorkspacePaths \ {p} : u[q] = IF Begins(p, q) THEN "none" ELSE t[q]
  BY DEF RemoveExisting, IsTree, Kinds
<1>2. ASSUME NEW r \in WorkspacePaths, u[r] # "none", NEW q \in Ancestors(r)
      PROVE  u[q] = "dir"
  <2>0. q \in WorkspacePaths /\ Begins(q, r) /\ q # r
    BY DEF Ancestors, Precedes
  <2>1. CASE r = p
    <3>1. ~Begins(p, q) /\ q # p /\ t[q] = "dir"
      BY <2>0, <2>1, PathOrder, Zenon
    <3> QED BY <3>1, <2>0, <1>1
  <2>2. CASE r # p
    <3>1. ~Begins(p, r) /\ t[r] # "none"
      BY <2>2, <1>1, <1>2
    <3>2. ~Begins(p, q) /\ q # p
      BY <3>1, <2>0, PathOrder
    <3>3. t[q] = "dir"
      BY <3>1 DEF IsTree
    <3> QED BY <3>2, <3>3, <2>0, <1>1, Zenon
  <2> QED BY <2>1, <2>2
<1>3. IsTree(u)
  BY <1>1, <1>2 DEF IsTree
<1> QED BY <1>1, <1>3

\* copy_entry copies the entry, and of the others changes at most those below it.
LEMMA CopyIsTree ==
  ASSUME NEW src, NEW dst, IsTree(src), IsTree(dst), NEW p \in WorkspacePaths,
         \A q \in Ancestors(p) : dst[q] = "dir"
  PROVE  /\ IsTree(CopyEntry(src, dst, p))
         /\ src[p] # "special" => CopyEntry(src, dst, p)[p] = src[p]
         /\ \A q \in WorkspacePaths \ {p} :
               /\ ~Begins(p, q) => CopyEntry(src, dst, p)[q] = dst[q]
               /\ CopyEntry(src, dst, p)[q] \in {dst[q], "none"}
               /\ Begins(p, q) /\ src[p] \notin {"special", "dir"} => CopyEntry(src, dst, p)[q] = "none"
<1>0. src[p] \in Kinds
  BY DEF IsTree
<1>1. CASE src[p] = "dir" /\ dst[p] = "dir"
  BY <1>1 DEF CopyEntry
<1>2. CASE src[p] = "special"
  BY <1>2 DEF CopyEntry
<1>3. CASE src[p] # "special" /\ ~(src[p] = "dir" /\ dst[p] = "dir")
  <2> DEFINE u == [RemoveExisting(dst, p) EXCEPT ![p] = src[p]]
  <2>1. CopyEntry(src, dst, p) = u
    BY <1>3 DEF CopyEntry
  <2>2. /\ IsTree(u) /\ u[p] = src[p]
        /\ \A q \in WorkspacePaths \ {p} : u[q] = IF Begins(p, q) THEN "none" ELSE dst[q]
    <3>1. \A k \in Kinds : /\ IsTree([RemoveExisting(dst, p) EXCEPT ![p] = k])
                           /\ [RemoveExisting(dst, p) EXCEPT ![p] = k][p] = k
                           /\ \A q \in WorkspacePaths \ {p} :
                                [RemoveExisting(dst, p) EXCEPT ![p] = k][q] =
                                    IF Begins(p, q) THEN "none" ELSE dst[q]
      BY ReplaceIsTree
    <3> QED BY <1>0, <3>1
  <2> HIDE DEF u
  <2> QED BY <1>3, <2>1, <2>2
<1> QED BY <1>1, <1>2, <1>3

\* The entries remove_stale_entries deletes.
Gone(stage, dest) ==
    {p \in WorkspacePaths : /\ stage[p] = "none"
                           /\ \A q \in Ancestors(p) : stage[q] = "dir" /\ dest[q] = "dir"}

\* The removal of stale entries takes those entries with what is below them.
LEMMA RemoveStaleIsTree ==
  ASSUME NEW stage, NEW dest, IsTree(stage), IsTree(dest)
  PROVE  /\ IsTree(RemoveStale(stage, dest))
         /\ \A p \in WorkspacePaths : RemoveStale(stage, dest)[p] =
               IF \E q \in Gone(stage, dest) : Begins(q, p) THEN "none" ELSE dest[p]
<1> DEFINE u == RemoveStale(stage, dest)
<1>1. /\ u \in [WorkspacePaths -> Kinds]
      /\ \A p \in WorkspacePaths :
            u[p] = IF \E q \in Gone(stage, dest) : Begins(q, p) THEN "none" ELSE dest[p]
  BY DEF RemoveStale, Gone, IsTree, Kinds
<1> HIDE DEF u
<1>2. ASSUME NEW r \in WorkspacePaths, u[r] # "none", NEW q \in Ancestors(r)
      PROVE  u[q] = "dir"
  <2>1. dest[r] # "none" /\ \A g \in Gone(stage, dest) : ~Begins(g, r)
    BY <1>1, <1>2
  <2>2. q \in WorkspacePaths /\ Begins(q, r) /\ dest[q] = "dir"
    BY <2>1 DEF Ancestors, Precedes, IsTree
  <2>3. \A g \in Gone(stage, dest) : ~Begins(g, q)
    BY <2>1, <2>2, PathOrder DEF Gone
  <2> QED BY <2>2, <2>3, <1>1
<1>3. IsTree(u)
  BY <1>1, <1>2 DEF IsTree
<1> QED BY <1>1, <1>3 DEF u

\* What is not in the staging directory is removed, or below an entry of another
\* kind there: the topmost path that is missing there is either deleted, or its
\* parents are not all directories.
LEMMA StaleRemoved ==
  ASSUME NEW stage, NEW dest, IsTree(stage), IsTree(dest),
         NEW p \in WorkspacePaths, stage[p] = "none", RemoveStale(stage, dest)[p] # "none"
  PROVE  \E q \in Ancestors(p) : stage[q] \notin {"dir", "none"}
<1> SUFFICES ASSUME \A q \in Ancestors(p) : stage[q] \in {"dir", "none"} PROVE FALSE
  OBVIOUS
<1> DEFINE Missing == {q \in Ancestors(p) \cup {p} : stage[q] = "none"}
<1>1. Missing # {} /\ Missing \subseteq WorkspacePaths
  BY DEF Ancestors
<1>2. {Len(q) : q \in Missing} \subseteq Nat /\ {Len(q) : q \in Missing} # {}
  <2>1. \A q \in Missing : Len(q) \in Nat
    BY <1>1, WorkspaceAssumption
  <2> HIDE DEF Missing
  <2> QED BY <1>1, <2>1, Zenon
<1>3. PICK m \in Missing : \A q \in Missing : Len(m) <= Len(q)
  <2>1. PICK n \in {Len(q) : q \in Missing} : \A k \in {Len(q) : q \in Missing} : n <= k
    BY <1>2, LeastNat, Zenon
  <2> QED BY <2>1, Zenon
<1>4. m \in WorkspacePaths /\ Begins(m, p) /\ stage[m] = "none"
  BY <1>3, PathOrder, Zenon DEF Ancestors, Precedes
<1>5. ASSUME NEW a \in Ancestors(m) PROVE a \in Ancestors(p) /\ stage[a] = "dir" /\ dest[a] = "dir"
  <2>1. a \in WorkspacePaths /\ Begins(a, m) /\ a # m /\ Len(a) < Len(m)
    BY <1>4, PathOrder, Zenon DEF Ancestors, Precedes
  <2>2. Begins(a, p) /\ a # p
    BY <2>1, <1>4, PathOrder, Zenon
  <2>3. a \in Ancestors(p)
    BY <2>1, <2>2, Zenon DEF Ancestors, Precedes
  <2>4. a \notin Missing
    BY <2>1, <1>3, <1>4, WorkspaceAssumption
  <2>5. dest[p] # "none"
    BY RemoveStaleIsTree
  <2> QED BY <2>3, <2>4, <2>5, Zenon DEF IsTree
<1>6. m \in Gone(stage, dest)
  BY <1>4, <1>5 DEF Gone
<1> QED BY <1>4, <1>6, RemoveStaleIsTree

\* Copying an entry whose parents have been copied brings the copy one entry
\* further.
LEMMA CopyAdvances ==
  ASSUME NEW src, NEW dst, NEW left, IsTree(src), IsTree(dst), ParentsFirst(left, src, dst),
         NEW p \in left, \A q \in left : ~Precedes(q, p)
  PROVE  /\ IsTree(CopyEntry(src, dst, p))
         /\ ParentsFirst(left \ {p}, src, CopyEntry(src, dst, p))
         /\ StaleGone(left, src, dst) => StaleGone(left \ {p}, src, CopyEntry(src, dst, p))
<1> DEFINE u == CopyEntry(src, dst, p)
<1>0. p \in WorkspacePaths /\ src[p] # "none" /\ left \subseteq WorkspacePaths
  BY DEF ParentsFirst, Entries
<1>1. \A q \in Ancestors(p) : dst[q] = "dir"
  <2> SUFFICES ASSUME NEW q \in Ancestors(p) PROVE dst[q] = "dir"
    OBVIOUS
  <2>1. q \in WorkspacePaths /\ Precedes(q, p) /\ q \notin left
    BY DEF Ancestors
  <2>2. src[q] = "dir"
    BY <1>0 DEF IsTree
  <2> QED BY <2>1, <2>2 DEF ParentsFirst, Entries
<1>2. /\ IsTree(u)
      /\ src[p] # "special" => u[p] = src[p]
      /\ \A q \in WorkspacePaths \ {p} :
            /\ ~Begins(p, q) => u[q] = dst[q]
            /\ u[q] \in {dst[q], "none"}
            /\ Begins(p, q) /\ src[p] \notin {"special", "dir"} => u[q] = "none"
  BY <1>0, <1>1, CopyIsTree
<1> HIDE DEF u
<1>3. ParentsFirst(left \ {p}, src, u)
  <2>1. ASSUME NEW q \in left \ {p}, NEW r \in Entries(src), Precedes(q, r)
        PROVE  r \in left \ {p}
    BY <2>1 DEF ParentsFirst
  <2>2. ASSUME NEW q \in Entries(src) \ (left \ {p}), src[q] # "special" PROVE u[q] = src[q]
    <3>1. CASE q = p
      BY <3>1, <2>2, <1>2, Zenon
    <3>2. CASE q # p
      <4>1. q \in Entries(src) /\ q \notin left /\ q \in WorkspacePaths
        BY <3>2 DEF Entries
      <4>2. ~Begins(p, q)
        BY <4>1, <3>2, Zenon DEF ParentsFirst, Precedes
      <4>3. dst[q] = src[q]
        BY <4>1, <2>2, Zenon DEF ParentsFirst
      <4> QED BY <4>1, <4>2, <4>3, <3>2, <1>2, Zenon
    <3> QED BY <3>1, <3>2
  <2>3. left \ {p} \subseteq Entries(src)
    BY DEF ParentsFirst
  <2> QED BY <2>1, <2>2, <2>3, Zenon DEF ParentsFirst
<1>4. ASSUME StaleGone(left, src, dst) PROVE StaleGone(left \ {p}, src, u)
  <2> SUFFICES ASSUME NEW r \in WorkspacePaths \ Entries(src), u[r] # "none"
               PROVE  \E q \in Ancestors(r) : \/ src[q] = "special"
                                              \/ src[q] # "dir" /\ q \in left \ {p}
    BY DEF StaleGone
  <2>1. r # p /\ dst[r] # "none"
    BY <1>0, <1>2 DEF Entries
  <2>2. PICK q \in Ancestors(r) : src[q] = "special" \/ (src[q] # "dir" /\ q \in left)
    BY <2>1, <1>4 DEF StaleGone
  <2>3. q # p \/ src[q] = "special"
    <3> SUFFICES ASSUME q = p, src[p] \notin {"special", "dir"} PROVE FALSE
      BY <2>2
    <3>1. Begins(p, r)
      BY DEF Ancestors, Precedes
    <3> QED BY <3>1, <2>1, <1>2, Zenon
  <2> QED BY <2>2, <2>3
<1> QED BY <1>2, <1>3, <1>4, Zenon DEF u

\* Before the copy in, the staging directory is empty.
LEMMA WorkspaceStart == WorkspaceInit => WorkspaceKept
<1> SUFFICES ASSUME WorkspaceInit PROVE WorkspaceKept
  OBVIOUS
<1>1. IsTree(host_tree)
  BY WorkspaceAssumption DEF WorkspaceInit
<1>2. IsTree(staging)
  BY DEF WorkspaceInit, IsTree, Kinds
<1>3. todo = Entries(host_tree) /\ Entries(host_tree) \subseteq WorkspacePaths
  BY DEF WorkspaceInit, Entries
<1>4. ParentsFirst(todo, host_tree, staging)
  BY <1>3 DEF ParentsFirst
<1>5. result = NoTree /\ wspc = "copyIn"
  BY DEF WorkspaceInit
<1> QED BY <1>1, <1>2, <1>3, <1>4, <1>5, Zenon DEF WorkspaceKept, WorkspaceTypeOK, SyncMirrors, ResultKept,
           StagingHoldsResult

\* Each step of the copy in, the workload and the copy out keeps the result.
LEMMA WorkspaceStep == WorkspaceKept /\ [WorkspaceNext]_workspaceVars => WorkspaceKept'
<1> SUFFICES ASSUME WorkspaceKept, [WorkspaceNext]_workspaceVars PROVE WorkspaceKept'
  OBVIOUS
<1>k. /\ IsTree(host_tree)
      /\ staging = NoTree \/ IsTree(staging)
      /\ todo \subseteq WorkspacePaths
      /\ wspc \in {"copyIn", "run", "stale", "copyOut", "cleanup", "done", "failed", "kept"}
  BY DEF WorkspaceKept, WorkspaceTypeOK
<1> USE DEF WorkspaceTypeOK, StagingHoldsResult
<1>1. CASE CopyIn
  <2>1. /\ wspc = "copyIn" /\ IsTree(staging) /\ result = NoTree /\ UNCHANGED <<host_tree, result, edits>>
        /\ ParentsFirst(todo, host_tree, staging)
    BY <1>1 DEF CopyIn, WorkspaceKept
  <2>2. ASSUME NEW p \in Ready, staging' = CopyEntry(host_tree, staging, p), todo' = todo \ {p},
               UNCHANGED wspc
        PROVE  WorkspaceKept'
    <3>1. p \in todo /\ \A q \in todo : ~Precedes(q, p)
      BY DEF Ready
    <3>2. IsTree(staging') /\ ParentsFirst(todo', host_tree, staging')
      BY <3>1, <2>1, <2>2, <1>k, CopyAdvances, Zenon
    <3> QED BY <3>2, <2>1, <2>2, <1>k, Zenon DEF WorkspaceKept, SyncMirrors, ResultKept
  <2>3. CASE wspc' \in {"run", "failed"} /\ UNCHANGED <<staging, todo>>
    BY <2>1, <2>3, <1>k, Zenon DEF WorkspaceKept, SyncMirrors, ResultKept
  <2> QED BY <1>1, <2>2, <2>3, Zenon DEF CopyIn
<1>2. CASE WorkloadLeaves
  BY <1>2, <1>k, WorkspaceAssumption, Zenon DEF WorkloadLeaves, WorkspaceKept, SyncMirrors, ResultKept
<1>3. CASE HostEdit
  <2>1. PICK p \in WorkspacePaths, k \in {"none", "old", "dir"} :
          /\ \A q \in Ancestors(p) : host_tree[q] = "dir"
          /\ host_tree' = [RemoveExisting(host_tree, p) EXCEPT ![p] = k]
    BY <1>3, Zenon DEF HostEdit
  <2>2. k \in Kinds
    BY DEF Kinds
  <2>3. IsTree(host_tree')
    BY <2>1, <2>2, <1>k, ReplaceIsTree, Zenon
  <2>4. wspc = "run" /\ result = NoTree /\ UNCHANGED <<staging, result, todo, wspc>>
    BY <1>3 DEF HostEdit, WorkspaceKept
  <2> QED BY <2>3, <2>4, <1>k, Zenon DEF WorkspaceKept, SyncMirrors, ResultKept
<1>4. CASE RemoveStaleEntries
  <2>1. /\ wspc = "stale" /\ staging = result /\ IsTree(staging) /\ UNCHANGED <<staging, result>>
    BY <1>4 DEF RemoveStaleEntries, WorkspaceKept
  <2>2. IsTree(RemoveStale(staging, host_tree))
    BY <2>1, <1>k, RemoveStaleIsTree, Zenon
  <2>3. CASE /\ host_tree' = RemoveStale(staging, host_tree)
             /\ todo' = Entries(staging) /\ wspc' = "copyOut"
    <3>1. ParentsFirst(todo', staging, host_tree') /\ todo' \subseteq WorkspacePaths
      BY <2>3 DEF ParentsFirst, Entries
    <3>2. StaleGone(todo', staging, host_tree')
      <4> SUFFICES ASSUME NEW p \in WorkspacePaths \ Entries(staging), host_tree'[p] # "none"
                   PROVE  \E q \in Ancestors(p) : staging[q] # "dir" /\ q \in Entries(staging)
        BY <2>3 DEF StaleGone
      <4>1. \E q \in Ancestors(p) : staging[q] \notin {"dir", "none"}
        BY <2>1, <2>3, <1>k, StaleRemoved, Zenon DEF Entries
      <4> QED BY <4>1 DEF Entries, Ancestors
    <3> QED BY <3>1, <3>2, <2>1, <2>2, <2>3, Zenon DEF WorkspaceKept, SyncMirrors, ResultKept
  <2>4. CASE /\ host_tree' \in {host_tree, RemoveStale(staging, host_tree)}
             /\ wspc' = "kept" /\ UNCHANGED todo
    BY <2>1, <2>2, <2>4, <1>k, Zenon DEF WorkspaceKept, SyncMirrors, ResultKept
  <2> QED BY <1>4, <2>3, <2>4, Zenon DEF RemoveStaleEntries
<1>5. CASE CopyOut
  <2>1. /\ wspc = "copyOut" /\ staging = result /\ IsTree(staging) /\ UNCHANGED <<staging, result, edits>>
        /\ ParentsFirst(todo, staging, host_tree) /\ StaleGone(todo, staging, host_tree)
    BY <1>5 DEF CopyOut, WorkspaceKept
  <2>2. ASSUME NEW p \in Ready, host_tree' = CopyEntry(staging, host_tree, p), todo' = todo \ {p},
               UNCHANGED wspc
        PROVE  WorkspaceKept'
    <3>1. p \in todo /\ \A q \in todo : ~Precedes(q, p)
      BY DEF Ready
    <3>2. /\ IsTree(host_tree') /\ ParentsFirst(todo', staging, host_tree')
          /\ StaleGone(todo', staging, host_tree')
      BY <3>1, <2>1, <2>2, <1>k, CopyAdvances, Zenon
    <3> QED BY <3>2, <2>1, <2>2, <1>k, Zenon DEF WorkspaceKept, SyncMirrors, ResultKept
  <2>3. CASE todo = {} /\ wspc' = "cleanup" /\ UNCHANGED <<host_tree, todo>>
    <3>1. Mirrors(result)
      <4> SUFFICES ASSUME NEW p \in WorkspacePaths,
                          \A q \in Ancestors(p) \cup {p} : staging[q] # "special"
                   PROVE  host_tree[p] = staging[p]
        BY <2>1, Zenon DEF Mirrors
      <4>1. CASE p \in Entries(staging)
        BY <4>1, <2>1, <2>3, Zenon DEF ParentsFirst
      <4>2. CASE p \notin Entries(staging)
        BY <4>2, <2>1, <2>3, Zenon DEF StaleGone, Entries
      <4> QED BY <4>1, <4>2, Zenon
    <3>2. Mirrors(result)'
      BY <3>1, <2>1, <2>3, Zenon DEF Mirrors
    <3> QED BY <3>2, <2>1, <2>3, <1>k, Zenon DEF WorkspaceKept, SyncMirrors, ResultKept
  <2>4. CASE /\ wspc' = "kept" /\ UNCHANGED todo
             /\ host_tree' \in {host_tree} \cup {RemoveExisting(host_tree, p) : p \in Replaced}
    <3>1. IsTree(host_tree')
      BY <2>4, <1>k, RemoveIsTree, Zenon DEF Replaced, Ready
    <3> QED BY <3>1, <2>1, <2>4, <1>k, Zenon DEF WorkspaceKept, SyncMirrors, ResultKept
  <2> QED BY <1>5, <2>2, <2>3, <2>4, Zenon DEF CopyOut
<1>6. CASE CleanupStaging
  BY <1>6, <1>k, Zenon DEF CleanupStaging, WorkspaceKept, SyncMirrors, ResultKept, Mirrors
<1>7. CASE WorkspaceCrash
  BY <1>7, <1>k, Zenon DEF WorkspaceCrash, WorkspaceKept, SyncMirrors, ResultKept, Mirrors
<1>8. CASE UNCHANGED workspaceVars
  BY <1>8 DEF workspaceVars, WorkspaceKept, SyncMirrors, ResultKept, Mirrors, ParentsFirst, StaleGone
<1> QED BY <1>1, <1>2, <1>3, <1>4, <1>5, <1>6, <1>7, <1>8, Zenon DEF WorkspaceNext

\* The workspace: the copy out mirrors the result, and until it is complete the
\* staging directory keeps the result, for any tree of paths.
THEOREM WorkspaceCorrect == WorkspaceSpec => []WorkspaceKept
BY WorkspaceStart, WorkspaceStep, PTL DEF WorkspaceSpec

---------------------------------------------------------------------------
(* User namespace mappings.                                                *)

\* The first of some indices is one of them.
LEMMA MinMember == ASSUME NEW T, T \subseteq Nat, T # {} PROVE Min(T) \in T
BY LeastNat, Zenon DEF Min

\* What a mapping and a line of /etc/subuid consist of.
LEMMA Fields ==
  /\ \A m \in IdMappings : m.container \in Nat /\ m.host \in Nat /\ m.count \in Nat
  /\ \A l \in SubidLines : l.start \in Nat /\ l.count \in Nat
BY DEF IdMappings, SubidLines

\* subid_range_for answers with numbers.
LEMMA RangeTyped ==
  ASSUME NEW lines \in Seq(SubidLines)
  PROVE  SubidRangeFor(lines) \in [start : Nat, count : Nat]
<1> DEFINE usable(by) == {i \in DOMAIN lines : lines[i].who = by /\ lines[i].count > 0}
           first(s) == [start |-> lines[Min(s)].start, count |-> lines[Min(s)].count]
<1>1. ASSUME NEW by, usable(by) # {} PROVE first(usable(by)) \in [start : Nat, count : Nat]
  <2> DEFINE k == Min(usable(by))
  <2>1. k \in DOMAIN lines
    BY <1>1, MinMember, DOMAIN lines \subseteq Nat, Zenon
  <2> HIDE DEF k
  <2>2. lines[k].start \in Nat /\ lines[k].count \in Nat
    BY <2>1, Fields, lines[k] \in SubidLines, Zenon
  <2>3. first(usable(by)) = [start |-> lines[k].start, count |-> lines[k].count]
    BY DEF k
  <2> HIDE DEF first
  <2> QED BY <2>2, <2>3
<1>2. NoRange \in [start : Nat, count : Nat]
  BY DEF NoRange
<1> HIDE DEF usable, first
<1>3. \/ SubidRangeFor(lines) = NoRange
      \/ usable("name") # {} /\ SubidRangeFor(lines) = first(usable("name"))
      \/ usable("uid") # {} /\ SubidRangeFor(lines) = first(usable("uid"))
  BY Zenon DEF SubidRangeFor, usable, first
<1> QED BY <1>1, <1>2, <1>3, Zenon

\* Every choice of apply_userns and create_internal is a pair of lists of mappings.
LEMMA ChosenTyped ==
  ASSUME NEW c \in MapRequests
  PROVE  ChosenMap(c) \in [uid : Seq(IdMappings), gid : Seq(IdMappings)]
<1>0. /\ c.uid \in Nat /\ c.gid \in Nat /\ c.uidmap \in Seq(IdMappings) /\ c.gidmap \in Seq(IdMappings)
      /\ c.subuid \in Seq(SubidLines) /\ c.subgid \in Seq(SubidLines)
      /\ {IdSpace, MaxMapping, RemapBase, RemapCount} \subseteq Nat
  BY MapAssumption, Zenon DEF MapRequests
<1> DEFINE u == SubidRangeFor(c.subuid)
           g == SubidRangeFor(c.subgid)
<1>1. u.start \in Nat /\ u.count \in Nat /\ g.start \in Nat /\ g.count \in Nat
  <2>1. u \in [start : Nat, count : Nat] /\ g \in [start : Nat, count : Nat]
    BY <1>0, RangeTyped, Zenon
  <2> QED BY <2>1
<1> HIDE DEF u, g
<1>2. \A x, y, n \in Nat : Mapping(x, y, n) \in IdMappings
  BY DEF Mapping, IdMappings
<1>3. \A m, n \in IdMappings : <<m, n>> \in Seq(IdMappings)
  OBVIOUS
<1>4. /\ KeepId(c) \in [uid : Seq(IdMappings), gid : Seq(IdMappings)]
      /\ SubuidAuto(c) \in [uid : Seq(IdMappings), gid : Seq(IdMappings)]
  <2> DEFINE capped(r) == IF r.count < MaxMapping THEN r.count ELSE MaxMapping
             KeptUids == <<Mapping(0, u.start, 1), Mapping(c.uid, c.uid, 1)>>
             KeptGids == <<Mapping(0, g.start, 1), Mapping(c.gid, c.gid, 1)>>
             AutoUids == <<Mapping(0, c.uid, 1), Mapping(1, u.start, capped(u))>>
             AutoGids == <<Mapping(0, c.gid, 1), Mapping(1, g.start, capped(g))>>
  <2>1. KeepId(c) = [uid |-> KeptUids, gid |-> KeptGids]
    BY Zenon DEF KeepId, u, g
  <2>2. SubuidAuto(c) = [uid |-> AutoUids, gid |-> AutoGids]
    BY Zenon DEF SubuidAuto, u, g
  <2>3. capped(u) \in Nat /\ capped(g) \in Nat
    BY <1>0, <1>1
  <2> HIDE DEF capped
  <2>4. KeptUids \in Seq(IdMappings) /\ KeptGids \in Seq(IdMappings)
    <3>1. /\ Mapping(0, u.start, 1) \in IdMappings /\ Mapping(0, g.start, 1) \in IdMappings
          /\ Mapping(c.uid, c.uid, 1) \in IdMappings /\ Mapping(c.gid, c.gid, 1) \in IdMappings
      BY <1>0, <1>1, <1>2, Zenon
    <3> QED BY <3>1, <1>3, Zenon
  <2>5. AutoUids \in Seq(IdMappings) /\ AutoGids \in Seq(IdMappings)
    <3>1. /\ Mapping(0, c.uid, 1) \in IdMappings /\ Mapping(0, c.gid, 1) \in IdMappings
          /\ Mapping(1, u.start, capped(u)) \in IdMappings /\ Mapping(1, g.start, capped(g)) \in IdMappings
      BY <1>0, <1>1, <1>2, <2>3, Zenon
    <3> QED BY <3>1, <1>3, Zenon
  <2> HIDE DEF KeptUids, KeptGids, AutoUids, AutoGids
  <2> QED BY <2>1, <2>2, <2>4, <2>5
<1>5. \A x, y, n \in Nat : <<Mapping(x, y, n)>> \in Seq(IdMappings)
  BY <1>2
<1>6. /\ RootlessMapping(c) \in [uid : Seq(IdMappings), gid : Seq(IdMappings)]
      /\ RootRemapped \in [uid : Seq(IdMappings), gid : Seq(IdMappings)]
  <2>1. /\ <<Mapping(0, c.uid, 1)>> \in Seq(IdMappings) /\ <<Mapping(0, c.gid, 1)>> \in Seq(IdMappings)
        /\ <<Mapping(0, RemapBase, RemapCount)>> \in Seq(IdMappings)
    BY <1>0, <1>5, Zenon
  <2> QED BY <2>1, Zenon DEF RootlessMapping, RootRemapped
<1>7. [uid |-> c.uidmap, gid |-> c.gidmap] \in [uid : Seq(IdMappings), gid : Seq(IdMappings)]
  BY <1>0
<1> QED BY <1>4, <1>6, <1>7, Zenon DEF ChosenMap, ForUnprivilegedRootless

\* In a map the kernel accepts, the mapping that covers an id is the only one, so
\* mapped_host_id_for_container_id finds what the kernel will use.
LEMMA HostIdUnique ==
  ASSUME NEW maps \in Seq(IdMappings), OneToOne(maps), NEW id \in Nat,
         NEW i \in DOMAIN maps, Covers(maps[i], id)
  PROVE  /\ OnHost(maps, id) = {maps[i].host + (id - maps[i].container)}
         /\ MappedHostId(maps, id) = maps[i].host + (id - maps[i].container)
<1> DEFINE covering == {k \in DOMAIN maps : Covers(maps[k], id)}
<1>1. \A k \in covering : k = i
  <2> SUFFICES ASSUME NEW k \in covering, k # i PROVE FALSE
    OBVIOUS
  <2>1. k \in DOMAIN maps /\ Covers(maps[k], id)
    OBVIOUS
  <2>2. /\ maps[i].container \in Nat /\ maps[i].count \in Nat
        /\ maps[k].container \in Nat /\ maps[k].count \in Nat
    BY <2>1, Fields, maps[i] \in IdMappings, maps[k] \in IdMappings, Zenon
  <2>3. \/ maps[i].container + maps[i].count <= maps[k].container
        \/ maps[k].container + maps[k].count <= maps[i].container
    BY <2>1 DEF OneToOne
  <2> QED BY <2>1, <2>2, <2>3 DEF Covers
<1>2. covering = {i}
  BY <1>1
<1>3. Min(covering) = i
  BY <1>2, MinMember, DOMAIN maps \subseteq Nat, Zenon
<1>4. MappedHostId(maps, id) = maps[Min(covering)].host + (id - maps[Min(covering)].container)
  BY Zenon DEF MappedHostId
<1>5. OnHost(maps, id) = {maps[k].host + (id - maps[k].container) : k \in covering}
  BY Zenon DEF OnHost
<1> HIDE DEF covering
<1> QED BY <1>2, <1>3, <1>4, <1>5, Zenon

---------------------------------------------------------------------------

\* What the steps keep holds before a mapping is chosen.
LEMMA MapsInit == UserMapInit => MappingServes
<1> SUFFICES ASSUME UserMapInit PROVE MappingServes
  OBVIOUS
<1>1. map_case \in MapRequests
  BY MapAssumption, Zenon DEF UserMapInit
<1> QED BY <1>1 DEF UserMapInit, UserMapBegins, MappingServes, UserMapTypeOK, OwnersMatch,
                    OwnIdsSuffice, MapsFollow

\* Every step keeps the types.
LEMMA MapTypes ==
  ASSUME UserMapTypeOK, [UserMapNext]_mapVars
  PROVE  UserMapTypeOK'
<1> USE DEF UserMapTypeOK
<1>1. CASE ChooseMapping BY <1>1, ChosenTyped, Zenon DEF ChooseMapping
<1>2. CASE ValidateIdentity BY <1>2, Zenon DEF ValidateIdentity
<1>3. CASE PrepareBase BY <1>3 DEF PrepareBase
<1>4. CASE BeginWrite BY <1>4, Zenon DEF BeginWrite
<1>5. CASE WriteUidMap BY <1>5, Zenon DEF WriteUidMap, MapOutcome
<1>6. CASE WriteGidMap BY <1>6, Zenon DEF WriteGidMap, MapOutcome
<1>7. CASE RunNewgidmap BY <1>7, Zenon DEF RunNewgidmap, MapOutcome
<1>8. CASE RunNewuidmap BY <1>8, Zenon DEF RunNewuidmap, MapOutcome
<1>9. CASE BecomeUsernsRoot BY <1>9, Zenon DEF BecomeUsernsRoot, MapOutcome
<1>10. CASE ApplyIdentity BY <1>10 DEF ApplyIdentity
<1>11. CASE UNCHANGED mapVars BY <1>11, Zenon DEF mapVars
<1> QED BY <1>1, <1>2, <1>3, <1>4, <1>5, <1>6, <1>7, <1>8, <1>9, <1>10, <1>11, Zenon DEF UserMapNext

\* Every step leaves for the ones that follow what they rely on.
LEMMA MapsFollowStep ==
  ASSUME UserMapTypeOK, MapsFollow, [UserMapNext]_mapVars
  PROVE  MapsFollow'
<1> USE DEF MapsFollow, Accepted, IsRoot, NeedsSetuidHelper, ShouldDenySetgroups
<1>1. CASE ChooseMapping BY <1>1, Zenon DEF ChooseMapping
<1>2. CASE ValidateIdentity BY <1>2, Zenon DEF ValidateIdentity
<1>3. CASE PrepareBase BY <1>3, Zenon DEF PrepareBase
<1>4. CASE BeginWrite BY <1>4, Zenon DEF BeginWrite
<1>5. CASE WriteUidMap BY <1>5, Zenon DEF WriteUidMap, MapOutcome
<1>6. CASE WriteGidMap BY <1>6, Zenon DEF WriteGidMap, MapOutcome
<1>7. CASE RunNewgidmap BY <1>7, Zenon DEF RunNewgidmap, MapOutcome
<1>8. CASE RunNewuidmap BY <1>8, Zenon DEF RunNewuidmap, MapOutcome
<1>9. CASE BecomeUsernsRoot BY <1>9, Zenon DEF BecomeUsernsRoot, MapOutcome
<1>10. CASE ApplyIdentity BY <1>10, Zenon DEF ApplyIdentity
<1>11. CASE UNCHANGED mapVars BY <1>11 DEF mapVars
<1> QED BY <1>1, <1>2, <1>3, <1>4, <1>5, <1>6, <1>7, <1>8, <1>9, <1>10, <1>11, Zenon DEF UserMapNext

\* A map of the caller's own ids is accepted at every step of the direct way.
LEMMA OwnAccepted ==
  ASSUME NEW c \in MapRequests
  PROVE  LET m == RootlessMapping(c)
         IN  /\ OneToOne(m.uid) /\ OneToOne(m.gid) /\ Own(m.uid, c.uid) /\ Own(m.gid, c.gid)
             /\ Maps(m.uid, 0) /\ Maps(m.gid, 0)
             /\ Len(m.gid) = 1 /\ m.gid[1].count = 1
<1>1. ASSUME NEW own \in Nat
      PROVE  LET maps == <<Mapping(0, own, 1)>>
             IN  OneToOne(maps) /\ Own(maps, own) /\ Maps(maps, 0) /\ Len(maps) = 1 /\ maps[1].count = 1
  <2> DEFINE maps == <<Mapping(0, own, 1)>>
  <2>1. DOMAIN maps = {1} /\ Len(maps) = 1 /\ maps[1] = Mapping(0, own, 1)
    OBVIOUS
  <2>2. Mapping(0, own, 1).container = 0 /\ Mapping(0, own, 1).host = own /\ Mapping(0, own, 1).count = 1
    BY DEF Mapping
  <2> HIDE DEF maps
  <2>3. OneToOne(maps)
    BY <2>1 DEF OneToOne
  <2>4. Own(maps, own)
    BY <2>1, <2>2, Zenon DEF Own
  <2>5. Maps(maps, 0)
    BY <2>1, <2>2 DEF Maps, Covers
  <2> QED BY <2>1, <2>2, <2>3, <2>4, <2>5, Zenon DEF maps
<1>2. c.uid \in Nat /\ c.gid \in Nat
  BY DEF MapRequests
<1> QED BY <1>1, <1>2, Zenon DEF RootlessMapping

\* A launch of the caller's own ids does not fail, and a validated identity is mapped.
LEMMA OwnIdsStep ==
  ASSUME UserMapTypeOK, MapsFollow, OwnIdsSuffice, [UserMapNext]_mapVars
  PROVE  OwnIdsSuffice'
<1> DEFINE own == RootlessMapping(map_case)
<1>0. /\ OneToOne(own.uid) /\ OneToOne(own.gid) /\ Own(own.uid, map_case.uid) /\ Own(own.gid, map_case.gid)
      /\ Maps(own.uid, 0) /\ Maps(own.gid, 0) /\ Len(own.gid) = 1 /\ own.gid[1].count = 1
  BY OwnAccepted DEF UserMapTypeOK
<1>k. map_case' = map_case /\ (map_pc # "choose" => mappings' = mappings)
  BY Zenon DEF UserMapNext, mapVars, ChooseMapping, ValidateIdentity, PrepareBase, BeginWrite, WriteUidMap,
         WriteGidMap, RunNewgidmap, RunNewuidmap, BecomeUsernsRoot, ApplyIdentity
<1> USE DEF OwnIdsSuffice
<1>1. CASE ChooseMapping \/ ValidateIdentity \/ PrepareBase \/ BeginWrite
  BY <1>1, Zenon DEF ChooseMapping, ValidateIdentity, PrepareBase, BeginWrite
<1>2. CASE WriteUidMap BY <1>2, <1>0, <1>k, Zenon DEF WriteUidMap, MapOutcome
<1>3. CASE WriteGidMap
  BY <1>3, <1>0, <1>k, Zenon DEF WriteGidMap, MapOutcome, MapsFollow, ShouldDenySetgroups
<1>4. CASE RunNewgidmap \/ RunNewuidmap
  BY <1>4, <1>k, Zenon DEF RunNewgidmap, RunNewuidmap, MapOutcome, MapsFollow, NeedsSetuidHelper
<1>5. CASE BecomeUsernsRoot
  BY <1>5, <1>0, <1>k, Zenon DEF BecomeUsernsRoot, MapOutcome, MapsFollow, Accepted
<1>6. CASE ApplyIdentity
  BY <1>6 DEF ApplyIdentity, MapsFollow, Accepted
<1>7. CASE UNCHANGED mapVars BY <1>7 DEF mapVars
<1> QED BY <1>1, <1>2, <1>3, <1>4, <1>5, <1>6, <1>7, Zenon DEF UserMapNext

\* The child is on the host whom the parent took it for.
LEMMA OwnersFollow == UserMapTypeOK /\ MapsFollow => OwnersMatch
<1> SUFFICES ASSUME UserMapTypeOK, MapsFollow PROVE OwnersMatch
  OBVIOUS
<1>1. ASSUME map_pc = "setup", IsRoot
      PROVE  HostUids = {base_owner.uid} /\ HostGids = {base_owner.gid}
  <2>1. /\ uid_map = mappings.uid /\ OneToOne(uid_map) /\ gid_map = mappings.gid /\ OneToOne(gid_map)
        /\ child_ids = [uid |-> 0, gid |-> 0] /\ Maps(uid_map, 0) /\ Maps(gid_map, 0)
        /\ base_owner = [uid |-> MappedHostId(mappings.uid, 0), gid |-> MappedHostId(mappings.gid, 0)]
        /\ uid_map \in Seq(IdMappings) /\ gid_map \in Seq(IdMappings)
    BY <1>1, Zenon DEF MapsFollow, Accepted, UserMapTypeOK
  <2>2. OnHost(uid_map, 0) = {MappedHostId(uid_map, 0)}
    <3>1. PICK i \in DOMAIN uid_map : Covers(uid_map[i], 0)
      BY <2>1, Zenon DEF Maps
    <3> QED BY <2>1, <3>1, HostIdUnique
  <2>3. OnHost(gid_map, 0) = {MappedHostId(gid_map, 0)}
    <3>1. PICK i \in DOMAIN gid_map : Covers(gid_map[i], 0)
      BY <2>1, Zenon DEF Maps
    <3> QED BY <2>1, <3>1, HostIdUnique
  <2> QED BY <2>1, <2>2, <2>3, Zenon DEF HostUids, HostGids
<1>2. ASSUME map_pc = "workload", map_case.mode = "keep-id",
             map_case.user = map_case.uid, map_case.group = map_case.gid
      PROVE  HostUids = {map_case.uid} /\ HostGids = {map_case.gid}
  <2>1. /\ uid_map = KeepId(map_case).uid /\ OneToOne(uid_map)
        /\ gid_map = KeepId(map_case).gid /\ OneToOne(gid_map)
        /\ child_ids = [uid |-> map_case.uid, gid |-> map_case.gid]
        /\ uid_map \in Seq(IdMappings) /\ gid_map \in Seq(IdMappings)
        /\ map_case.uid \in Nat /\ map_case.gid \in Nat
    BY <1>2, Zenon DEF MapsFollow, Accepted, UserMapTypeOK, ChosenMap, MapRequests
  <2>2. ASSUME NEW own \in Nat, NEW first, NEW maps \in Seq(IdMappings), OneToOne(maps),
               maps = <<first, Mapping(own, own, 1)>>
        PROVE  OnHost(maps, own) = {own}
    <3>1. 2 \in DOMAIN maps /\ maps[2] = Mapping(own, own, 1)
      BY <2>2
    <3>2. maps[2].container = own /\ maps[2].host = own /\ maps[2].count = 1
      BY <3>1 DEF Mapping
    <3>3. Covers(maps[2], own) /\ maps[2].host + (own - maps[2].container) = own
      BY <3>2 DEF Covers
    <3>4. OnHost(maps, own) = {maps[2].host + (own - maps[2].container)}
      <4>1. own \in Nat /\ maps \in Seq(IdMappings) /\ OneToOne(maps)
        BY <2>2, Zenon
      <4> HIDE <2>2
      <4> QED BY <4>1, <3>1, <3>3, HostIdUnique, Zenon
    <3> QED BY <3>3, <3>4, Zenon
  <2>3. /\ uid_map = <<Mapping(0, SubidRangeFor(map_case.subuid).start, 1), Mapping(map_case.uid, map_case.uid, 1)>>
        /\ gid_map = <<Mapping(0, SubidRangeFor(map_case.subgid).start, 1), Mapping(map_case.gid, map_case.gid, 1)>>
    BY <2>1 DEF KeepId
  <2>4. OnHost(uid_map, map_case.uid) = {map_case.uid}
    BY <2>1, <2>2, <2>3, Zenon
  <2>5. OnHost(gid_map, map_case.gid) = {map_case.gid}
    BY <2>1, <2>2, <2>3, Zenon
  <2> QED BY <2>1, <2>4, <2>5, Zenon DEF HostUids, HostGids
<1> QED BY <1>1, <1>2, Zenon DEF OwnersMatch

\* For every request, caller and content of /etc/subuid and /etc/subgid: while the
\* child sets up, its root is on the host whom prepare_runtime_base_override gave
\* the runtime base to; under keep-id a workload with the caller's ids is the caller;
\* a launch that maps only the caller never fails, and a validated identity is mapped.
THEOREM MappingCorrect == UserMapSpec => []MappingServes
<1>1. MappingServes /\ [UserMapNext]_mapVars => MappingServes'
  <2> SUFFICES ASSUME MappingServes, [UserMapNext]_mapVars PROVE MappingServes'
    OBVIOUS
  <2>1. UserMapTypeOK' /\ MapsFollow' /\ OwnIdsSuffice'
    BY MapTypes, MapsFollowStep, OwnIdsStep, Zenon DEF MappingServes
  <2>2. OwnersMatch'
    BY <2>1, OwnersFollow, PTL
  <2> QED BY <2>1, <2>2, Zenon DEF MappingServes
<1> QED BY <1>1, MapsInit, PTL DEF UserMapSpec
=============================================================================
