---------------------------- MODULE StorageProofs ----------------------------
(***************************************************************************)
(* Proofs about what the runtime writes and reads back, for any number of  *)
(* writers, limits and files: the state file under concurrent saves,       *)
(* checkpoints and their restore, committed images and their runs.         *)
(***************************************************************************)
EXTENDS StateFile, Checkpoint, Image, FiniteSetTheorems, TLAPS

---------------------------------------------------------------------------
(* The state file (StateFile).  Inodes are counted by the writers that     *)
(* have opened one; everything else is a case analysis of the writers'     *)
(* steps.                                                                  *)

\* No step takes a writer back to before its open.
LEMMA PastOpenGrows ==
  ASSUME RecordInv, PastOpen \subseteq PastOpen'
  PROVE  Cardinality(PastOpen) <= Cardinality(PastOpen') /\ Cardinality(PastOpen) \in Nat
         /\ Cardinality(PastOpen') \in Nat
<1>1. IsFiniteSet(PastOpen) /\ IsFiniteSet(PastOpen')
  BY HolderStarts, FS_Subset DEF PastOpen
<1> QED
  BY <1>1, FS_Subset, FS_CardinalityType

\* The first open of a writer leaves room for its inode.
LEMMA OpenCounts ==
  ASSUME RecordInv, NEW w \in Starters, wpc[w] = "open", wpc' = [wpc EXCEPT ![w] = "write"]
  PROVE  /\ Cardinality(PastOpen') = Cardinality(PastOpen) + 1
         /\ Cardinality(PastOpen) \in Nat /\ used + 1 \in Inodes
<1>1. IsFiniteSet(PastOpen) /\ IsFiniteSet(PastOpen')
  BY HolderStarts, FS_Subset DEF PastOpen
<1>2. PastOpen' = PastOpen \cup {w} /\ w \notin PastOpen
  BY DEF PastOpen, RecordInv, StateFileTypeOK
<1>3. Cardinality(PastOpen') = Cardinality(PastOpen) + 1
  BY <1>1, <1>2, FS_AddElement
<1>4. Cardinality(PastOpen') <= Cardinality(Starters) /\ Cardinality(Starters) \in Nat
      /\ Cardinality(PastOpen) \in Nat
  BY <1>1, HolderStarts, FS_Subset, FS_CardinalityType DEF PastOpen
<1> QED
  BY <1>3, <1>4 DEF RecordInv, StateFileTypeOK, InodesApart, Inodes

\* No save has begun, and the record is the one create_internal wrote.
LEMMA RecordInit == StateFileInit => RecordInv
<1> SUFFICES ASSUME StateFileInit PROVE RecordInv
  OBVIOUS
<1>1. Cardinality(Starters) \in Nat /\ PastOpen = {} /\ Cardinality(PastOpen) = 0
  BY HolderStarts, FS_CardinalityType, FS_EmptySet DEF PastOpen, StateFileInit
<1>2. 1 \in Inodes /\ Inodes \subseteq Nat \ {0} /\ Holder \in Starters /\ Saving = {}
  BY <1>1, HolderStarts DEF Inodes, Saving, StateFileInit
<1>3. StateFileTypeOK
  BY <1>2, Zenon DEF StateFileInit, StateFileTypeOK, RecordContents
<1>4. InodesApart
  BY <1>1, <1>2 DEF StateFileInit, InodesApart
<1>5. SaveAlone /\ ReadableRecord /\ WriterPending /\ FirstRecord
  BY <1>2 DEF StateFileInit, SaveAlone, ReadableRecord, Readable, WriterPending, FirstRecord
<1> QED
  BY <1>3, <1>4, <1>5 DEF RecordInv

\* Each step of save_state (open, write, rename, death) keeps the record sound.
LEMMA RecordStep == RecordInv /\ [StateFileNext]_fileVars => RecordInv'
<1> SUFFICES ASSUME RecordInv, [StateFileNext]_fileVars PROVE RecordInv'
  OBVIOUS
<1>i. 1 \in Inodes /\ Inodes \subseteq Nat \ {0} /\ Holder \in Starters /\ Inodes' = Inodes
  BY HolderStarts, FS_CardinalityType DEF Inodes
<1> USE DEF RecordInv
<1>1. ASSUME NEW w \in Starters, ResolveRecord(w) PROVE RecordInv'
  <2>1. PastOpen \subseteq PastOpen'
    BY <1>1 DEF ResolveRecord, PastOpen, StateFileTypeOK
  <2>2. StateFileTypeOK'
    BY <1>1, <1>i DEF ResolveRecord, StateFileTypeOK
  <2>3. InodesApart'
    BY <1>1, <1>i, <2>1, PastOpenGrows DEF ResolveRecord, InodesApart, StateFileTypeOK, Saving
  <2>4. SaveAlone' /\ ReadableRecord'
    BY <1>1 DEF ResolveRecord, SaveAlone, ReadableRecord, Readable, StateFileTypeOK, Saving
  <2>5. WriterPending'
    BY <1>1 DEF ResolveRecord, WriterPending, StateFileTypeOK
  <2>6. FirstRecord'
    BY <1>1, <1>i DEF ResolveRecord, FirstRecord, InodesApart, Readable, StateFileTypeOK, Saving
  <2> QED BY <2>2, <2>3, <2>4, <2>5, <2>6
<1>2. ASSUME NEW w \in Starters, OpenTemp(w) PROVE RecordInv'
  <2>1. /\ wpc[w] = "open" /\ wpc' = [wpc EXCEPT ![w] = "write"]
        /\ Cardinality(PastOpen') = Cardinality(PastOpen) + 1
        /\ Cardinality(PastOpen) \in Nat /\ used + 1 \in Inodes
    BY <1>2, OpenCounts, Zenon DEF OpenTemp
  <2>2. StateFileTypeOK'
    BY <1>2, <1>i, <2>1 DEF OpenTemp, StateFileTypeOK, RecordContents
  <2>3. InodesApart'
    BY <1>2, <1>i, <2>1 DEF OpenTemp, InodesApart, StateFileTypeOK, Saving
  <2>4. SaveAlone'
    BY <1>2, <1>i, Zenon DEF OpenTemp, SaveAlone, StateFileTypeOK, Saving
  <2>5. ReadableRecord'
    BY <1>2, <1>i DEF OpenTemp, InodesApart, ReadableRecord, Readable, StateFileTypeOK
  <2>6. WriterPending'
    BY <1>2, <1>i DEF OpenTemp, InodesApart, WriterPending, StateFileTypeOK
  <2>7. FirstRecord'
    BY <1>2, <1>i DEF OpenTemp, FirstRecord, StateFileTypeOK, Saving
  <2> QED BY <2>2, <2>3, <2>4, <2>5, <2>6, <2>7
<1>3. ASSUME NEW w \in Starters, WriteTemp(w) PROVE RecordInv'
  <2>1. PastOpen \subseteq PastOpen' /\ Saving' = Saving /\ w \in Saving /\ fd[w] \in Inodes
    BY <1>3 DEF WriteTemp, PastOpen, StateFileTypeOK, Saving, InodesApart
  <2>2. StateFileTypeOK'
    BY <1>3, <1>i, <2>1 DEF WriteTemp, StateFileTypeOK, RecordContents
  <2>3. InodesApart'
    BY <1>3, <1>i, <2>1, PastOpenGrows DEF WriteTemp, InodesApart, StateFileTypeOK
  <2>4. SaveAlone'
    BY <1>3, <2>1 DEF WriteTemp, SaveAlone, StateFileTypeOK
  <2>5. ReadableRecord'
    BY <1>3, <1>i, <2>1 DEF WriteTemp, ReadableRecord, Readable, StateFileTypeOK
  <2>6. WriterPending'
    BY <1>3, <1>i, <2>1 DEF WriteTemp, WriterPending, StateFileTypeOK
  <2>7. FirstRecord'
    BY <1>3, <1>i, <2>1 DEF WriteTemp, FirstRecord, StateFileTypeOK
  <2> QED BY <2>2, <2>3, <2>4, <2>5, <2>6, <2>7
<1>4. ASSUME NEW w \in Starters, RenameTemp(w) PROVE RecordInv'
  <2>1. PastOpen \subseteq PastOpen' /\ Saving' = Saving \ {w} /\ w \in Saving
    BY <1>4 DEF RenameTemp, PastOpen, StateFileTypeOK, Saving
  <2>2. StateFileTypeOK'
    BY <1>4, <1>i DEF RenameTemp, StateFileTypeOK
  <2>3. InodesApart'
    BY <1>4, <1>i, <2>1, PastOpenGrows DEF RenameTemp, InodesApart, StateFileTypeOK
  <2>4. SaveAlone'
    BY <1>4, <2>1 DEF RenameTemp, SaveAlone, StateFileTypeOK
  <2>5. ReadableRecord'
    BY <1>4, <1>i, <2>1 DEF RenameTemp, SaveAlone, ReadableRecord, Readable, StateFileTypeOK
  <2>6. WriterPending'
    BY <1>4, <1>i, <2>1 DEF RenameTemp, WriterPending, StateFileTypeOK
  <2>7. FirstRecord'
    BY <1>4, <1>i, <2>1 DEF RenameTemp, FirstRecord, InodesApart, StateFileTypeOK
  <2> QED BY <2>2, <2>3, <2>4, <2>5, <2>6, <2>7
<1>5. ASSUME NEW w \in Starters, SaveBroken(w) PROVE RecordInv'
  <2>1. PastOpen \subseteq PastOpen' /\ Saving' = Saving \ {w}
    BY <1>5 DEF SaveBroken, PastOpen, StateFileTypeOK, Saving
  <2>2. StateFileTypeOK'
    BY <1>5, <1>i DEF SaveBroken, StateFileTypeOK, Saving
  <2>3. InodesApart'
    BY <1>5, <1>i, <2>1, PastOpenGrows DEF SaveBroken, InodesApart, StateFileTypeOK
  <2>4. SaveAlone' /\ ReadableRecord'
    BY <1>5, <2>1 DEF SaveBroken, SaveAlone, ReadableRecord, Readable, StateFileTypeOK
  <2>5. WriterPending' /\ FirstRecord'
    BY <1>5, <1>i DEF SaveBroken, WriterPending, FirstRecord, StateFileTypeOK, Saving
  <2> QED BY <2>2, <2>3, <2>4, <2>5
<1>6. CASE DeleteRecord
  <2>1. PastOpen \subseteq PastOpen' /\ Saving' = Saving
    BY <1>6, <1>i DEF DeleteRecord, PastOpen, StateFileTypeOK, Saving
  <2>2. StateFileTypeOK'
    BY <1>6, <1>i DEF DeleteRecord, StateFileTypeOK
  <2>3. InodesApart'
    BY <1>6, <1>i, <2>1, PastOpenGrows DEF DeleteRecord, InodesApart, StateFileTypeOK
  <2>4. SaveAlone' /\ ReadableRecord'
    BY <1>6, <1>i, <2>1 DEF DeleteRecord, SaveAlone, ReadableRecord, Readable, StateFileTypeOK, Saving
  <2>5. WriterPending'
    BY <1>6, <1>i DEF DeleteRecord, WriterPending, StateFileTypeOK
  <2>6. FirstRecord'
    BY <1>6, <1>i DEF DeleteRecord, FirstRecord, StateFileTypeOK
  <2> QED BY <2>2, <2>3, <2>4, <2>5, <2>6
<1>7. CASE UNCHANGED fileVars
  BY <1>7 DEF fileVars, StateFileTypeOK, InodesApart, PastOpen, SaveAlone, ReadableRecord, Readable,
     WriterPending, FirstRecord, Saving, Inodes
<1> QED BY <1>1, <1>2, <1>3, <1>4, <1>5, <1>6, <1>7 DEF StateFileNext

\* save_state: whichever of the processes that save die, the record can be read at
\* any time unless saves overlapped, and it settles on Running if nobody died.
THEOREM RecordCorrect == StateFileSpec => []RecordSound
<1>1. RecordInv => RecordSound
  <2> SUFFICES ASSUME RecordInv, Settled, ~died, wpc[Holder] # "ended"
               PROVE  path # 0 /\ content[path] = "running"
    BY DEF RecordSound, RecordSettles
  <2>1. path # 0 /\ path # 1
    BY HolderStarts DEF RecordInv, FirstRecord, Settled
  <2>2. \A w \in Starters : wpc[w] # "write"
    BY DEF Settled
  <2> QED BY <2>1, <2>2 DEF RecordInv, WriterPending
<1> QED BY <1>1, RecordInit, RecordStep, PTL DEF StateFileSpec

---------------------------------------------------------------------------
(* Checkpoint and restore (Checkpoint). *)
LEMMA RestoreInit == CheckpointInit => RestoreSound
<1> SUFFICES ASSUME CheckpointInit PROVE RestoreSound
  OBVIOUS
<1>1. given \subseteq AllLimits
  BY DEF CheckpointInit, AllLimits
<1>2. 0 \in Numbers /\ 0 \in 0..Short /\ NoMeta \in Metadata
  BY CheckpointBounds DEF Numbers, Short, NoMeta, Metadata
<1>3. mac \in (0..Short) \X (Numbers \cup {Torn}) \X Numbers
  BY <1>2 DEF CheckpointInit, NoMac
<1>4. CheckpointTypeOK
  <2>1. /\ keys \in 0..MaxKeys /\ key \in 0..Short /\ count \in Numbers /\ images \in Numbers \cup {Torn}
        /\ meta \in Metadata /\ loaded \in Metadata /\ rlimits \subseteq AllLimits
    BY <1>2, CheckpointBounds, SMTT(30) DEF CheckpointInit
  <2> QED BY <1>1, <1>3, <2>1, ZenonT(30) DEF CheckpointInit, CheckpointTypeOK
<1> QED
  BY <1>4 DEF CheckpointInit, RestoreSound, RestoreOnlyComplete, LimitsSurvive, DumpInOrder,
     RestoreAlone, NoMeta

\* Each step of checkpoint and restore keeps what a restore accepts sound.
LEMMA RestoreStep == RestoreSound /\ [CheckpointNext]_checkpointVars => RestoreSound'
<1> SUFFICES ASSUME RestoreSound, [CheckpointNext]_checkpointVars PROVE RestoreSound'
  OBVIOUS
<1> USE CheckpointBounds DEF RestoreSound
<1>t. CheckpointTypeOK'
  <2> USE DEF CheckpointTypeOK
  <2>1. CASE WorkloadEnds \/ SupervisorCleansUp \/ RestoredEnds
    BY <2>1 DEF WorkloadEnds, SupervisorCleansUp, RestoredEnds, container, keyfile, dump, restore
  <2>2. CASE KeyGone
    BY <2>2 DEF KeyGone, container, dump, restore, Short
  <2>3. CASE BeginCheckpoint
    BY <2>3 DEF BeginCheckpoint, container, keyfile, restore, Numbers
  <2>4. CASE Dump
    BY <2>4 DEF Dump, keyfile, restore
  <2>5. CASE SaveMetadata
    <3>1. {"cpu.weight"} \cup given \subseteq AllLimits
      BY DEF AllLimits
    <3>2. FromState \in Metadata
      BY <3>1 DEF FromState, Metadata
    <3> QED BY <3>2, <2>5 DEF SaveMetadata, container, keyfile, restore
  <2>6. CASE WriteHmac
    <3>1. key' \in 0..Short /\ keys' \in 0..MaxKeys
      BY <2>6 DEF WriteHmac, LoadKey, LoadKeyFails, keyfile, Short
    <3>2. mac' \in (0..Short) \X (Numbers \cup {Torn}) \X Numbers
      BY <2>6 DEF WriteHmac, ComputeHmac, Short, Metadata
    <3> QED BY <3>1, <3>2, <2>6 DEF WriteHmac, container, restore
  <2>7. CASE CheckpointCrash
    BY <2>7 DEF CheckpointCrash, container, keyfile, restore
  <2>8. CASE LoadMetadata
    BY <2>8 DEF LoadMetadata, container, keyfile, dump
  <2>9. CASE VerifyHmac
    <3>1. key' \in 0..Short /\ keys' \in 0..MaxKeys
      BY <2>9 DEF VerifyHmac, LoadKey, LoadKeyFails, keyfile, Short
    <3> QED BY <3>1, <2>9 DEF VerifyHmac, container, dump
  <2>10. CASE CriuRestore
    BY <2>10 DEF CriuRestore, container, keyfile, dump
  <2>11. CASE RestoreCgroup
    BY <2>11 DEF RestoreCgroup, container, keyfile, dump, Metadata
  <2>12. CASE DropCgroup \/ SaveRestored
    BY <2>12 DEF DropCgroup, SaveRestored, container, keyfile, dump
  <2>13. CASE UNCHANGED checkpointVars
    BY <2>13 DEF checkpointVars, container, keyfile, dump, restore
  <2> QED BY <2>1, <2>2, <2>3, <2>4, <2>5, <2>6, <2>7, <2>8, <2>9, <2>10, <2>11, <2>12, <2>13, ZenonT(60)
          DEF CheckpointNext
<1> USE DEF RestoreOnlyComplete, LimitsSurvive, DumpInOrder, RestoreAlone
<1>1. CASE WorkloadEnds \/ SupervisorCleansUp \/ RestoredEnds
  BY <1>t, <1>1 DEF WorkloadEnds, SupervisorCleansUp, RestoredEnds, container, keyfile, dump, restore
<1>2. CASE KeyGone
  BY <1>t, <1>2 DEF KeyGone, container, dump, restore
<1>3. CASE BeginCheckpoint
  BY <1>t, <1>3 DEF BeginCheckpoint, container, keyfile, restore, CheckpointTypeOK, Numbers
<1>4. CASE Dump
  BY <1>t, <1>4 DEF Dump, keyfile, restore, CheckpointTypeOK, Numbers
<1>5. CASE SaveMetadata
  BY <1>t, <1>5, SMTT(30) DEF SaveMetadata, container, keyfile, restore, FromState
<1>6. CASE WriteHmac
  BY <1>t, <1>6, SMTT(30) DEF WriteHmac, container, restore, ComputeHmac, CheckpointTypeOK, Numbers
<1>7. CASE CheckpointCrash
  BY <1>t, <1>7 DEF CheckpointCrash, container, keyfile, restore
<1>8. CASE LoadMetadata
  BY <1>t, <1>8 DEF LoadMetadata, container, keyfile, dump
<1>9. CASE VerifyHmac
  BY <1>t, <1>9 DEF VerifyHmac, container, dump, ComputeHmac
<1>10. CASE CriuRestore
  BY <1>t, <1>10, Zenon DEF CriuRestore, container, keyfile, dump
<1>11. CASE RestoreCgroup
  BY <1>t, <1>11, Zenon DEF RestoreCgroup, container, keyfile, dump
<1>12. CASE DropCgroup \/ SaveRestored
  BY <1>t, <1>12, ZenonT(60) DEF DropCgroup, SaveRestored, container, keyfile, dump
<1>13. CASE UNCHANGED checkpointVars
  BY <1>t, <1>13 DEF checkpointVars, container, keyfile, dump, restore
<1> QED BY <1>1, <1>2, <1>3, <1>4, <1>5, <1>6, <1>7, <1>8, <1>9, <1>10, <1>11, <1>12, <1>13, ZenonT(60)
        DEF CheckpointNext

\* Checkpoint and restore: only the images of one complete checkpoint are restored,
\* with the limits recorded in it, whichever step failed.
THEOREM CheckpointCorrect == CheckpointSpec => []RestoreSound
BY RestoreInit, RestoreStep, PTL DEF CheckpointSpec

---------------------------------------------------------------------------
(* Image commit and image run (Image). *)
\* The rest of a walk that visits a path once has every path of it but the first.
LEMMA TailOfWalk ==
  ASSUME NEW S, NEW s \in Seq(S), IsInjective(s), s # <<>>
  PROVE  /\ Tail(s) \in Seq(S) /\ IsInjective(Tail(s))
         /\ Head(s) = s[1] /\ s[1] \in Range(s) /\ s[1] \in S
         /\ Range(Tail(s)) = Range(s) \ {s[1]}
<1>1. /\ Len(s) \in Nat \ {0} /\ DOMAIN s = 1..Len(s) /\ Tail(s) \in Seq(S)
      /\ DOMAIN Tail(s) = 1..(Len(s) - 1)
      /\ \A i \in 1..(Len(s) - 1) : Tail(s)[i] = s[i + 1]
  OBVIOUS
<1>2. IsInjective(Tail(s))
  BY <1>1 DEF IsInjective
<1>3. ASSUME NEW f \in Range(Tail(s)) PROVE f \in Range(s) /\ f # s[1]
  BY <1>1 DEF Range, IsInjective
<1>4. ASSUME NEW f \in Range(s), f # s[1] PROVE f \in Range(Tail(s))
  <2>1. PICK i \in 1..Len(s) : f = s[i]
    BY <1>1 DEF Range
  <2>2. i # 1 /\ i - 1 \in 1..(Len(s) - 1) /\ Tail(s)[i - 1] = f
    BY <2>1, <1>1, <1>4
  <2> QED BY <2>2, <1>1, Zenon DEF Range
<1>5. Range(Tail(s)) = Range(s) \ {s[1]}
  BY <1>3, <1>4
<1>6. Head(s) = s[1] /\ s[1] \in Range(s) /\ s[1] \in S
  BY <1>1 DEF Range
<1> QED BY <1>1, <1>2, <1>5, <1>6

\* Before the first commit nothing has been exported.
LEMMA ImageStart == ImageInit => ImageFaithful
<1> SUFFICES ASSUME ImageInit PROVE ImageFaithful
  OBVIOUS
<1>1. NoDiff \in [Paths -> Contents] /\ NoManifest \in Manifests
  BY DEF NoDiff, Contents, NoManifest, Manifests
<1>2. upper \in [Paths -> Contents]
  BY DEF ImageInit, Contents, Files
<1>3. ImageTypeOK
  BY <1>1, <1>2, Zenon DEF ImageInit, ImageTypeOK, FlagsOK, NoImage
<1> QED
  BY <1>3 DEF ImageInit, ImageFaithful, CommitIsSnapshot, RunStartsFromCommit, FrozenThroughout,
     WalkInOrder, SignedIsCommitted, RunReadsCommit, NoImage

\* Each step of commit, run and workload keeps the types.
LEMMA ImageTyped == ImageFaithful /\ [ImageNext]_imageVars => ImageTypeOK'
<1> SUFFICES ASSUME ImageFaithful, [ImageNext]_imageVars PROVE ImageTypeOK'
  OBVIOUS
<1>n. NoDiff \in [Paths -> Contents] /\ "none" \in Contents /\ "deleted" \in Contents
  BY DEF NoDiff, Contents
<1>b. FlagsOK'
  <2>1. CASE CommitStep
    BY <2>1, Zenon DEF CommitStep, BeginCommit, PrepareImageDir, CopyBaseSidecars, CopyDiffEntry, HashDiffEntry,
       SaveManifest, WriteImageHmac, CommitError, CommitDies, AbortCommit, DropFreezeGuard, WritesImage,
       FreezeGuard, FlagsOK, ImageFaithful, ImageTypeOK
  <2>2. CASE ImageRunStep
    BY <2>2, Zenon DEF ImageRunStep, BeginImageRun, ReloadImage, CopyImageDiff, ReplayDeletedPaths, ImageRunEnds,
       commitVars, FlagsOK, ImageFaithful, ImageTypeOK
  <2>3. CASE (\E f \in Paths : WorkloadWrites(f)) \/ UNCHANGED imageVars
    BY <2>3 DEF WorkloadWrites, commitVars, imageVars, FlagsOK, ImageFaithful, ImageTypeOK
  <2> QED BY <2>1, <2>2, <2>3 DEF ImageNext
<1> USE <1>b DEF ImageFaithful, ImageTypeOK
<1>1. CASE BeginCommit
  BY <1>1, Zenon DEF BeginCommit, runVars
<1>2. CASE PrepareImageDir
  BY <1>2, <1>n DEF PrepareImageDir, runVars
<1>3. CASE CopyBaseSidecars
  BY <1>3, <1>n, Zenon DEF CopyBaseSidecars, runVars, Manifests
<1>4. CASE CopyDiffEntry
  <2>1. mtodo # <<>> /\ Head(mtodo) \in Paths
    BY <1>4, TailOfWalk DEF CopyDiffEntry, WalkInOrder
  <2>2. CASE UNCHANGED <<upper, image, started, upc_image, listed>> /\ mpc' \in {"copy", "idle"}
    BY <2>2
  <2>3. CASE /\ listed' = [listed EXCEPT !.deleted = @ \cup {Head(mtodo)}]
             /\ UNCHANGED <<upper, image, mpc, started, upc_image>>
    BY <2>1, <2>3, Zenon DEF Manifests
  <2>4. CASE /\ image' = [image EXCEPT !.diff[Head(mtodo)] = upper[Head(mtodo)]]
             /\ mpc' = "hash" /\ UNCHANGED <<upper, listed, started, upc_image>>
    BY <2>1, <2>4
  <2> QED BY <1>4, <2>2, <2>3, <2>4 DEF CopyDiffEntry, AbortCommit, runVars
<1>5. CASE HashDiffEntry
  <2>1. Head(mtodo) \in Paths
    BY <1>5, TailOfWalk DEF HashDiffEntry, WalkInOrder
  <2>2. CASE UNCHANGED <<upper, image, started, upc_image, listed>> /\ mpc' = "idle"
    BY <2>2
  <2>3. CASE /\ listed' = [listed EXCEPT !.hashes[Head(mtodo)] = upper[Head(mtodo)]]
             /\ mpc' = "copy" /\ UNCHANGED <<upper, image, started, upc_image>>
    BY <2>1, <2>3, Zenon DEF Manifests
  <2> QED BY <1>5, <2>2, <2>3 DEF HashDiffEntry, AbortCommit, runVars
<1>6. CASE SaveManifest
  BY <1>6 DEF SaveManifest, runVars
<1>7. CASE WriteImageHmac
  BY <1>7, Zenon DEF WriteImageHmac, runVars
<1>8. CASE CommitError \/ CommitDies
  BY <1>8, Zenon DEF CommitError, AbortCommit, CommitDies, runVars
<1>9. CASE BeginImageRun \/ ReloadImage
  BY <1>9 DEF BeginImageRun, ReloadImage, ImageRunRefused, commitVars
<1>10. CASE CopyImageDiff
  BY <1>10 DEF CopyImageDiff, ImageRunRefused, commitVars
<1>11. CASE ReplayDeletedPaths
  <2>1. [f \in Paths |-> IF f \in replay THEN "deleted" ELSE started[f]] \in [Paths -> Contents]
    BY <1>n
  <2> QED BY <1>11, <2>1 DEF ReplayDeletedPaths, ImageRunRefused, commitVars
<1>12. CASE ImageRunEnds
  BY <1>12, <1>n DEF ImageRunEnds, commitVars
<1>13. ASSUME NEW f \in Paths, WorkloadWrites(f) PROVE ImageTypeOK'
  <2>1. UNCHANGED <<started, image, listed, mpc, upc_image>>
    BY <1>13 DEF WorkloadWrites, commitVars, runVars
  <2>2. upper' \in [Paths -> Contents]
    BY <1>13 DEF WorkloadWrites
  <2> QED BY <2>1, <2>2
<1>14. CASE UNCHANGED imageVars
  BY <1>14, SMTT(30) DEF imageVars
<1> QED BY <1>1, <1>2, <1>3, <1>4, <1>5, <1>6, <1>7, <1>8, <1>9, <1>10, <1>11, <1>12, <1>13, <1>14, Zenon
        DEF ImageNext, CommitStep, ImageRunStep

\* What a run relies on, apart from the walk of a commit.
RunPart == RunStartsFromCommit /\ SignedIsCommitted /\ RunReadsCommit

\* A commit that writes into the image directory during a run is noticed.
LEMMA RunKept == ImageFaithful /\ [ImageNext]_imageVars => RunPart'
<1> SUFFICES ASSUME ImageFaithful, [ImageNext]_imageVars PROVE RunPart'
  OBVIOUS
<1> USE DEF ImageFaithful, ImageTypeOK, RunPart, RunStartsFromCommit, SignedIsCommitted, RunReadsCommit
<1>1. CASE BeginCommit
  BY <1>1, Zenon DEF BeginCommit, runVars
<1>2. CASE PrepareImageDir \/ CopyBaseSidecars \/ SaveManifest
  BY <1>2, Zenon DEF PrepareImageDir, CopyBaseSidecars, SaveManifest, WritesImage, runVars
<1>3. CASE CopyDiffEntry
  BY <1>3, Zenon DEF CopyDiffEntry, AbortCommit, WritesImage, runVars
<1>4. CASE HashDiffEntry
  BY <1>4 DEF HashDiffEntry, AbortCommit, runVars
<1>5. CASE WriteImageHmac
  BY <1>5, Zenon DEF WriteImageHmac, WritesImage, ComputeImageHmac, runVars
<1>6. CASE CommitError \/ CommitDies
  BY <1>6 DEF CommitError, AbortCommit, CommitDies, runVars
<1>7. CASE BeginImageRun
  <2>1. /\ upc_image = "idle" /\ upc_image' \in {"loaded", "refused"}
        /\ UNCHANGED <<image, committed, mpc, started, replay>>
        /\ ~overlapped_run' => mpc = "idle"
    BY <1>7, Zenon DEF BeginImageRun, ImageRunRefused, commitVars
  <2>2. ASSUME upc_image' = "loaded"
        PROVE  image.hmac # <<>> /\ image.hmac[3] = image.diff /\ image.hmac[4] = image.manifest
    <3>1. ImageVerifies
      BY <1>7, <2>2, Zenon DEF BeginImageRun, ImageRunRefused
    <3> QED BY <3>1 DEF ImageVerifies, ComputeImageHmac
  <2> QED BY <2>1, <2>2
<1>8. CASE ReloadImage
  BY <1>8, Zenon DEF ReloadImage, ImageVerifies, ComputeImageHmac, ImageRunRefused, commitVars
<1>9. CASE CopyImageDiff
  BY <1>9, ZenonT(60) DEF CopyImageDiff, ImageRunRefused, commitVars
<1>10. CASE ReplayDeletedPaths
  BY <1>10 DEF ReplayDeletedPaths, ImageRunRefused, commitVars
<1>11. CASE ImageRunEnds
  BY <1>11, Zenon DEF ImageRunEnds, commitVars
<1>12. ASSUME NEW f \in Paths, WorkloadWrites(f) PROVE RunPart'
  BY <1>12, ZenonT(60) DEF WorkloadWrites, commitVars, runVars
<1>13. CASE UNCHANGED imageVars
  BY <1>13, SMTT(30) DEF imageVars
<1> QED BY <1>1, <1>2, <1>3, <1>4, <1>5, <1>6, <1>7, <1>8, <1>9, <1>10, <1>11, <1>12, <1>13, ZenonT(60)
        DEF ImageNext, CommitStep, ImageRunStep

\* What a commit relies on.
CommitPart == FrozenThroughout /\ WalkInOrder /\ CommitIsSnapshot

\* Steps that leave what the walk is about as it is, or end the commit.
LEMMA CommitKept ==
  ASSUME ImageFaithful,
         \/ mpc' = "idle"
         \/ UNCHANGED <<mpc, with_freeze, frozen, upper, at_freeze, mtodo, image, listed>>
  PROVE  CommitPart'
<1>1. CASE mpc' = "idle"
  BY <1>1, Zenon DEF CommitPart, FrozenThroughout, WalkInOrder, CommitIsSnapshot
<1>2. CASE UNCHANGED <<mpc, with_freeze, frozen, upper, at_freeze, mtodo, image, listed>>
  <2>1. FrozenThroughout'
    BY <1>2, Zenon DEF ImageFaithful, FrozenThroughout, Exported
  <2>2. WalkInOrder'
    BY <1>2, Zenon DEF ImageFaithful, WalkInOrder, Visited, Unvisited, Exported
  <2>3. CommitIsSnapshot'
    BY <1>2, Zenon DEF ImageFaithful, CommitIsSnapshot, Exported
  <2> QED BY <2>1, <2>2, <2>3 DEF CommitPart
<1> QED BY <1>1, <1>2, ZenonT(60)

\* Each step of the walk over the upper directory keeps what it has exported.
LEMMA WalkKept == ImageFaithful /\ [ImageNext]_imageVars => CommitPart'
<1> SUFFICES ASSUME ImageFaithful, [ImageNext]_imageVars PROVE CommitPart'
  OBVIOUS
<1>1. CASE BeginCommit
  <2>1. /\ mpc' \in {"idle", "prepare"} /\ upper' = upper
        /\ mpc' = "prepare" /\ with_freeze' => frozen' /\ at_freeze' = upper
    <3>1. PICK freeze \in BOOLEAN :
             /\ with_freeze' = freeze
             /\ \/ frozen' = (frozen \/ freeze) /\ mpc' = "prepare"
                \/ mpc' = "idle"
      BY <1>1, Zenon DEF BeginCommit, FreezeGuard
    <3>2. upper' = upper /\ (with_freeze' => at_freeze' = upper)
      BY <1>1 DEF BeginCommit
    <3> QED BY <3>1, <3>2
  <2> QED BY <2>1 DEF CommitPart, FrozenThroughout, WalkInOrder, CommitIsSnapshot
<1>2. CASE PrepareImageDir
  BY <1>2 DEF PrepareImageDir, ImageFaithful, ImageTypeOK, CommitPart, FrozenThroughout, WalkInOrder,
     CommitIsSnapshot
<1>3. CASE CopyBaseSidecars
  <2> USE <1>3 DEF CopyBaseSidecars, ImageFaithful
  <2>1. FrozenThroughout' /\ CommitIsSnapshot'
    BY DEF FrozenThroughout, CommitIsSnapshot
  <2>2. mtodo' \in Seq(Paths) /\ IsInjective(mtodo') /\ Range(mtodo') = Paths
    BY WalkedOnce DEF Paths
  <2>3. image'.diff = NoDiff /\ listed' = [hashes |-> NoDiff, deleted |-> {}]
    BY DEF ImageTypeOK, WalkInOrder
  <2>4. WalkInOrder'
    BY <2>2, <2>3 DEF WalkInOrder, Unvisited, NoDiff
  <2> QED BY <2>1, <2>4 DEF CommitPart
<1>4. CASE CopyDiffEntry
  <2>s. /\ mpc = "copy" /\ mtodo # <<>> /\ mtodo \in Seq(Paths) /\ IsInjective(mtodo)
        /\ listed.deleted \subseteq Paths
        /\ \A f \in Range(mtodo) : Unvisited(f)
        /\ with_freeze => \A f \in Paths \ Range(mtodo) : Visited(f)
    BY <1>4 DEF CopyDiffEntry, ImageFaithful, WalkInOrder
  <2>f. PICK f : f = mtodo[1]
    OBVIOUS
  <2>h. /\ Tail(mtodo) \in Seq(Paths) /\ IsInjective(Tail(mtodo)) /\ Head(mtodo) = f
        /\ f \in Range(mtodo) /\ f \in Paths /\ Range(Tail(mtodo)) = Range(mtodo) \ {f}
    BY <2>s, <2>f, TailOfWalk
  <2>v. with_freeze => frozen /\ at_freeze = upper
    BY <2>s DEF ImageFaithful, FrozenThroughout
  <2>1. CASE mpc' = "idle"
    BY <2>1, CommitKept, ZenonT(60)
  <2>2. CASE /\ f \in SkippedFiles \/ upper[f] = "none"
             /\ mtodo' = Tail(mtodo)
             /\ UNCHANGED <<mpc, with_freeze, frozen, upper, at_freeze, image, listed>>
    <3>1. Unvisited(f)
      BY <2>s, <2>h, Zenon
    <3>2. with_freeze => Visited(f)
      BY <3>1, <2>2, <2>s, <2>f, <2>v, <2>h, ZenonT(60) DEF Visited, Unvisited, Exported
    <3>3. WalkInOrder'
      BY <3>1, <3>2, <2>2, <2>s, <2>h, <2>f DEF WalkInOrder, Visited, Unvisited, Exported
    <3> QED BY <3>3, <2>2, <2>s, <2>v DEF CommitPart, FrozenThroughout, CommitIsSnapshot
  <2>3. CASE /\ f \notin SkippedFiles /\ upper[f] = "deleted"
             /\ listed' = [listed EXCEPT !.deleted = @ \cup {f}]
             /\ mtodo' = Tail(mtodo)
             /\ UNCHANGED <<mpc, with_freeze, frozen, upper, at_freeze, image>>
    <3>1. listed'.hashes = listed.hashes /\ listed'.deleted = listed.deleted \cup {f}
      BY <2>3, ZenonT(60) DEF ImageFaithful, ImageTypeOK, Manifests
    <3>2. Unvisited(f)
      BY <2>s, <2>h
    <3>3. with_freeze => Visited(f)'
      BY <3>1, <3>2, <2>3, <2>s, <2>v, <2>h DEF Visited, Unvisited, Exported
    <3>4. WalkInOrder'
      BY <3>1, <3>2, <3>3, <2>3, <2>s, <2>h, <2>f DEF WalkInOrder, Visited, Unvisited, Exported
    <3> QED BY <3>4, <2>3, <2>s, <2>v DEF CommitPart, FrozenThroughout, CommitIsSnapshot
  <2>4. CASE /\ f \notin SkippedFiles
             /\ image' = [image EXCEPT !.diff[f] = upper[f]]
             /\ mpc' = "hash"
             /\ UNCHANGED <<mtodo, with_freeze, frozen, upper, at_freeze, listed>>
    <3>1. image'.diff = [image.diff EXCEPT ![f] = upper[f]]
      BY <2>4 DEF ImageFaithful, ImageTypeOK
    <3>2. image.diff \in [Paths -> Contents]
      BY DEF ImageFaithful, ImageTypeOK
    <3>3. WalkInOrder'
      BY <3>1, <3>2, <2>4, <2>s, <2>h, <2>f DEF WalkInOrder, Visited, Unvisited, Exported
    <3> QED BY <3>3, <2>4, <2>s, <2>v DEF CommitPart, FrozenThroughout, CommitIsSnapshot
  <2> QED BY <1>4, <2>h, <2>1, <2>2, <2>3, <2>4 DEF CopyDiffEntry, AbortCommit
<1>5. CASE HashDiffEntry
  <2>s. /\ mpc = "hash" /\ mtodo # <<>> /\ mtodo \in Seq(Paths) /\ IsInjective(mtodo)
        /\ listed.deleted \subseteq Paths /\ mtodo[1] \notin SkippedFiles
        /\ \A f \in Range(mtodo) : Unvisited(f)
        /\ with_freeze => /\ image.diff[mtodo[1]] = upper[mtodo[1]]
                          /\ \A f \in Paths \ Range(mtodo) : Visited(f)
    BY <1>5, SMTT(30) DEF HashDiffEntry, ImageFaithful, WalkInOrder
  <2>f. PICK f : f = mtodo[1]
    OBVIOUS
  <2>h. /\ Tail(mtodo) \in Seq(Paths) /\ IsInjective(Tail(mtodo)) /\ Head(mtodo) = f
        /\ f \in Range(mtodo) /\ f \in Paths /\ Range(Tail(mtodo)) = Range(mtodo) \ {f}
    BY <2>s, <2>f, TailOfWalk, Zenon
  <2>v. with_freeze => frozen /\ at_freeze = upper
    BY <2>s, Zenon DEF ImageFaithful, FrozenThroughout
  <2>1. CASE mpc' = "idle"
    BY <2>1, CommitKept
  <2>2. CASE /\ upper[f] \in Files
             /\ listed' = [listed EXCEPT !.hashes[f] = upper[f]]
             /\ mtodo' = Tail(mtodo) /\ mpc' = "copy"
             /\ UNCHANGED <<with_freeze, frozen, upper, at_freeze, image>>
    <3>1. /\ listed'.hashes = [listed.hashes EXCEPT ![f] = upper[f]]
          /\ listed'.deleted = listed.deleted /\ listed.hashes \in [Paths -> Contents]
      BY <2>2, Zenon DEF ImageFaithful, ImageTypeOK, Manifests
    <3>2. Unvisited(f)
      BY <2>s, <2>h, Zenon
    <3>3. with_freeze => Visited(f)'
      BY <3>1, <3>2, <2>2, <2>s, <2>f, <2>v, <2>h DEF Visited, Unvisited, Exported, Files
    <3>4. WalkInOrder'
      BY <3>1, <3>2, <3>3, <2>2, <2>s, <2>h, <2>f, SMTT(30) DEF WalkInOrder, Visited, Unvisited, Exported
    <3> QED BY <3>4, <2>2, <2>s, <2>v DEF CommitPart, FrozenThroughout, CommitIsSnapshot
  <2> QED BY <1>5, <2>h, <2>1, <2>2 DEF HashDiffEntry, AbortCommit
<1>6. CASE SaveManifest
  <2>1. image'.diff = image.diff /\ image'.manifest = listed
    BY <1>6 DEF SaveManifest, ImageFaithful, ImageTypeOK
  <2>2. mpc = "copy" /\ mpc' = "sign" /\ Range(mtodo) = {} /\ UNCHANGED <<with_freeze, frozen, upper, at_freeze>>
    BY <1>6 DEF SaveManifest, Range
  <2>3. image.diff \in [Paths -> Contents] /\ listed.hashes \in [Paths -> Contents]
        /\ listed.deleted \subseteq Paths
    BY <2>2, Zenon DEF ImageFaithful, ImageTypeOK, Manifests, WalkInOrder
  <2>4. with_freeze => \A f \in Paths : Visited(f)
    BY <2>2, Zenon DEF ImageFaithful, WalkInOrder
  <2>5. CommitIsSnapshot'
    <3> SUFFICES ASSUME with_freeze
                 PROVE  /\ image.diff = Exported(at_freeze) /\ listed.hashes = image.diff
                        /\ listed.deleted = {f \in Paths \ SkippedFiles : at_freeze[f] = "deleted"}
      BY <2>1, <2>2 DEF CommitIsSnapshot, Exported
    <3>1. DOMAIN Exported(at_freeze) = Paths
      BY DEF Exported
    <3>2. \A f \in Paths : image.diff[f] = Exported(at_freeze)[f]
      BY <2>4 DEF Visited
    <3>3. image.diff = Exported(at_freeze)
      BY <3>1, <3>2, <2>3, SMTT(30) DEF Exported
    <3>4. listed.hashes = image.diff
      BY <2>4, <2>3 DEF Visited
    <3>5. \A f \in Paths : f \in listed.deleted <=> f \notin SkippedFiles /\ at_freeze[f] = "deleted"
      BY <2>4 DEF Visited
    <3> QED BY <3>3, <3>4, <3>5, <2>3
  <2> QED BY <2>2, <2>5 DEF CommitPart, WalkInOrder, FrozenThroughout, ImageFaithful
<1>7. CASE WriteImageHmac \/ CommitError \/ CommitDies
  BY <1>7, CommitKept, Zenon DEF WriteImageHmac, CommitError, AbortCommit, CommitDies
<1>8. CASE ImageRunStep
  BY <1>8, CommitKept, SMTT(30) DEF ImageRunStep, BeginImageRun, ReloadImage, CopyImageDiff, ReplayDeletedPaths,
     ImageRunEnds, commitVars
<1>9. ASSUME NEW f \in Paths, WorkloadWrites(f) PROVE CommitPart'
  <2>1. /\ UNCHANGED <<mpc, with_freeze, frozen, at_freeze, mtodo, image, listed>>
        /\ mpc # "idle" => ~with_freeze
    BY <1>9 DEF WorkloadWrites, commitVars, ImageFaithful, FrozenThroughout
  <2> QED BY <2>1, Zenon DEF ImageFaithful, CommitPart, FrozenThroughout, WalkInOrder, CommitIsSnapshot, Unvisited
<1>10. CASE UNCHANGED imageVars
  BY <1>10, CommitKept DEF imageVars
<1> QED BY <1>1, <1>2, <1>3, <1>4, <1>5, <1>6, <1>7, <1>8, <1>9, <1>10, ZenonT(60) DEF ImageNext, CommitStep

\* Commit and run of an image: a frozen commit is a snapshot of the overlay, and a
\* run starts from exactly what was committed.
THEOREM ImageCorrect == ImageSpec => []ImageFaithful
<1>1. ImageFaithful /\ [ImageNext]_imageVars => ImageFaithful'
  BY ImageTyped, RunKept, WalkKept DEF ImageFaithful, RunPart, CommitPart
<1> QED BY <1>1, ImageStart, PTL DEF ImageSpec
=============================================================================
