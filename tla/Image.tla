------------------------------- MODULE Image -------------------------------
(***************************************************************************)
(* `nucleus image commit` and `nucleus image run` (image/mod.rs, main.rs): *)
(* the upper directory of a running container's overlay is exported, file  *)
(* by file, to an image directory that is signed last; a run verifies the  *)
(* signature and copies the exported files into a fresh upper directory.   *)
(*                                                                         *)
(* The workload goes on writing unless its cgroup is frozen.  A commit may *)
(* fail or die after any of its steps and be repeated into the same        *)
(* directory.  A file's content is its "old" or its "new" version;         *)
(* "deleted" is an overlay whiteout, "special" a socket or a device.       *)
(***************************************************************************)
EXTENDS Naturals, Sequences, Functions

CONSTANTS
    DiffFiles,      \* the paths the workload touches, in the order of the walk
    SkippedFiles,   \* those under /dev, /proc, /sys, .old_root and run/secrets
    MaxCommits,     \* bound: commits that are begun
    MaxWrites       \* bound: changes the workload makes

\* The walk of a directory visits a path once.
ASSUME WalkedOnce == DiffFiles \in Seq(Range(DiffFiles)) /\ IsInjective(DiffFiles)

VARIABLES
    upper,          \* the container's upper directory: path -> content
    writes,         \* changes the workload has made
    frozen,         \* is the container's cgroup frozen?
    with_freeze,    \* --freeze of the commit at work
    mpc, mtodo,     \* the commit: next step, and the paths still to visit
    image,          \* the image directory: [sidecars, diff, manifest, hmac]
    listed,         \* the commit's manifest so far: [hashes, deleted]
    hmac_key,       \* the key file: "none", "short" or "whole"
    commits,        \* commits begun
    upc_image,      \* the run: next step
    replay,         \* the deleted paths of the manifest the run has loaded
    started,        \* the upper directory the run has made
    at_freeze,      \* history: the upper directory when it was frozen
    committed,      \* history: the diff and deletions of the last finished commit
    overlapped_run  \* history: did a commit touch the directory during the run?

imageVars == <<upper, writes, frozen, with_freeze, mpc, mtodo, image, listed, hmac_key, commits,
               upc_image, replay, started, at_freeze, committed, overlapped_run>>

commitVars == <<with_freeze, mpc, mtodo, listed, commits>>
runVars == <<upc_image, replay, started>>

Paths == Range(DiffFiles)
NoDiff == [f \in Paths |-> "none"]
NoManifest == [hashes |-> NoDiff, deleted |-> {"nothing yet"}]
NoImage == [sidecars |-> "none", diff |-> NoDiff, manifest |-> NoManifest, hmac |-> <<>>]
Files == {"old", "new"}
Contents == {"none", "deleted", "special"} \cup Files
Manifests == [hashes : [Paths -> Contents], deleted : SUBSET (Paths \cup {"nothing yet"})]

FlagsOK == frozen \in BOOLEAN /\ with_freeze \in BOOLEAN /\ overlapped_run \in BOOLEAN

ImageTypeOK ==
    /\ upper \in [Paths -> Contents] /\ started \in [Paths -> Contents]
    /\ image = [sidecars |-> image.sidecars, diff |-> image.diff, manifest |-> image.manifest,
                hmac |-> image.hmac]
    /\ image.diff \in [Paths -> Contents] /\ image.manifest \in Manifests /\ listed \in Manifests
    /\ FlagsOK
    /\ mpc \in {"idle", "prepare", "sidecars", "copy", "hash", "manifest", "sign"}
    /\ upc_image \in {"idle", "loaded", "copying", "replay", "running", "refused"}

ImageInit ==
    /\ upper = [f \in Paths |-> "old"] /\ writes = 0 /\ frozen = FALSE
    /\ with_freeze = FALSE /\ mpc = "idle" /\ mtodo = <<>>
    /\ image = NoImage /\ listed = NoManifest /\ hmac_key = "none" /\ commits = 0
    /\ upc_image = "idle" /\ replay = {} /\ started = NoDiff
    /\ at_freeze = NoDiff /\ committed = [diff |-> NoDiff, deleted |-> {}] /\ overlapped_run = FALSE

---------------------------------------------------------------------------
(* image commit *)

\* The guard is dropped as soon as it is taken.
FreezeDropped(freeze) == FALSE

\* Cgroup::freeze_existing; the guard lives to the end of the commit.
FreezeGuard(freeze) == freeze

\* main.rs Commit and the head of commit_container_image.  When the wait for the
\* freeze fails there is no guard yet, and nothing thaws.
BeginCommit ==
    /\ mpc = "idle" /\ commits < MaxCommits
    /\ \E freeze \in BOOLEAN :
          /\ with_freeze' = freeze
          /\ \/ frozen' = (frozen \/ FreezeGuard(freeze)) /\ mpc' = "prepare"
             \/ freeze /\ frozen' \in {frozen, TRUE} /\ mpc' = "idle"
    /\ at_freeze' = IF with_freeze' THEN upper ELSE NoDiff
    /\ commits' = commits + 1
    /\ UNCHANGED <<upper, writes, mtodo, image, listed, hmac_key, runVars, committed, overlapped_run>>

\* A step of the commit that writes the image directory.
WritesImage == overlapped_run' = (overlapped_run \/ upc_image # "idle")

\* prepare_image_dir and prepare_empty_dir: an older diff is emptied.
PrepareImageDir ==
    /\ mpc = "prepare" /\ mpc' = "sidecars"
    /\ image' = [image EXCEPT !.diff = NoDiff]
    /\ WritesImage
    /\ UNCHANGED <<upper, writes, frozen, with_freeze, mtodo, listed, hmac_key, commits, runVars, at_freeze, committed>>

\* ImageBase::from_rootfs and copy_base_sidecars
CopyBaseSidecars ==
    /\ mpc = "sidecars" /\ mpc' = "copy"
    /\ image' = [image EXCEPT !.sidecars = "base"]
    /\ listed' = [hashes |-> NoDiff, deleted |-> {}]
    /\ mtodo' = DiffFiles
    /\ WritesImage
    /\ UNCHANGED <<upper, writes, frozen, with_freeze, hmac_key, commits, runVars, at_freeze, committed>>

\* Drop for CgroupFreezeGuard: only the commit that froze the cgroup thaws it.
DropFreezeGuard == frozen' = (frozen /\ ~with_freeze)

\* What a commit leaves behind when it returns an error: nothing is undone,
\* but its freeze guard thaws the container.
AbortCommit == /\ mpc' = "idle" /\ DropFreezeGuard
               /\ UNCHANGED <<upper, writes, with_freeze, mtodo, image, listed, hmac_key, commits, runVars,
                              at_freeze, committed, overlapped_run>>

\* copy_tree, for one entry (with preserve_path_metadata): a whiteout is
\* recorded, a file copied, another special file is an error.
CopyDiffEntry ==
    /\ mpc = "copy" /\ mtodo # <<>>
    /\ LET f == Head(mtodo) IN
       IF f \in SkippedFiles \/ upper[f] = "none"
       THEN /\ mtodo' = Tail(mtodo)
            /\ UNCHANGED <<upper, writes, frozen, with_freeze, mpc, image, listed, hmac_key, commits, runVars,
                           at_freeze, committed, overlapped_run>>
       ELSE IF upper[f] = "special" THEN AbortCommit
       ELSE IF upper[f] = "deleted"
       THEN /\ listed' = [listed EXCEPT !.deleted = @ \cup {f}]
            /\ mtodo' = Tail(mtodo)
            /\ UNCHANGED <<upper, writes, frozen, with_freeze, mpc, image, hmac_key, commits, runVars,
                           at_freeze, committed, overlapped_run>>
       ELSE /\ image' = [image EXCEPT !.diff[f] = upper[f]]
            /\ mpc' = "hash"
            /\ WritesImage
            /\ UNCHANGED <<upper, writes, frozen, with_freeze, mtodo, listed, hmac_key, commits, runVars,
                           at_freeze, committed>>

\* hash_file reads the source again, not the copy.
HashDiffEntry ==
    /\ mpc = "hash"
    /\ LET f == Head(mtodo) IN
       IF upper[f] \notin Files THEN AbortCommit
       ELSE /\ listed' = [listed EXCEPT !.hashes[f] = upper[f]]
            /\ mtodo' = Tail(mtodo) /\ mpc' = "copy"
            /\ UNCHANGED <<upper, writes, frozen, with_freeze, image, hmac_key, commits, runVars,
                           at_freeze, committed, overlapped_run>>

\* NucleusImageManifest::new and save
SaveManifest ==
    /\ mpc = "copy" /\ mtodo = <<>> /\ mpc' = "sign"
    /\ image' = [image EXCEPT !.manifest = listed]
    /\ WritesImage
    /\ UNCHANGED <<upper, writes, frozen, with_freeze, mtodo, listed, hmac_key, commits, runVars, at_freeze, committed>>

\* The signature covers the manifest only.
MacOfManifest(img) == <<hmac_key', img.manifest>>

\* compute_image_hmac: everything in the directory but the signature.
ComputeImageHmac(img) == <<hmac_key', img.sidecars, img.diff, img.manifest>>

\* load_or_create_image_hmac_key: a key file that is too short is an error.
LoadImageKey == hmac_key # "short" /\ hmac_key' = "whole"

\* write_image_hmac, and the end of the commit, where the guard thaws.
WriteImageHmac ==
    /\ mpc = "sign" /\ mpc' = "idle"
    /\ LoadImageKey
    /\ image' = [image EXCEPT !.hmac = ComputeImageHmac(image)]
    /\ DropFreezeGuard
    /\ committed' = [diff |-> image.diff, deleted |-> image.manifest.deleted]
    /\ WritesImage
    /\ UNCHANGED <<upper, writes, with_freeze, mtodo, listed, commits, runVars, at_freeze>>

\* An I/O error, or a key file that cannot be used.
CommitError == mpc # "idle" /\ AbortCommit

\* The command dies: no guard thaws, and a key being created is cut short.
CommitDies ==
    /\ mpc # "idle" /\ mpc' = "idle"
    /\ hmac_key' \in IF mpc = "sign" /\ hmac_key = "none" THEN {"none", "short"} ELSE {hmac_key}
    /\ UNCHANGED <<upper, writes, frozen, with_freeze, mtodo, image, listed, commits, runVars,
                   at_freeze, committed, overlapped_run>>

\* The workload writes, deletes or creates, unless it is frozen.
WorkloadWrites(f) ==
    /\ ~frozen /\ writes < MaxWrites /\ writes' = writes + 1
    /\ \E to \in Contents \ {upper[f], "old", "none"} : upper' = [upper EXCEPT ![f] = to]
    /\ UNCHANGED <<frozen, commitVars, image, hmac_key, runVars, at_freeze, committed, overlapped_run>>

---------------------------------------------------------------------------
(* image run *)

\* load_image: verify_image_hmac, then the manifest's own digest.
\* Without a signature no key is read; a key file too short is an error.
ReadsKey == hmac_key' = IF image.hmac = <<>> \/ hmac_key = "short" THEN hmac_key ELSE "whole"
ImageVerifies == image.hmac # <<>> /\ hmac_key # "short" /\ image.hmac = ComputeImageHmac(image)

ImageRunRefused ==
    /\ upc_image' = "refused"
    /\ UNCHANGED <<replay, started>>

\* main.rs Run: the image is loaded for its configuration.
BeginImageRun ==
    /\ upc_image = "idle"
    /\ ReadsKey
    /\ IF ImageVerifies THEN upc_image' = "loaded" /\ UNCHANGED <<replay, started>> ELSE ImageRunRefused
    /\ overlapped_run' = (mpc # "idle")
    /\ UNCHANGED <<upper, writes, frozen, commitVars, image, at_freeze, committed>>

\* copy_image_diff_to_upper loads and verifies it again, ...
ReloadImage ==
    /\ upc_image = "loaded"
    /\ ReadsKey
    /\ IF ImageVerifies
       THEN upc_image' = "copying" /\ replay' = image.manifest.deleted /\ UNCHANGED started
       ELSE ImageRunRefused
    /\ UNCHANGED <<upper, writes, frozen, commitVars, image, at_freeze, committed, overlapped_run>>

\* ... copies the diff into the empty upper directory, ...
CopyImageDiff ==
    /\ upc_image = "copying"
    /\ \/ upc_image' = "replay" /\ started' = image.diff /\ UNCHANGED replay
       \/ ImageRunRefused
    /\ UNCHANGED <<upper, writes, frozen, commitVars, image, hmac_key, at_freeze, committed, overlapped_run>>

\* Deleted files are forgotten.
ReplayNothing ==
    /\ upc_image = "replay" /\ upc_image' = "running"
    /\ UNCHANGED <<upper, writes, frozen, commitVars, image, hmac_key, replay, started, at_freeze, committed, overlapped_run>>

\* ... and replay_deleted_paths makes the whiteouts, never over a file.
ReplayDeletedPaths ==
    /\ upc_image = "replay"
    /\ IF \E f \in replay : started[f] # "none" THEN ImageRunRefused
       ELSE /\ started' = [f \in Paths |-> IF f \in replay THEN "deleted" ELSE started[f]]
            /\ upc_image' = "running" /\ UNCHANGED replay
    /\ UNCHANGED <<upper, writes, frozen, commitVars, image, hmac_key, at_freeze, committed, overlapped_run>>

\* The container ends (ImageRunOverlayGuard removes its directory), or the
\* run failed; another may begin.
ImageRunEnds ==
    /\ upc_image \in {"running", "refused"} /\ upc_image' = "idle"
    /\ started' = NoDiff /\ replay' = {} /\ overlapped_run' = FALSE
    /\ UNCHANGED <<upper, writes, frozen, commitVars, image, hmac_key, at_freeze, committed>>

CommitStep ==
    \/ BeginCommit \/ PrepareImageDir \/ CopyBaseSidecars \/ CopyDiffEntry \/ HashDiffEntry
    \/ SaveManifest \/ WriteImageHmac \/ CommitError \/ CommitDies

ImageRunStep ==
    BeginImageRun \/ ReloadImage \/ CopyImageDiff \/ ReplayDeletedPaths \/ ImageRunEnds

ImageNext == CommitStep \/ ImageRunStep \/ \E f \in Paths : WorkloadWrites(f)

ImageSpec == ImageInit /\ [][ImageNext]_imageVars

---------------------------------------------------------------------------

Exported(u) == [f \in Paths |-> IF f \in SkippedFiles \/ u[f] = "deleted" THEN "none" ELSE u[f]]

(***************************************************************************)
(* With --freeze the image is the container's upper directory at one       *)
(* moment, and the manifest's digests are those of the files in the image, *)
(* although the workload writes whenever it is not frozen and the digest   *)
(* is taken from the original after the copy (image/mod.rs copy_tree).     *)
(***************************************************************************)
CommitIsSnapshot ==
    mpc = "sign" /\ with_freeze =>
        /\ image.diff = Exported(at_freeze)
        /\ image.manifest.hashes = image.diff
        /\ image.manifest.deleted = {f \in Paths \ SkippedFiles : at_freeze[f] = "deleted"}

(***************************************************************************)
(* `image run` starts from exactly the files and deletions of one finished *)
(* commit, whatever commits failed or died in the directory before: the    *)
(* signature, written last over everything, refuses what is half written.  *)
(* (A commit into the directory while the run copies it is excluded: the   *)
(* run verifies first and reads the files afterwards.)                     *)
(***************************************************************************)
RunStartsFromCommit ==
    upc_image = "running" /\ ~overlapped_run =>
        started = [f \in Paths |-> IF f \in committed.deleted THEN "deleted" ELSE committed.diff[f]]

---------------------------------------------------------------------------
(* The inductive invariant behind them. *)

\* While a commit that froze the container is at work, the container stands still.
FrozenThroughout == mpc # "idle" /\ with_freeze => frozen /\ at_freeze = upper

\* The walk: nothing is known yet of the paths still to visit, and what is known of
\* the others is what a frozen container has.
Visited(f) ==
    /\ image.diff[f] = Exported(at_freeze)[f] /\ listed.hashes[f] = image.diff[f]
    /\ f \in listed.deleted <=> f \notin SkippedFiles /\ at_freeze[f] = "deleted"

Unvisited(f) ==
    /\ f \notin listed.deleted /\ listed.hashes[f] = "none"
    /\ mpc = "copy" \/ f # mtodo[1] => image.diff[f] = "none"

WalkInOrder ==
    /\ mpc = "sidecars" => image.diff = NoDiff
    /\ mpc \in {"copy", "hash"} =>
          /\ mtodo \in Seq(Paths) /\ IsInjective(mtodo) /\ listed.deleted \subseteq Paths
          /\ \A f \in Range(mtodo) : Unvisited(f)
          /\ with_freeze => \A f \in Paths \ Range(mtodo) : Visited(f)
    /\ mpc = "hash" =>
          /\ mtodo # <<>> /\ mtodo[1] \notin SkippedFiles
          /\ with_freeze => image.diff[mtodo[1]] = upper[mtodo[1]]

\* What was signed last is the last finished commit, and a run that no commit
\* disturbs has read just that.
SignedIsCommitted ==
    image.hmac # <<>> => /\ image.hmac[3] = committed.diff
                         /\ image.hmac[4].deleted = committed.deleted

RunReadsCommit ==
    ~overlapped_run =>
        /\ upc_image \in {"loaded", "copying", "replay", "running"} =>
              /\ mpc \in {"idle", "prepare"}
              /\ image.diff = committed.diff /\ image.manifest.deleted = committed.deleted
        /\ upc_image \in {"copying", "replay"} => replay = committed.deleted
        /\ upc_image = "replay" => started = committed.diff

\* A frozen commit is a snapshot, and a run of the image starts from exactly what
\* was committed (image/mod.rs); with what makes this inductive.
ImageFaithful ==
    /\ ImageTypeOK /\ CommitIsSnapshot /\ RunStartsFromCommit
    /\ FrozenThroughout /\ WalkInOrder /\ SignedIsCommitted /\ RunReadsCommit
=============================================================================
