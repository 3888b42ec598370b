----------------------------- MODULE Checkpoint -----------------------------
(***************************************************************************)
(* `nucleus checkpoint` and `nucleus restore` (checkpoint/criu.rs,         *)
(* checkpoint/metadata.rs and their commands in main.rs).                  *)
(*                                                                         *)
(* A checkpoint runs beside the supervisor of its container: a dump that   *)
(* does not leave the container running kills it, the supervisor then      *)
(* takes the cgroup down, and the command still has to read the limits     *)
(* from there.  The checkpoint directory is written in three steps         *)
(* (images, metadata, HMAC) and the command may die between any two; a     *)
(* later checkpoint may be written over an earlier one.  Contents are      *)
(* identified by the number of the checkpoint that wrote them.             *)
(***************************************************************************)
EXTENDS Naturals

CONSTANTS
    MaxCheckpoints,  \* bound on the checkpoints taken
    MaxKeys,         \* bound on the HMAC keys created
    Limits           \* the sets of limits the container may have been given

ASSUME CheckpointBounds == MaxCheckpoints \in Nat /\ MaxKeys \in Nat

VARIABLES
    workload,  \* the container: "live" or "dead"
    cgroup,    \* its cgroup, as its record has it: "none", "present" or "removed"
    given,     \* the limits in the cgroup
    kpc,       \* where the checkpoint command is
    kstate,    \* CheckpointState of its CriuRuntime
    leave,     \* --leave-running
    count,     \* checkpoints begun so far
    images,    \* whose images the directory holds; 0 for none, Torn for a mix
    meta,      \* whose metadata it holds, with the limits captured
    mac,       \* the key, images and metadata the HMAC file was computed from
    key,       \* the key file: absent (0), a key, or one cut short
    keys,      \* keys created so far
    rpc,       \* where the restore command is
    loaded,    \* the metadata it has read
    restored,  \* the restored process
    rlimits,    \* the limits of the cgroup it was put in
    rrecord     \* the state file of the restored container

container == <<workload, cgroup, given>>
keyfile == <<key, keys>>
dump == <<kpc, kstate, leave, count, images, meta>>
restore == <<rpc, loaded, restored, rlimits, rrecord>>
checkpointVars == <<container, keyfile, dump, mac, restore>>

Torn == MaxCheckpoints + 1
Short == MaxKeys + 1
NoMeta == [by |-> 0, cgroup |-> FALSE, limits |-> {}]
NoMac == <<0, 0, 0>>
Numbers == 0..MaxCheckpoints
AllLimits == (UNION Limits) \cup {"cpu.weight"}
Metadata == [by : Numbers, cgroup : BOOLEAN, limits : SUBSET AllLimits]

CheckpointTypeOK ==
    /\ workload \in {"live", "dead"} /\ cgroup \in {"none", "present", "removed"}
    /\ given \subseteq AllLimits
    /\ kpc \in {"idle", "dump", "metadata", "hmac", "done", "failed"}
    /\ kstate \in {"none", "dumping", "dumped"} /\ leave \in BOOLEAN
    /\ count \in Numbers /\ images \in Numbers \cup {Torn} /\ meta \in Metadata
    /\ mac \in (0..Short) \X (Numbers \cup {Torn}) \X Numbers
    /\ key \in 0..Short /\ keys \in 0..MaxKeys
    /\ rpc \in {"idle", "verify", "criu", "cgroup", "drop", "save", "done", "failed", "lost"}
    /\ loaded \in Metadata /\ restored \in {"none", "live", "ended", "killed"}
    /\ rlimits \subseteq AllLimits /\ rrecord \in {"absent", "saved"}

CheckpointInit ==
    /\ workload = "live" /\ cgroup \in {"none", "present"}
    /\ given \in IF cgroup = "none" THEN {{}} ELSE Limits
    /\ kpc = "idle" /\ kstate = "none" /\ leave = FALSE /\ count = 0
    /\ images = 0 /\ meta = NoMeta /\ mac = NoMac /\ key = 0 /\ keys = 0
    /\ rpc = "idle" /\ loaded = NoMeta /\ restored = "none" /\ rlimits = {}
    /\ rrecord = "absent"

(***************************************************************************)
(* Faulty variants, for checking that the properties can fail.             *)
(***************************************************************************)
\* The HMAC covers the metadata but not the images (RestoreOnlyComplete).
CoversMetadata(k) == <<k, 0, meta.by>>

\* Capture the hard limits only (LimitsSurvive).
FromHardLimits ==
    IF cgroup = "none" THEN [by |-> count, cgroup |-> FALSE, limits |-> {}]
    ELSE [by |-> count, cgroup |-> TRUE,
          limits |-> {"cpu.weight"} \cup (given \cap {"memory.max", "cpu.max"})]

(***************************************************************************)
(* The container and its supervisor.                                       *)
(***************************************************************************)
\* The workload ends by itself.
WorkloadEnds ==
    /\ workload = "live" /\ workload' = "dead"
    /\ UNCHANGED <<cgroup, given, keyfile, dump, mac, restore>>

\* start's wait returns, however the workload ended, and the cgroup is removed.
SupervisorCleansUp ==
    /\ workload = "dead" /\ cgroup = "present"
    /\ cgroup' = "removed"
    /\ UNCHANGED <<workload, given, keyfile, dump, mac, restore>>

(***************************************************************************)
(* The HMAC and its key.                                                   *)
(***************************************************************************)
\* load_or_create_checkpoint_hmac_key: the key in the file; when there is no
\* file a new key, which a failure can leave cut short; an error otherwise.
LoadKey(k) ==
    \/ k = key /\ k \in 1..MaxKeys /\ UNCHANGED keyfile
    \/ key = 0 /\ keys < MaxKeys /\ k = keys + 1 /\ key' = k /\ keys' = k

LoadKeyFails == \/ UNCHANGED keyfile
                \/ key = 0 /\ key' = Short /\ UNCHANGED keys

\* compute_checkpoint_hmac hashes the whole directory but the HMAC file itself.
ComputeHmac(k) == <<k, images, meta.by>>

\* The key file is not there any more: the directory was taken to another host,
\* or NUCLEUS_CHECKPOINT_HMAC_KEY_FILE names another file.
KeyGone ==
    /\ key # 0 /\ keys < MaxKeys /\ key' = 0
    /\ UNCHANGED <<container, keys, dump, mac, restore>>

(***************************************************************************)
(* Checkpoint.  Commands on one directory do not overlap; nothing in the   *)
(* code sees to that.                                                      *)
(***************************************************************************)
\* Commands::Checkpoint and CriuRuntime::checkpoint up to the dump: the record is
\* resolved, gVisor refused, criu found, root required, is_running checked, the
\* state moved to Dumping and the directories prepared, after which an error
\* leaves it there.
BeginCheckpoint ==
    /\ kpc \in {"idle", "done", "failed"} /\ rpc \in {"idle", "failed"}
    /\ count < MaxCheckpoints /\ workload = "live"
    /\ leave' \in BOOLEAN /\ count' = count + 1
    /\ \/ kpc' = "failed" /\ kstate' \in {"none", "dumping"}
       \/ kpc' = "dump" /\ kstate' = "dumping"
    /\ UNCHANGED <<container, keyfile, images, meta, mac, restore>>

\* criu dump: it kills what it has dumped unless told to leave it running.  When
\* it fails the container goes on, the images are anything and the state returns
\* to None.
Dump ==
    /\ kpc = "dump"
    /\ \/ /\ workload = "live" /\ images' = count /\ kpc' = "metadata"
          /\ workload' = IF leave THEN "live" ELSE "dead"
          /\ UNCHANGED kstate
       \/ /\ images' \in {images, Torn} /\ kpc' = "failed" /\ kstate' = "none"
          /\ UNCHANGED workload
    /\ UNCHANGED <<cgroup, given, keyfile, leave, count, meta, mac, restore>>

\* CheckpointMetadata::from_state and from_cgroup_dir.  A file without a limit
\* reads "max" and is no limit; cpu.weight always has a value.
FromState ==
    IF cgroup = "none" THEN [by |-> count, cgroup |-> FALSE, limits |-> {}]
    ELSE [by |-> count, cgroup |-> TRUE, limits |-> {"cpu.weight"} \cup given]

\* The metadata is captured and saved (temp file, sync, rename).  Reading fails
\* when the supervisor has removed the cgroup by now.
SaveMetadata ==
    /\ kpc = "metadata"
    /\ \/ cgroup # "removed" /\ meta' = FromState /\ kpc' = "hmac"
       \/ kpc' = "failed" /\ UNCHANGED meta
    /\ UNCHANGED <<container, keyfile, kstate, leave, count, images, mac, restore>>

\* write_checkpoint_hmac (temp file, sync, rename), then Dumping -> Dumped.  It
\* can also fail with the key already created.
WriteHmac ==
    /\ kpc = "hmac"
    /\ \/ \E k \in 1..MaxKeys : LoadKey(k) /\ mac' = ComputeHmac(k)
          /\ kpc' = "done" /\ kstate' = "dumped"
       \/ /\ LoadKeyFails \/ \E k \in 1..MaxKeys : LoadKey(k)
          /\ kpc' = "failed" /\ UNCHANGED <<mac, kstate>>
    /\ UNCHANGED <<container, leave, count, images, meta, restore>>

\* The command dies; what it has written stays.
CheckpointCrash ==
    /\ kpc \in {"dump", "metadata", "hmac"}
    /\ images' \in IF kpc = "dump" THEN {images, Torn} ELSE {images}
    /\ kpc' = "failed"
    /\ UNCHANGED <<container, keyfile, kstate, leave, count, meta, mac, restore>>

(***************************************************************************)
(* Restore.                                                                *)
(***************************************************************************)
\* CheckpointMetadata::load in the command, which keeps this copy.
LoadMetadata ==
    /\ rpc = "idle" /\ kpc \in {"idle", "done", "failed"}
    /\ \/ meta.by # 0 /\ loaded' = meta /\ rpc' = "verify"
       \/ rpc' = "failed" /\ UNCHANGED loaded
    /\ UNCHANGED <<container, keyfile, dump, mac, restored, rlimits, rrecord>>

\* CriuRuntime::restore up to criu itself: the images directory must exist and
\* the HMAC of what the directory holds now must be the recorded one.
VerifyHmac ==
    /\ rpc = "verify"
    /\ \/ \E k \in 1..MaxKeys :
             /\ mac # NoMac /\ images # 0 /\ LoadKey(k)
             /\ rpc' = IF mac = ComputeHmac(k) THEN "criu" ELSE "failed"
       \/ LoadKeyFails /\ rpc' = "failed"
    /\ UNCHANGED <<container, dump, mac, loaded, restored, rlimits, rrecord>>

\* criu restore, and the PID from its pidfile or its output.  When no PID can be
\* found, or no identifier or state directory for the new container, the restored
\* process is left to itself.
CriuRestore ==
    /\ rpc = "criu"
    /\ \/ rpc' = "failed" /\ UNCHANGED restored
       \/ restored' = "live" /\ rpc' \in {"lost", IF loaded.cgroup THEN "cgroup" ELSE "save"}
    /\ UNCHANGED <<container, keyfile, dump, mac, loaded, rlimits, rrecord>>

\* restore_checkpoint_cgroup: create the cgroup, write the captured limits,
\* attach the process.  On any error the command kills the process.
RestoreCgroup ==
    /\ rpc = "cgroup"
    /\ \/ /\ restored = "live" /\ rlimits' = loaded.limits
          /\ rpc' = "drop" /\ UNCHANGED restored
       \/ /\ rpc' = "failed" /\ restored' = IF restored = "live" THEN "killed" ELSE restored
          /\ UNCHANGED rlimits
    /\ UNCHANGED <<container, keyfile, dump, mac, loaded, rrecord>>

\* The function returns the path; its local Cgroup handle goes out of scope in
\* state Attached, and Drop kills what is in the cgroup and removes it.
DropCgroup ==
    /\ rpc = "drop" /\ rpc' = "save"
    /\ restored' = IF restored = "live" THEN "killed" ELSE restored
    /\ rlimits' = {}
    /\ UNCHANGED <<container, keyfile, dump, mac, loaded, rrecord>>

\* The record of the new container; a failure leaves the process unrecorded.
SaveRestored ==
    /\ rpc = "save"
    /\ \/ rrecord' = "saved" /\ rpc' = "done"
       \/ rpc' = "lost" /\ UNCHANGED rrecord
    /\ UNCHANGED <<container, keyfile, dump, mac, loaded, restored, rlimits>>

\* The restored process ends by itself.
RestoredEnds ==
    /\ restored = "live" /\ restored' = "ended"
    /\ UNCHANGED <<container, keyfile, dump, mac, rpc, loaded, rlimits, rrecord>>

CheckpointNext ==
    \/ WorkloadEnds \/ SupervisorCleansUp \/ KeyGone
    \/ BeginCheckpoint \/ Dump \/ SaveMetadata \/ WriteHmac \/ CheckpointCrash
    \/ LoadMetadata \/ VerifyHmac \/ CriuRestore \/ RestoreCgroup \/ DropCgroup
    \/ SaveRestored \/ RestoredEnds

CheckpointSpec == CheckpointInit /\ [][CheckpointNext]_checkpointVars

(***************************************************************************)
(* Properties.                                                             *)
(***************************************************************************)
\* criu restore only ever runs on the images of one complete checkpoint together
\* with the metadata of that same checkpoint, whichever earlier checkpoint
\* command died, failed, or was overwritten half-way by a later one.
RestoreOnlyComplete ==
    rpc \in {"criu", "cgroup", "drop", "save", "done", "lost"} =>
        images \in 1..MaxCheckpoints /\ loaded.by = images

\* A restored process is attached to a cgroup that has every limit the container
\* had when it was dumped (from_cgroup_dir and to_resource_limits lose none).
LimitsSurvive == rpc = "drop" => given \subseteq rlimits

\* What the writing of a checkpoint keeps: images and metadata come from the
\* checkpoint at work, and whatever was signed was of one checkpoint and complete.
DumpInOrder ==
    /\ kpc \in {"dump", "metadata", "hmac"} => count > 0
    /\ kpc \in {"metadata", "hmac"} => images = count
    /\ kpc = "hmac" => meta.by = count
    /\ mac # NoMac => mac[2] \in 1..MaxCheckpoints /\ mac[3] = mac[2]
    /\ meta.cgroup => given \subseteq meta.limits

\* What a restore relies on: the directory does not change under it.
RestoreAlone ==
    /\ rpc \notin {"idle", "failed"} => kpc \in {"idle", "done", "failed"} /\ loaded = meta
    /\ rpc = "cgroup" => loaded.cgroup

\* A restore takes a complete checkpoint or none, with the limits it was made with
\* (criu.rs, metadata.rs, main.rs); with what makes this inductive.
RestoreSound ==
    CheckpointTypeOK /\ RestoreOnlyComplete /\ LimitsSurvive /\ DumpInOrder /\ RestoreAlone

\* "Register restored container in state manager so state/stop/kill/attach work":
\* when restore has recorded the container, its process was not killed by the
\* command itself.
RestoredContainerRuns == rpc = "done" => restored # "killed"
=============================================================================
