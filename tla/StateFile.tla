------------------------------ MODULE StateFile ------------------------------
(***************************************************************************)
(* The state file of one container under concurrent commands: save_state   *)
(* writes <id>.json.tmp and renames it over <id>.json, and all the writers *)
(* of one container share that one temporary name (state.rs).  The writers *)
(* are the process that holds the container (ContainerHandle::start) and   *)
(* any number of `nucleus start` commands (trigger_start); the holder      *)
(* deletes the record when the container has ended.                        *)
(***************************************************************************)
EXTENDS Naturals, FiniteSets

CONSTANTS
    Starters,     \* the processes that save the Running record
    Holder        \* the one of them that holds the container, and deletes the record

ASSUME HolderStarts == IsFiniteSet(Starters) /\ Holder \in Starters

VARIABLES
    content,      \* the files: what each inode holds
    used,         \* inodes in use
    path, tmp,    \* the inodes of <id>.json and <id>.json.tmp, 0 when absent
    wpc,          \* where each writer is
    fd,           \* the inode each writer has open
    overlapped,   \* (history) two saves were under way at once
    died          \* (history) a writer died or met an I/O error in a save

fileVars == <<content, used, path, tmp, wpc, fd, overlapped, died>>

Inodes == 1..(Cardinality(Starters) + 1)
RecordContents == {"empty", "created", "running"}
Saving == {w \in Starters : wpc[w] \in {"write", "rename"}}
Settled == \A w \in Starters : wpc[w] \in {"saved", "failed", "ended", "dead"}

StateFileTypeOK ==
    /\ content \in [Inodes -> RecordContents] /\ used \in Inodes
    /\ path \in Inodes \cup {0} /\ tmp \in Inodes \cup {0}
    /\ wpc \in [Starters -> {"idle", "open", "write", "rename", "saved", "failed", "ended", "dead"}]
    /\ fd \in [Starters -> Inodes \cup {0}]
    /\ overlapped \in BOOLEAN /\ died \in BOOLEAN

\* create_internal has saved the Created record; every writer is about to start.
StateFileInit ==
    /\ content = [i \in Inodes |-> IF i = 1 THEN "created" ELSE "empty"]
    /\ used = 1 /\ path = 1 /\ tmp = 0
    /\ wpc = [w \in Starters |-> "idle"] /\ fd = [w \in Starters |-> 0]
    /\ overlapped = FALSE /\ died = FALSE

\* load_state and resolve_container read a whole record or none: a file that does
\* not parse is reported, or left out of the listing.
Readable == path # 0 /\ content[path] # "empty"

(***************************************************************************)
(* Faulty variants, for checking that the properties can fail.             *)
(***************************************************************************)
\* Write the state file in place, without a temporary file (ReadableRecord).
OpenInPlace(w) ==
    /\ wpc[w] = "open" /\ wpc' = [wpc EXCEPT ![w] = "write"] /\ path # 0
    /\ overlapped' = (overlapped \/ Saving # {})
    /\ fd' = [fd EXCEPT ![w] = path] /\ content' = [content EXCEPT ![path] = "empty"]
    /\ UNCHANGED <<used, path, tmp, died>>

\* A save that fails removes the state file (RecordSettles).
FailureRemoves(w) ==
    /\ wpc[w] = "rename"
    /\ IF tmp # 0 THEN path' = tmp /\ tmp' = 0 /\ wpc' = [wpc EXCEPT ![w] = "saved"]
       ELSE path' = 0 /\ wpc' = [wpc EXCEPT ![w] = "failed"] /\ UNCHANGED tmp
    /\ UNCHANGED <<content, used, fd, overlapped, died>>

(***************************************************************************)
(* save_state, one system call a step.                                     *)
(***************************************************************************)
\* The holder saves the record it has in memory; a `nucleus start` first reads
\* the state file, and fails when there is none that parses.
ResolveRecord(w) ==
    /\ wpc[w] = "idle"
    /\ wpc' = [wpc EXCEPT ![w] = IF w = Holder \/ Readable THEN "open" ELSE "failed"]
    /\ UNCHANGED <<content, used, path, tmp, fd, overlapped, died>>

\* open with create and truncate: an existing temporary file is the same inode.
OpenTemp(w) ==
    /\ wpc[w] = "open" /\ wpc' = [wpc EXCEPT ![w] = "write"]
    /\ overlapped' = (overlapped \/ Saving # {})
    /\ IF tmp = 0
       THEN /\ used' = used + 1 /\ tmp' = used + 1 /\ fd' = [fd EXCEPT ![w] = used + 1]
            /\ UNCHANGED content
       ELSE /\ content' = [content EXCEPT ![tmp] = "empty"] /\ fd' = [fd EXCEPT ![w] = tmp]
            /\ UNCHANGED <<used, tmp>>
    /\ UNCHANGED <<path, died>>

\* write_all and sync_all.  The records the writers save are equal: the holder's,
\* and its Created record with the status changed.
WriteTemp(w) ==
    /\ wpc[w] = "write" /\ wpc' = [wpc EXCEPT ![w] = "rename"]
    /\ content' = [content EXCEPT ![fd[w]] = "running"]
    /\ UNCHANGED <<used, path, tmp, fd, overlapped, died>>

\* rename moves whatever file has the temporary name, and fails when there is none.
RenameTemp(w) ==
    /\ wpc[w] = "rename"
    /\ IF tmp # 0 THEN path' = tmp /\ tmp' = 0 /\ wpc' = [wpc EXCEPT ![w] = "saved"]
       ELSE wpc' = [wpc EXCEPT ![w] = "failed"] /\ UNCHANGED <<path, tmp>>
    /\ UNCHANGED <<content, used, fd, overlapped, died>>

\* delete_state by the holder once the container has ended; absent is no error.
DeleteRecord ==
    /\ wpc[Holder] = "saved" /\ wpc' = [wpc EXCEPT ![Holder] = "ended"]
    /\ path' = 0
    /\ UNCHANGED <<content, used, tmp, fd, overlapped, died>>

\* A writer is killed in the middle of its save, or one of the calls fails (no
\* space, say) and it returns the error; either leaves the temporary file.
SaveBroken(w) ==
    /\ w \in Saving \/ wpc[w] = "open"
    /\ \E end \in {"dead", "failed"} : wpc' = [wpc EXCEPT ![w] = end]
    /\ died' = TRUE
    /\ UNCHANGED <<content, used, path, tmp, fd, overlapped>>

StateFileNext ==
    \/ \E w \in Starters : \/ ResolveRecord(w) \/ OpenTemp(w) \/ WriteTemp(w)
                           \/ RenameTemp(w) \/ SaveBroken(w)
    \/ DeleteRecord

StateFileSpec == StateFileInit /\ [][StateFileNext]_fileVars

(***************************************************************************)
(* Properties.                                                             *)
(***************************************************************************)
\* The state file of save_state can be read at any time, a writer that died half
\* way included, unless two saves of the one container were under way at once.
ReadableRecord == path # 0 /\ ~overlapped => Readable

\* However the saves overlap on the shared temporary name, one of them takes
\* effect: when all are over and none broke off, the Running record is there, unless
\* the holder has deleted it.
RecordSettles ==
    Settled /\ ~died /\ wpc[Holder] # "ended" => path # 0 /\ content[path] = "running"

(***************************************************************************)
(* The inductive invariant behind them.                                    *)
(***************************************************************************)
\* The writers that have tried to open the temporary file, or never will: no more
\* inodes than these were created.
PastOpen == {w \in Starters : wpc[w] \notin {"idle", "open"}}

\* The first record keeps its inode to itself; the temporary name is never a second
\* name of the state file.
InodesApart ==
    /\ used <= 1 + Cardinality(PastOpen)
    /\ path <= used /\ tmp <= used /\ tmp # 1
    /\ tmp # 0 => tmp # path
    /\ content[1] = "created"
    /\ \A w \in Saving : fd[w] \in 2..used

\* A save that has the temporary name to itself renames what it has written.
SaveAlone ==
    ~overlapped => \A w \in Saving :
        /\ \A v \in Saving : v = w
        /\ fd[w] = tmp
        /\ wpc[w] = "rename" => content[tmp] = "running"

\* A file that has the temporary name, or had it, holds the Running record, or a
\* writer that has it open is about to write it.
WriterPending ==
    ~died => \A i \in {path, tmp} \ {0, 1} :
        content[i] = "running" \/ \E w \in Starters : wpc[w] = "write" /\ fd[w] = i

\* Only the holder deletes the record, and while the first one is still there every
\* save is before its rename and finds the temporary file.
FirstRecord ==
    /\ wpc[Holder] # "ended" => path # 0
    /\ ~died /\ path = 1 => \A w \in Starters : /\ wpc[w] \notin {"saved", "failed"}
                                                /\ w \in Saving => tmp # 0
    /\ \A w \in Starters : wpc[w] = "dead" => died

RecordInv ==
    /\ StateFileTypeOK /\ InodesApart /\ SaveAlone /\ ReadableRecord /\ WriterPending /\ FirstRecord

\* The state file can be read at any time and ends with the Running record
\* (state.rs save_state), with the invariant that makes it so.
RecordSound == RecordInv /\ RecordSettles
=============================================================================
