------------------------------- MODULE Store -------------------------------
(***************************************************************************)
(* The durable key-value store: the write-ahead log (wal.rs), the store    *)
(* that writes it ahead of the in-memory B-tree (store.rs), and the page   *)
(* snapshot that a checkpoint publishes (btree.rs, save and load).         *)
(*                                                                         *)
(* The process is sequential: every operation takes &mut self.  What       *)
(* interleaves with it is failure.  An operation is therefore split at     *)
(* each system call that changes what a crash would leave behind, and a    *)
(* crash, a power loss or an I/O error may come between any two of them.   *)
(*                                                                         *)
(* The disk is modelled by what a power loss could expose.  `log' is the   *)
(* log as the running system reads it, `logs' the set of contents a power  *)
(* loss may leave; an fsync reduces `logs' to {log}.  `dir' and `dirs' do  *)
(* the same for the directory entries of the snapshot and its backup.      *)
(***************************************************************************)
EXTENDS Naturals, Sequences

CONSTANTS
  Keys,        \* keys of the store
  Values,      \* values a key may be set to
  None,        \* no value: an absent key, and the value a delete writes
  Faults,      \* which failures may happen, a subset of FaultKinds
  HasParent,   \* the database path names its parent directory
  MaxLog,      \* bound: a batch starts only while the log stays this short
  MaxBatch,    \* bound: mutations in one batch
  MaxFaults    \* bound: failures in one behaviour

FaultKinds ==
  { "process_crash",  \* the process dies, the operating system survives
    "power_loss",     \* everything that was not fsynced may be lost
    "sync_error",     \* an fsync reports an error
    "file_error",     \* writing, renaming or removing a snapshot file fails
    "append_error",   \* a log append fails after writing part of a record
    "zero_tail",      \* a power loss leaves a tail of zero bytes
    "gap_crash" }     \* a crash while the log's snapshot has no file name

\* The failures the code does not withstand: once one of them has happened an
\* acknowledged write may be lost, or the store may refuse to open.
Unhandled == {"append_error", "zero_tail", "gap_crash"}

ASSUME StoreAssumption ==
  /\ None \notin Values
  /\ Faults \subseteq FaultKinds
  /\ HasParent \in BOOLEAN
  /\ MaxLog \in Nat
  /\ MaxBatch \in Nat
  /\ MaxFaults \in Nat

VARIABLES
  log,         \* the log file: a sequence of records and damaged tails
  logs,        \* the log contents a power loss may leave
  dir,         \* the snapshot file and its backup
  dirs,        \* the directory states a power loss may leave
  tmp,         \* the temporary snapshot file
  mem,         \* the B-tree in memory, as a map
  stage,       \* the next step of the operation in progress
  todo,        \* mutations of the current batch not yet appended
  done,        \* mutations of the current batch already appended
  may,         \* history: the values a reader may legally find for each key
  discarded,   \* history: a checkpoint has truncated the log
  faults,      \* history: the number of failures so far
  seen         \* history: the unhandled kinds of failure among them

vars == <<log, logs, dir, dirs, tmp, mem, stage, todo, done, may, discarded,
          faults, seen>>

-----------------------------------------------------------------------------
\* Records and files.

Cell == Values \cup {None}

\* Command::Set, and Command::Delete as the mutation that writes None.
Mutation == [tag : {"mutation"}, key : Keys, value : Cell]

\* Command::Checkpoint, which replay ignores.
Checkpoint == [tag |-> "checkpoint"]

\* Bytes replay rejects: a partial header, a length beyond the end of the file
\* or a checksum mismatch.
Torn == [tag |-> "torn"]

\* Zero bytes.  Eight of them are a header for an empty payload with checksum
\* zero, which is the checksum of the empty payload: replay accepts them as a
\* record, and decoding that record fails.
Zeros == [tag |-> "zeros"]

Record == Mutation \cup {Checkpoint, Torn, Zeros}

Batches == UNION {[1..n -> Mutation] : n \in 0..MaxBatch}

Absent == [tag |-> "absent"]
Partial == [tag |-> "partial"]
Snapshot(map) == [tag |-> "snapshot", data |-> map]

Empty == [k \in Keys |-> None]

-----------------------------------------------------------------------------
\* Recovery.

Touches(record, k) == record.tag = "mutation" /\ record.key = k

Touched(l, k) == \E i \in DOMAIN l : Touches(l[i], k)

\* Mutant of LastTouch: the first record wins.
LastTouchIsFirst(l, k) ==
  CHOOSE i \in DOMAIN l :
    /\ Touches(l[i], k)
    /\ \A j \in DOMAIN l : Touches(l[j], k) => j >= i

\* The last record of l that touches k.
LastTouch(l, k) ==
  CHOOSE i \in DOMAIN l :
    /\ Touches(l[i], k)
    /\ \A j \in DOMAIN l : Touches(l[j], k) => j <= i

\* Applying the records of l in order to the map m (the apply_memory loop):
\* the last mutation of a key wins, a checkpoint record changes nothing.
ApplyAll(m, l) ==
  [k \in Keys |-> IF Touched(l, k) THEN l[LastTouch(l, k)].value ELSE m[k]]

\* Wal::replay keeps the records before the first damaged one.
ValidLen(l) ==
  CHOOSE n \in 0..Len(l) :
    /\ \A i \in 1..n : l[i].tag # "torn"
    /\ n < Len(l) => l[n + 1].tag = "torn"

Replay(l) == SubSeq(l, 1, ValidLen(l))

\* Mutant of Load: the backup is not tried.
LoadIgnoresBackup(d) ==
  IF d.path.tag = "absent" /\ d.bak.tag = "absent" THEN Snapshot(Empty)
  ELSE d.path

\* BTreeIndex::load: the snapshot, the backup when the snapshot is missing or
\* unreadable, an empty tree when there is neither.  A file that is not a
\* complete snapshot makes load_exact fail.
Load(d) ==
  IF d.path.tag = "absent" /\ d.bak.tag = "absent" THEN Snapshot(Empty)
  ELSE IF \/ d.path.tag = "snapshot"
          \/ d.bak.tag = "absent" THEN d.path
  ELSE d.bak

\* Store::open succeeds: a snapshot loads and every replayed record decodes.
CanOpen(d, l) ==
  /\ Load(d).tag = "snapshot"
  /\ \A i \in DOMAIN Replay(l) : Replay(l)[i].tag # "zeros"

Recovered(d, l) == ApplyAll(Load(d).data, Replay(l))

-----------------------------------------------------------------------------
\* System calls.

\* Write one record at the end of the log.  Until the next fsync a power loss
\* may keep it, drop it or tear it.
WalAppend(record) ==
  /\ log' = Append(log, record)
  /\ logs' = logs \cup {log', Append(log, Torn)}
                  \cup IF "zero_tail" \in Faults THEN {Append(log, Zeros)}
                                                 ELSE {}

\* The write stops part-way and reports an error.
WalAppendFails ==
  /\ log' = Append(log, Torn)
  /\ logs' = logs \cup {log'}

WalSync ==
  /\ logs' = {log}
  /\ UNCHANGED log

\* A change of directory entries.
SetDir(d) ==
  /\ dir' = d
  /\ dirs' = dirs \cup {d}

\* One failure; kinds are the ways in which it fails.
Fault(kinds) ==
  /\ kinds \subseteq Faults
  /\ faults < MaxFaults
  /\ faults' = faults + 1
  /\ seen' = seen \cup (kinds \cap Unhandled)

\* The operation returns Err and the store stays open.
ReturnErr ==
  /\ stage' = "ready"
  /\ todo' = <<>>
  /\ done' = <<>>

-----------------------------------------------------------------------------
Init ==
  /\ log = <<>>
  /\ logs = {<<>>}
  /\ dir = [path |-> Absent, bak |-> Absent]
  /\ dirs = {dir}
  /\ tmp = Absent
  /\ mem = Empty
  /\ stage = "down"
  /\ todo = <<>>
  /\ done = <<>>
  /\ may = [k \in Keys |-> {None}]
  /\ discarded = FALSE
  /\ faults = 0
  /\ seen = {}

-----------------------------------------------------------------------------
\* Mutant of Open: the damaged tail is cut off after the sync.
OpenSyncsBeforeCut ==
  /\ stage = "down"
  /\ CanOpen(dir, log)
  /\ mem' = Recovered(dir, log)
  /\ log' = Replay(log)
  /\ logs' = {log}
  /\ stage' = "ready"
  /\ UNCHANGED <<dir, dirs, tmp, todo, done, may, discarded, faults, seen>>

\* Store::open: load the snapshot, replay the log over it, cut off a damaged
\* tail and sync the cut.
Open ==
  /\ stage = "down"
  /\ CanOpen(dir, log)
  /\ mem' = Recovered(dir, log)
  /\ log' = Replay(log)
  /\ logs' = IF log' = log THEN logs ELSE {log'}
  /\ stage' = "ready"
  /\ UNCHANGED <<dir, dirs, tmp, todo, done, may, discarded, faults,
                 seen>>

\* The cut is made but not synced: the process dies in between, or the fsync
\* fails and open returns the error.
OpenInterrupted ==
  /\ stage = "down"
  /\ CanOpen(dir, log)
  /\ Replay(log) # log
  /\ \E kind \in {"process_crash", "sync_error"} : Fault({kind})
  /\ log' = Replay(log)
  /\ logs' = logs \cup {log'}
  /\ UNCHANGED <<dir, dirs, tmp, mem, stage, todo, done, may, discarded>>

-----------------------------------------------------------------------------
\* Writing.  Store::set and Store::delete are batches of one mutation.

ApplyBatch(batch) ==
  /\ stage = "ready"
  /\ Len(log) + Len(batch) <= MaxLog
  /\ todo' = batch
  /\ done' = <<>>
  /\ stage' = "append"
  /\ UNCHANGED <<log, logs, dir, dirs, tmp, mem, may, discarded, faults,
                 seen>>

AppendMutation ==
  /\ stage = "append"
  /\ todo # <<>>
  /\ WalAppend(Head(todo))
  /\ todo' = Tail(todo)
  /\ done' = Append(done, Head(todo))
  /\ may' = [may EXCEPT ![Head(todo).key] = @ \cup {Head(todo).value}]
  /\ UNCHANGED <<dir, dirs, tmp, mem, stage, discarded, faults,
                 seen>>

AppendMutationFails ==
  /\ stage = "append"
  /\ todo # <<>>
  /\ Fault({"append_error"})
  /\ WalAppendFails
  /\ ReturnErr
  /\ UNCHANGED <<dir, dirs, tmp, mem, may, discarded>>

\* Mutant of SyncBatch: the batch is acknowledged without the fsync.
SyncBatchSkipsSync ==
  /\ stage = "append"
  /\ todo = <<>>
  /\ mem' = ApplyAll(mem, done)
  /\ may' = [k \in Keys |-> IF Touched(done, k) THEN {mem'[k]} ELSE may[k]]
  /\ stage' = "ready"
  /\ todo' = <<>>
  /\ done' = <<>>
  /\ UNCHANGED <<log, logs, dir, dirs, tmp, discarded, faults, seen>>

\* One fsync for the batch, then the tree is changed and the caller is told.
\* From here on each key the batch wrote has that value and no other.
SyncBatch ==
  /\ stage = "append"
  /\ todo = <<>>
  /\ WalSync
  /\ mem' = ApplyAll(mem, done)
  /\ may' = [k \in Keys |-> IF Touched(done, k) THEN {mem'[k]} ELSE may[k]]
  /\ stage' = "ready"
  /\ todo' = <<>>
  /\ done' = <<>>
  /\ UNCHANGED <<dir, dirs, tmp, discarded, faults,
                 seen>>

\* The fsync reports an error: the records stay in the file, the tree is not
\* changed and the caller gets the error.
SyncBatchFails ==
  /\ stage = "append"
  /\ todo = <<>>
  /\ Fault({"sync_error"})
  /\ ReturnErr
  /\ UNCHANGED <<log, logs, dir, dirs, tmp, mem, may, discarded>>

-----------------------------------------------------------------------------
\* Checkpointing: BTreeIndex::save, then the checkpoint record, then reset.

\* Remove a stale temporary file and create a new one.
CreateTemp ==
  /\ stage = "ready"
  /\ tmp' = Partial
  /\ stage' = "write_pages"
  /\ UNCHANGED <<log, logs, dir, dirs, mem, todo, done, may, discarded, faults,
                 seen>>

\* Mutant of WritePages: the pager is dropped before its pages are complete.
WritePagesIncomplete ==
  /\ stage = "write_pages"
  /\ tmp' = Partial
  /\ stage' = "drop_backup"
  /\ UNCHANGED <<log, logs, dir, dirs, mem, todo, done, may, discarded, faults,
                 seen>>

\* Write every page and flush the pager, which fsyncs the file.
WritePages ==
  /\ stage = "write_pages"
  /\ tmp' = Snapshot(mem)
  /\ stage' = "drop_backup"
  /\ UNCHANGED <<log, logs, dir, dirs, mem, todo, done, may, discarded, faults,
                 seen>>

WritePagesFails ==
  /\ stage = "write_pages"
  /\ Fault({"file_error"})
  /\ ReturnErr
  /\ UNCHANGED <<log, logs, dir, dirs, tmp, mem, may, discarded>>

\* publish_snapshot removes the backup before anything else.
DropBackup ==
  /\ stage = "drop_backup"
  /\ SetDir([dir EXCEPT !.bak = Absent])
  /\ stage' = "retire"
  /\ UNCHANGED <<log, logs, tmp, mem, todo, done, may, discarded, faults,
                 seen>>

\* The current snapshot, if there is one, becomes the backup.
RetireSnapshot ==
  /\ stage = "retire"
  /\ IF dir.path.tag = "absent"
       THEN UNCHANGED <<dir, dirs>>
       ELSE SetDir([path |-> Absent, bak |-> dir.path])
  /\ stage' = "install"
  /\ UNCHANGED <<log, logs, tmp, mem, todo, done, may, discarded, faults,
                 seen>>

RetireSnapshotFails ==
  /\ stage = "retire"
  /\ dir.path.tag # "absent"
  /\ Fault({"file_error"})
  /\ ReturnErr
  /\ UNCHANGED <<log, logs, dir, dirs, tmp, mem, may, discarded>>

InstallSnapshot ==
  /\ stage = "install"
  /\ SetDir([dir EXCEPT !.path = tmp])
  /\ tmp' = Absent
  /\ stage' = "drop_retired"
  /\ UNCHANGED <<log, logs, mem, todo, done, may, discarded, faults,
                 seen>>

\* The rename fails: the backup, if any, is renamed back.  The result of that
\* rename is ignored, so it may fail as well.
InstallSnapshotFails ==
  /\ stage = "install"
  /\ Fault({"file_error"})
  /\ \/ /\ dir.bak.tag # "absent"
        /\ SetDir([path |-> dir.bak, bak |-> Absent])
     \/ UNCHANGED <<dir, dirs>>
  /\ ReturnErr
  /\ UNCHANGED <<log, logs, tmp, mem, may, discarded>>

\* The replaced snapshot is removed.
DropRetired ==
  /\ stage = "drop_retired"
  /\ SetDir([dir EXCEPT !.bak = Absent])
  /\ stage' = "sync_parent"
  /\ UNCHANGED <<log, logs, tmp, mem, todo, done, may, discarded, faults,
                 seen>>

\* Errors of both removals are ignored: the old backup simply stays.
RemoveBackupFails ==
  /\ stage \in {"drop_backup", "drop_retired"}
  /\ dir.bak.tag # "absent"
  /\ Fault({"file_error"})
  /\ stage' = IF stage = "drop_backup" THEN "retire" ELSE "sync_parent"
  /\ UNCHANGED <<log, logs, dir, dirs, tmp, mem, todo, done, may, discarded>>

\* Mutant of SyncParent: the directory is not synced.
SyncParentSkipped ==
  /\ stage = "sync_parent"
  /\ stage' = "append_checkpoint"
  /\ UNCHANGED <<log, logs, dir, dirs, tmp, mem, todo, done, may, discarded,
                 faults, seen>>

\* sync_parent fsyncs the directory.  A path without a parent component, such
\* as a bare file name, is skipped.
SyncParent ==
  /\ stage = "sync_parent"
  /\ dirs' = IF HasParent THEN {dir} ELSE dirs
  /\ stage' = "append_checkpoint"
  /\ UNCHANGED <<log, logs, dir, tmp, mem, todo, done, may, discarded, faults,
                 seen>>

SyncParentFails ==
  /\ stage = "sync_parent"
  /\ HasParent
  /\ Fault({"sync_error"})
  /\ ReturnErr
  /\ UNCHANGED <<log, logs, dir, dirs, tmp, mem, may, discarded>>

AppendCheckpoint ==
  /\ stage = "append_checkpoint"
  /\ WalAppend(Checkpoint)
  /\ stage' = "sync_checkpoint"
  /\ UNCHANGED <<dir, dirs, tmp, mem, todo, done, may, discarded, faults,
                 seen>>

AppendCheckpointFails ==
  /\ stage = "append_checkpoint"
  /\ Fault({"append_error"})
  /\ WalAppendFails
  /\ ReturnErr
  /\ UNCHANGED <<dir, dirs, tmp, mem, may, discarded>>

SyncCheckpoint ==
  /\ stage = "sync_checkpoint"
  /\ WalSync
  /\ stage' = "reset"
  /\ UNCHANGED <<dir, dirs, tmp, mem, todo, done, may, discarded, faults,
                 seen>>

\* Wal::reset truncates the file through a second handle ...
ResetLog ==
  /\ stage = "reset"
  /\ log' = <<>>
  /\ logs' = logs \cup {<<>>}
  /\ discarded' = TRUE
  /\ stage' = "sync_reset"
  /\ UNCHANGED <<dir, dirs, tmp, mem, todo, done, may, faults, seen>>

\* ... and syncs the truncation.
SyncReset ==
  /\ stage = "sync_reset"
  /\ WalSync
  /\ stage' = "ready"
  /\ UNCHANGED <<dir, dirs, tmp, mem, todo, done, may, discarded, faults,
                 seen>>

CheckpointSyncFails ==
  /\ stage \in {"sync_checkpoint", "sync_reset"}
  /\ Fault({"sync_error"})
  /\ ReturnErr
  /\ UNCHANGED <<log, logs, dir, dirs, tmp, mem, may, discarded>>

\* The second handle cannot be opened: the log stays as it is.
ResetLogFails ==
  /\ stage = "reset"
  /\ Fault({"file_error"})
  /\ ReturnErr
  /\ UNCHANGED <<log, logs, dir, dirs, tmp, mem, may, discarded>>

-----------------------------------------------------------------------------
\* Failures of the process and of the machine.

\* Nothing names the snapshot that a truncated log depends on.
Gap(d) == discarded /\ d.path.tag = "absent" /\ d.bak.tag = "absent"

\* The ways in which a crash that leaves the directory d and the log l fails.
CrashKinds(kind, d, l) ==
  {kind} \cup (IF Gap(d) THEN {"gap_crash"} ELSE {})
         \cup (IF \E i \in DOMAIN l : l[i].tag = "zeros" THEN {"zero_tail"}
                                                         ELSE {})

Stop ==
  /\ stage' = "down"
  /\ mem' = Empty
  /\ todo' = <<>>
  /\ done' = <<>>

\* The process dies; what it wrote stays with the operating system.
ProcessCrash ==
  /\ stage # "down"
  /\ Fault(CrashKinds("process_crash", dir, <<>>))
  /\ Stop
  /\ UNCHANGED <<log, logs, dir, dirs, tmp, may, discarded>>

\* The process dies inside the write of a record.
CrashInAppend ==
  /\ \/ stage = "append" /\ todo # <<>>
     \/ stage = "append_checkpoint"
  /\ Fault(CrashKinds("process_crash", dir, <<>>))
  /\ log' = Append(log, Torn)
  /\ logs' = logs \cup {log'}
  /\ Stop
  /\ UNCHANGED <<dir, dirs, tmp, may, discarded>>

\* The machine loses power: each file and the directory end in one of the
\* states the disk may hold, and from then on that state is durable.
PowerLoss ==
  /\ \E l \in logs, d \in dirs :
       /\ Fault(CrashKinds("power_loss", d, l))
       /\ log' = l
       /\ logs' = {l}
       /\ dir' = d
       /\ dirs' = {d}
  /\ tmp' \in {tmp, Partial, Absent}
  /\ Stop
  /\ UNCHANGED <<may, discarded>>

-----------------------------------------------------------------------------
\* The steps the process takes by itself once an operation has begun.
Proceed ==
  \/ AppendMutation
  \/ SyncBatch
  \/ WritePages
  \/ DropBackup
  \/ RetireSnapshot
  \/ InstallSnapshot
  \/ DropRetired
  \/ SyncParent
  \/ AppendCheckpoint
  \/ SyncCheckpoint
  \/ ResetLog
  \/ SyncReset

Fail ==
  \/ OpenInterrupted
  \/ AppendMutationFails
  \/ SyncBatchFails
  \/ WritePagesFails
  \/ RetireSnapshotFails
  \/ InstallSnapshotFails
  \/ RemoveBackupFails
  \/ SyncParentFails
  \/ AppendCheckpointFails
  \/ CheckpointSyncFails
  \/ ResetLogFails
  \/ ProcessCrash
  \/ CrashInAppend
  \/ PowerLoss

Next ==
  \/ Open
  \/ \E batch \in Batches : ApplyBatch(batch)
  \/ CreateTemp
  \/ Proceed
  \/ Fail

Spec == Init /\ [][Next]_vars

\* A call that has begun runs on, and a stopped store is opened again.
FairSpec == Spec /\ WF_vars(Open) /\ WF_vars(Proceed)

-----------------------------------------------------------------------------
Files == {Absent, Partial} \cup {Snapshot(m) : m \in [Keys -> Cell]}

Dirs == [path : Files, bak : Files]

Stages == {"down", "ready", "append", "write_pages", "drop_backup", "retire",
           "install", "drop_retired", "sync_parent", "append_checkpoint",
           "sync_checkpoint", "reset", "sync_reset"}

\* Types; the running log and directory are among the contents a power loss
\* may leave.
TypeOK ==
  /\ log \in Seq(Record)
  /\ logs \subseteq Seq(Record) /\ log \in logs
  /\ dirs \subseteq Dirs /\ dir \in dirs
  /\ tmp \in Files
  /\ mem \in [Keys -> Cell]
  /\ stage \in Stages
  /\ todo \in Seq(Mutation) /\ done \in Seq(Mutation)
  /\ may \in [Keys -> SUBSET Cell]
  /\ discarded \in BOOLEAN
  /\ faults \in 0..MaxFaults
  /\ seen \subseteq Unhandled

\* What an open store shows for a key is the last acknowledged write of that
\* key, or a later one whose call had not returned or had returned an error:
\* "an acknowledged write survives a crash" (docs/05-durability.md).
AckedWritesSurvive == stage # "down" => \A k \in Keys : mem[k] \in may[k]

\* The same, of behaviours with none of the unhandled failures: process
\* crashes, power losses, failed fsyncs and failed file operations at every
\* step lose no acknowledged write.
HandledFaultsLoseNothing == seen = {} => AckedWritesSurvive

\* "No crash leaves the database in a state it cannot recover from"
\* (docs/05-durability.md).
Recoverable == stage = "down" => CanOpen(dir, log)

\* The same, of behaviours with none of the unhandled failures.
HandledFaultsRecover == seen = {} => Recoverable

\* Checkpoint order (docs/02-architecture.md, invariant 5): the log is emptied
\* only when every directory state a power loss may leave names, as the
\* snapshot that recovery loads, the tree the store holds in memory.
PublishedBeforeTruncate ==
  [][(log # <<>> /\ log' = <<>> /\ stage' # "down" /\ stage # "down")
       => \A d \in dirs : Load(d) = Snapshot(mem)]_vars

\* An operation finishes and a stopped store opens again, unless one of the
\* unhandled failures has happened.
ReadyAgain == []<>(stage = "ready" \/ seen # {})
=============================================================================
