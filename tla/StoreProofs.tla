---------------------------- MODULE StoreProofs ----------------------------
(***************************************************************************)
(* Proofs about the durable store, for every set of keys and values, every *)
(* set of failures and all bounds.                                         *)
(***************************************************************************)
EXTENDS Store, WellFoundedInduction, TLAPS

-----------------------------------------------------------------------------
\* The inductive invariant.

NoTorn(l) == \A i \in DOMAIN l : l[i].tag # "torn"

NoZeros(l) == \A i \in DOMAIN l : l[i].tag # "zeros"

EmptyDir == [path |-> Absent, bak |-> Absent]

\* The stages between the flush of the new snapshot and its publication.
Publishing == {"drop_backup", "retire", "install"}

\* The stages after the new snapshot has its name.
Published == {"drop_retired", "sync_parent", "append_checkpoint",
              "sync_checkpoint", "reset", "sync_reset"}

\* The stages after the directory has been synced.
Synced == {"append_checkpoint", "sync_checkpoint", "reset", "sync_reset"}

\* No name ever refers to a partial snapshot, and the checkpoint in progress
\* writes the tree that is still in memory.
StageInv ==
  /\ \A d \in dirs : d.path.tag # "partial" /\ d.bak.tag # "partial"
  /\ stage \in Publishing => tmp = Snapshot(mem)
  /\ stage = "install" => dir.path = Absent
  /\ stage \in Published => dir.path = Snapshot(mem)
  /\ stage \in Synced => dirs = {dir}

\* An open store has a log without damage, a stopped one at most a torn tail.
LogInv ==
  /\ NoZeros(log)
  /\ stage # "down" => NoTorn(log)

\* What replay finds in any log the disk may hold is legal.
ReplaySafe ==
  \A l \in logs, k \in Keys :
    Touched(Replay(l), k) => Replay(l)[LastTouch(Replay(l), k)].value \in may[k]

\* What any snapshot the disk may hold says of a key no log mentions is legal.
\* EmptyDir stands for recovery from the log alone.
SnapshotSafe ==
  \A d \in dirs \cup {EmptyDir} :
    ~Gap(d) => /\ Load(d).tag = "snapshot"
               /\ \A l \in logs, k \in Keys :
                    Touched(Replay(l), k) \/ Load(d).data[k] \in may[k]

\* The records of the batch in progress are the last ones of the log.
BatchInv ==
  /\ stage # "append" => done = <<>>
  /\ \A k \in Keys : Touched(done, k) =>
       /\ Touched(log, k)
       /\ log[LastTouch(log, k)].value = done[LastTouch(done, k)].value

\* The inductive part of durability.
DurableInv ==
  /\ LogInv
  /\ ReplaySafe
  /\ SnapshotSafe
  /\ BatchInv
  /\ AckedWritesSurvive
  /\ stage = "down" => ~Gap(dir)

IInv ==
  /\ TypeOK
  /\ StageInv
  /\ seen = {} => DurableInv

-----------------------------------------------------------------------------
\* Lemmas about records, files and replay.

\* The records differ by their tags.
LEMMA RecordTags ==
  /\ \A r \in Record : r.tag \in {"mutation", "checkpoint", "torn", "zeros"}
  /\ \A r \in Record : r.tag = "mutation" => r \in Mutation
  /\ Checkpoint \in Record /\ Torn \in Record /\ Zeros \in Record
  /\ Mutation \subseteq Record
BY DEF Record, Mutation, Checkpoint, Torn, Zeros

\* The files differ by their tags, and a snapshot holds a map.
LEMMA FileTags ==
  /\ \A f \in Files : f.tag \in {"absent", "partial", "snapshot"}
  /\ \A f \in Files : f.tag = "snapshot" => f.data \in [Keys -> Cell]
  /\ \A f \in Files : f.tag = "absent" => f = Absent
  /\ Absent \in Files /\ Partial \in Files
  /\ Absent.tag = "absent" /\ Partial.tag = "partial"
  /\ \A m \in [Keys -> Cell] : /\ Snapshot(m) \in Files
                               /\ Snapshot(m).tag = "snapshot"
                               /\ Snapshot(m).data = m
<1>1. \A f \in Files : \/ f = Absent
                        \/ f = Partial
                        \/ \E m \in [Keys -> Cell] : f = Snapshot(m)
  BY DEF Files
<1>2. \A m \in [Keys -> Cell] : /\ Snapshot(m) \in Files
                                /\ Snapshot(m).tag = "snapshot"
                                /\ Snapshot(m).data = m
  BY DEF Files, Snapshot
<1>3. /\ Absent \in Files /\ Partial \in Files
      /\ Absent.tag = "absent" /\ Partial.tag = "partial"
  BY DEF Files, Absent, Partial
<1>. QED  BY <1>1, <1>2, <1>3

\* The empty tree of BTreeIndex::new is a tree.
LEMMA EmptyType == Empty \in [Keys -> Cell]
BY DEF Empty, Cell

\* A non-empty set of naturals has a least element.
LEMMA NatMin ==
  ASSUME NEW T, T \subseteq Nat, T # {}
  PROVE  \E x \in T : \A y \in T : x <= y
<1> DEFINE R == OpToRel(<, Nat)
<1>1. PICK x \in T : \A y \in T : ~(<<y, x>> \in R)
  BY NatLessThanWellFounded, WFMin
<1>2. \A y \in T : ~(y < x)
  BY <1>1 DEF OpToRel
<1> HIDE DEF R
<1>. QED  BY <1>2

\* The valid prefix exists: it ends before the first damaged record.
LEMMA ValidLenIs ==
  ASSUME NEW l \in Seq(Record)
  PROVE  /\ ValidLen(l) \in 0..Len(l)
         /\ \A i \in 1..ValidLen(l) : l[i].tag # "torn"
         /\ ValidLen(l) < Len(l) => l[ValidLen(l) + 1].tag = "torn"
<1> DEFINE T == {n \in Nat : n = Len(l) \/ (n < Len(l) /\ l[n + 1].tag = "torn")}
<1>1. T \subseteq Nat /\ T # {}
  <2>1. Len(l) \in T
    OBVIOUS
  <2>. QED  BY <2>1
<1>2. PICK n \in T : \A m \in T : n <= m
  <2>. HIDE DEF T
  <2>. QED  BY <1>1, NatMin
<1>3. n \in 0..Len(l) /\ (n < Len(l) => l[n + 1].tag = "torn")
  BY <1>2
<1>4. ASSUME NEW i \in 1..n, l[i].tag = "torn"
      PROVE  FALSE
  <2>1. i - 1 \in Nat /\ i - 1 < Len(l) /\ (i - 1) + 1 = i
    BY <1>3
  <2>2. i - 1 \in T
    BY <1>4, <2>1
  <2>3. n <= i - 1
    BY <1>2, <2>2
  <2>. QED  BY <1>3, <2>3
<1>5. \E m \in 0..Len(l) : /\ \A i \in 1..m : l[i].tag # "torn"
                           /\ m < Len(l) => l[m + 1].tag = "torn"
  BY <1>3, <1>4
<1>. QED  BY <1>5 DEF ValidLen

\* Replay keeps a log without torn records whole (Wal::replay reaches the end
\* of the file).
LEMMA ReplayWhole ==
  ASSUME NEW l \in Seq(Record), NoTorn(l)
  PROVE  Replay(l) = l
<1>1. ValidLen(l) = Len(l)
  BY ValidLenIs DEF NoTorn
<1>. QED  BY <1>1 DEF Replay

\* What replay keeps is a log without torn records, so that replaying it again
\* changes nothing.
LEMMA ReplayType ==
  ASSUME NEW l \in Seq(Record)
  PROVE  /\ Replay(l) \in Seq(Record)
         /\ NoTorn(Replay(l))
         /\ Replay(Replay(l)) = Replay(l)
         /\ NoZeros(l) => NoZeros(Replay(l))
<1> DEFINE n == ValidLen(l)
<1>1. n \in 0..Len(l) /\ \A i \in 1..n : l[i].tag # "torn"
  BY ValidLenIs
<1> HIDE DEF n
<1>2. /\ SubSeq(l, 1, n) \in Seq(Record)
      /\ Len(SubSeq(l, 1, n)) = n
      /\ \A i \in 1..n : SubSeq(l, 1, n)[i] = l[i]
  BY <1>1
<1>3. Replay(l) = SubSeq(l, 1, n)
  BY DEF Replay, n
<1>4. NoTorn(Replay(l)) /\ (NoZeros(l) => NoZeros(Replay(l)))
  BY <1>1, <1>2, <1>3 DEF NoTorn, NoZeros
<1>. QED  BY <1>2, <1>3, <1>4, ReplayWhole

\* An empty log.
LEMMA EmptyLog ==
  /\ <<>> \in Seq(Record) /\ NoTorn(<<>>) /\ NoZeros(<<>>)
  /\ Replay(<<>>) = <<>>
  /\ \A k : ~Touched(<<>>, k)
<1>1. <<>> \in Seq(Record) /\ NoTorn(<<>>) /\ NoZeros(<<>>)
  BY DEF NoTorn, NoZeros
<1>2. Replay(<<>>) = <<>>
  BY <1>1, ReplayWhole
<1>3. \A k : ~Touched(<<>>, k)
  BY DEF Touched
<1>. QED  BY <1>1, <1>2, <1>3

\* A torn record at the end of a sound log is cut off again.
LEMMA ReplayAppendTorn ==
  ASSUME NEW l \in Seq(Record), NoTorn(l)
  PROVE  Replay(Append(l, Torn)) = l
<1> DEFINE t == Append(l, Torn)
<1>1. /\ t \in Seq(Record) /\ Len(t) = Len(l) + 1 /\ t[Len(l) + 1].tag = "torn"
      /\ \A i \in 1..Len(l) : t[i] = l[i]
  BY RecordTags DEF Torn
<1>2. SubSeq(t, 1, Len(l)) = l
  BY <1>1
<1> HIDE DEF t
<1>3. ValidLen(t) = Len(l)
  <2>1. ~(ValidLen(t) = Len(l) + 1)
    BY <1>1, ValidLenIs
  <2>2. ~(ValidLen(t) < Len(l))
    BY <1>1, ValidLenIs DEF NoTorn
  <2>3. ValidLen(t) \in 0..(Len(l) + 1)
    BY <1>1, ValidLenIs
  <2>. QED  BY <2>1, <2>2, <2>3
<1>. QED  BY <1>2, <1>3 DEF Replay, t

\* The last touch of a key exists and touches it.
LEMMA LastTouchIs ==
  ASSUME NEW l \in Seq(Record), NEW k \in Keys, Touched(l, k)
  PROVE  LastTouch(l, k) \in DOMAIN l /\ Touches(l[LastTouch(l, k)], k)
<1> DEFINE T == {n \in Nat : Len(l) - n \in DOMAIN l /\ Touches(l[Len(l) - n], k)}
<1>1. T # {}
  <2>1. PICK i \in DOMAIN l : Touches(l[i], k)
    BY DEF Touched
  <2>2. i \in 1..Len(l) /\ Len(l) \in Nat
    BY <2>1
  <2>3. Len(l) - i \in Nat /\ Len(l) - (Len(l) - i) = i
    BY <2>2
  <2>. QED  BY <2>1, <2>3
<1>2. PICK n \in T : \A m \in T : n <= m
  <2>. HIDE DEF T
  <2>1. T \subseteq Nat
    BY DEF T
  <2>. QED  BY <1>1, <2>1, NatMin
<1>3. /\ Len(l) - n \in DOMAIN l
      /\ Touches(l[Len(l) - n], k)
      /\ \A j \in DOMAIN l : Touches(l[j], k) => j <= Len(l) - n
  <2>1. SUFFICES ASSUME NEW j \in DOMAIN l, Touches(l[j], k)
                 PROVE  j <= Len(l) - n
    BY <1>2
  <2>2. j \in 1..Len(l) /\ Len(l) \in Nat /\ n \in Nat
    BY <1>2
  <2>3. Len(l) - j \in Nat /\ Len(l) - (Len(l) - j) = j
    BY <2>2
  <2>4. Len(l) - j \in T
    BY <2>1, <2>3
  <2>5. n <= Len(l) - j
    BY <1>2, <2>4
  <2>. QED  BY <2>2, <2>5
<1>. QED  BY <1>3 DEF LastTouch

\* The last touch of a key by a log extended by one record.
LEMMA TouchAppend ==
  ASSUME NEW l \in Seq(Record), NEW r \in Record, NEW k \in Keys
  PROVE  LET a == Append(l, r)
         IN  /\ Touches(r, k) => Touched(a, k) /\ a[LastTouch(a, k)] = r
             /\ ~Touches(r, k) => /\ Touched(a, k) <=> Touched(l, k)
                                  /\ Touched(l, k) =>
                                       a[LastTouch(a, k)] = l[LastTouch(l, k)]
<1> DEFINE a == Append(l, r)
<1>0. /\ a \in Seq(Record) /\ DOMAIN a = 1..(Len(l) + 1) /\ DOMAIN l = 1..Len(l)
      /\ a[Len(l) + 1] = r
      /\ \A i \in 1..Len(l) : a[i] = l[i]
  OBVIOUS
<1> HIDE DEF a
<1>1. ASSUME Touches(r, k)
      PROVE  Touched(a, k) /\ a[LastTouch(a, k)] = r
  <2>1. Touched(a, k)
    BY <1>0, <1>1 DEF Touched
  <2>2. LastTouch(a, k) = Len(l) + 1
    BY <1>0, <1>1 DEF LastTouch
  <2>. QED  BY <1>0, <2>1, <2>2
<1>2. ASSUME ~Touches(r, k)
      PROVE  /\ Touched(a, k) <=> Touched(l, k)
             /\ Touched(l, k) => a[LastTouch(a, k)] = l[LastTouch(l, k)]
  <2>1. Touched(a, k) <=> Touched(l, k)
    BY <1>0, <1>2 DEF Touched
  <2>2. \A i : (/\ i \in DOMAIN a
                /\ Touches(a[i], k)
                /\ \A j \in DOMAIN a : Touches(a[j], k) => j <= i)
               <=> (/\ i \in DOMAIN l
                    /\ Touches(l[i], k)
                    /\ \A j \in DOMAIN l : Touches(l[j], k) => j <= i)
    BY <1>0, <1>2
  <2>3. LastTouch(a, k) = LastTouch(l, k)
    BY <2>2 DEF LastTouch
  <2>4. Touched(l, k) => LastTouch(l, k) \in 1..Len(l)
    BY LastTouchIs
  <2>. QED  BY <1>0, <2>1, <2>3, <2>4
<1>. QED  BY <1>1, <1>2 DEF a

\* Applying any records to a map gives a map.
LEMMA ApplyAllType ==
  ASSUME NEW m \in [Keys -> Cell], NEW l \in Seq(Record)
  PROVE  ApplyAll(m, l) \in [Keys -> Cell]
<1>1. ASSUME NEW k \in Keys, Touched(l, k)
      PROVE  l[LastTouch(l, k)].value \in Cell
  <2>1. l[LastTouch(l, k)] \in Record /\ l[LastTouch(l, k)].tag = "mutation"
    BY <1>1, LastTouchIs DEF Touches
  <2>. QED  BY <2>1, RecordTags DEF Mutation
<1>. QED  BY <1>1 DEF ApplyAll

\* Load gives a snapshot of a map whenever it gives a snapshot.
LEMMA LoadType ==
  ASSUME NEW d \in Dirs, Load(d).tag = "snapshot"
  PROVE  Load(d).data \in [Keys -> Cell]
<1>1. d.path \in Files /\ d.bak \in Files
  BY DEF Dirs
<1>. QED  BY <1>1, FileTags, EmptyType DEF Load

-----------------------------------------------------------------------------
\* Type correctness.

\* A fresh database has the types of TypeOK.
LEMMA TypeInit == Init => TypeOK
<1>. SUFFICES ASSUME Init PROVE TypeOK
  OBVIOUS
<1>1. dir \in Dirs /\ dirs = {dir} /\ tmp \in Files
  BY FileTags DEF Init, Dirs
<1>2. mem \in [Keys -> Cell]
  BY EmptyType DEF Init
<1>3. may \in [Keys -> SUBSET Cell]
  BY DEF Init, Cell
<1>4. faults \in 0..MaxFaults
  BY StoreAssumption DEF Init
<1>5. <<>> \in Seq(Record) /\ <<>> \in Seq(Mutation)
  OBVIOUS
<1>. QED  BY <1>1, <1>2, <1>3, <1>4, <1>5 DEF Init, TypeOK, Stages

\* Every system call of the store, every failure and every crash keeps the types.
LEMMA TypeStep == TypeOK /\ [Next]_vars => TypeOK'
<1>. SUFFICES ASSUME TypeOK, [Next]_vars PROVE TypeOK'
  OBVIOUS
<1>. USE DEF TypeOK
<1>0. Torn \in Record /\ Zeros \in Record /\ Checkpoint \in Record /\ Mutation \subseteq Record
  BY RecordTags
<1>h. \A r \in Record : Append(log, r) \in Seq(Record)
  OBVIOUS
<1>i. <<>> \in Seq(Record) /\ <<>> \in Seq(Mutation)
  OBVIOUS
<1>a. ASSUME NEW r \in Record, WalAppend(r)
      PROVE  log' \in Seq(Record) /\ logs' \subseteq Seq(Record) /\ log' \in logs'
  BY <1>a, <1>0, <1>h DEF WalAppend
<1>b. ASSUME WalAppendFails
      PROVE  log' \in Seq(Record) /\ logs' \subseteq Seq(Record) /\ log' \in logs'
  BY <1>b, <1>0, <1>h DEF WalAppendFails
<1>c. ASSUME NEW kinds, Fault(kinds)
      PROVE  faults' \in 0..MaxFaults /\ seen' \subseteq Unhandled
  BY <1>c, StoreAssumption DEF Fault
<1>d. ASSUME NEW f \in Files, NEW g \in Files, SetDir([path |-> f, bak |-> g])
      PROVE  dirs' \subseteq Dirs /\ dir' \in dirs'
  BY <1>d DEF SetDir, Dirs
<1>e. ASSUME ReturnErr
      PROVE  stage' \in Stages /\ todo' \in Seq(Mutation) /\ done' \in Seq(Mutation)
  BY <1>e DEF ReturnErr, Stages
<1>f. ASSUME Stop
      PROVE  /\ stage' \in Stages /\ todo' \in Seq(Mutation) /\ done' \in Seq(Mutation)
             /\ mem' \in [Keys -> Cell]
  BY <1>f, EmptyType DEF Stop, Stages
<1>g. /\ dir.path \in Files /\ dir.bak \in Files
      /\ dir = [path |-> dir.path, bak |-> dir.bak]
  BY DEF Dirs
<1>1. CASE Open
  <2>1. mem' \in [Keys -> Cell]
    BY <1>1, ReplayType, LoadType, ApplyAllType DEF Open, CanOpen, Recovered
  <2>2. log' \in Seq(Record) /\ logs' \subseteq Seq(Record) /\ log' \in logs'
    BY <1>1, ReplayType DEF Open
  <2>. QED  BY <1>1, <2>1, <2>2 DEF Open, Stages
<1>2. CASE OpenInterrupted
  <2>1. log' \in Seq(Record) /\ logs' \subseteq Seq(Record) /\ log' \in logs'
    BY <1>2, ReplayType DEF OpenInterrupted
  <2>. QED  BY <1>2, <2>1, <1>c DEF OpenInterrupted
<1>3. ASSUME NEW batch \in Batches, ApplyBatch(batch)
      PROVE  TypeOK'
  <2>0. PICK n \in 0..MaxBatch : batch \in [1..n -> Mutation]
    BY DEF Batches
  <2>1. batch \in Seq(Mutation)
    <3>1. n \in Nat /\ 0..MaxBatch \subseteq Nat
      BY StoreAssumption
    <3>. QED  BY <2>0, <3>1
  <2>. QED  BY <1>3, <1>i, <2>1 DEF ApplyBatch, Stages
<1>4. CASE AppendMutation
  <2>1. /\ Head(todo) \in Mutation /\ Tail(todo) \in Seq(Mutation)
        /\ Append(done, Head(todo)) \in Seq(Mutation)
    BY <1>4 DEF AppendMutation
  <2>2. Head(todo).key \in Keys /\ Head(todo).value \in Cell
    BY <2>1 DEF Mutation
  <2>3. may' \in [Keys -> SUBSET Cell]
    BY <1>4, <2>2 DEF AppendMutation
  <2>. QED  BY <1>4, <2>1, <2>3, <1>a, <1>0 DEF AppendMutation
<1>5. CASE AppendMutationFails
  BY <1>5, <1>b, <1>c, <1>e DEF AppendMutationFails
<1>6. CASE SyncBatch
  <2>1. done \in Seq(Record)
    BY <1>0
  <2>2. mem' \in [Keys -> Cell]
    BY <1>6, <2>1, ApplyAllType DEF SyncBatch
  <2>3. may' \in [Keys -> SUBSET Cell]
    BY <1>6, <2>2 DEF SyncBatch
  <2>. QED  BY <1>6, <2>2, <2>3 DEF SyncBatch, WalSync, Stages
<1>7. CASE SyncBatchFails
  BY <1>7, <1>c, <1>e DEF SyncBatchFails
<1>8. CASE CreateTemp
  BY <1>8, FileTags DEF CreateTemp, Stages
<1>9. CASE WritePages
  BY <1>9, FileTags DEF WritePages, Stages
<1>10. CASE WritePagesFails
  BY <1>10, <1>c, <1>e DEF WritePagesFails
<1>11. CASE DropBackup
  BY <1>11, <1>d, <1>g, FileTags DEF DropBackup, Stages
<1>12. CASE RetireSnapshot
  BY <1>12, <1>d, <1>g, FileTags DEF RetireSnapshot, Stages
<1>13. CASE RetireSnapshotFails
  BY <1>13, <1>c, <1>e DEF RetireSnapshotFails
<1>14. CASE InstallSnapshot
  <2>0. [dir EXCEPT !.path = tmp] = [path |-> tmp, bak |-> dir.bak]
    BY <1>g
  <2>1. dirs' \subseteq Dirs /\ dir' \in dirs'
    BY <1>14, <1>d, <1>g, <2>0 DEF InstallSnapshot
  <2>. QED  BY <1>14, <2>1, FileTags DEF InstallSnapshot, Stages
<1>15. CASE InstallSnapshotFails
  BY <1>15, <1>c, <1>d, <1>e, <1>g, FileTags DEF InstallSnapshotFails
<1>16. CASE DropRetired
  BY <1>16, <1>d, <1>g, FileTags DEF DropRetired, Stages
<1>17. CASE RemoveBackupFails
  BY <1>17, <1>c DEF RemoveBackupFails, Stages
<1>18. CASE SyncParent
  BY <1>18 DEF SyncParent, Stages
<1>19. CASE SyncParentFails
  BY <1>19, <1>c, <1>e DEF SyncParentFails
<1>20. CASE AppendCheckpoint
  BY <1>20, <1>a, <1>0 DEF AppendCheckpoint, Stages
<1>21. CASE AppendCheckpointFails
  BY <1>21, <1>b, <1>c, <1>e DEF AppendCheckpointFails
<1>22. CASE SyncCheckpoint
  BY <1>22 DEF SyncCheckpoint, WalSync, Stages
<1>23. CASE ResetLog
  BY <1>23, <1>i DEF ResetLog, Stages
<1>24. CASE SyncReset
  BY <1>24 DEF SyncReset, WalSync, Stages
<1>25. CASE CheckpointSyncFails
  BY <1>25, <1>c, <1>e DEF CheckpointSyncFails
<1>26. CASE ResetLogFails
  BY <1>26, <1>c, <1>e DEF ResetLogFails
<1>27. CASE ProcessCrash
  BY <1>27, <1>c, <1>f DEF ProcessCrash
<1>28. CASE CrashInAppend
  BY <1>28, <1>c, <1>f, <1>0, <1>h DEF CrashInAppend
<1>29. CASE PowerLoss
  BY <1>29, <1>c, <1>f, FileTags DEF PowerLoss
<1>30. CASE UNCHANGED vars
  BY <1>30 DEF vars
<1>. QED
  BY <1>1, <1>2, <1>3, <1>4, <1>5, <1>6, <1>7, <1>8, <1>9, <1>10, <1>11,
     <1>12, <1>13, <1>14, <1>15, <1>16, <1>17, <1>18, <1>19, <1>20, <1>21,
     <1>22, <1>23, <1>24, <1>25, <1>26, <1>27, <1>28, <1>29, <1>30
     DEF Next, Proceed, Fail

\* Every behaviour of the store is well typed, and the running log and
\* directory are always among the contents a power loss may leave.
THEOREM TypeCorrect == Spec => []TypeOK
BY TypeInit, TypeStep, PTL DEF Spec

-----------------------------------------------------------------------------
\* The order of a checkpoint.

\* A fresh database has no snapshot, so StageInv holds.
LEMMA StageInit == Init => StageInv
BY FileTags DEF Init, StageInv, Publishing, Published, Synced

\* Every step of save, publish_snapshot and checkpoint, and every failure, keeps
\* StageInv: a snapshot gets a name only when its pages are complete.
LEMMA StageStep ==
  ASSUME HasParent, TypeOK, StageInv, [Next]_vars
  PROVE  StageInv'
<1>. USE DEF StageInv, Publishing, Published, Synced
<1>0. /\ mem \in [Keys -> Cell] /\ dir \in dirs
      /\ Snapshot(mem).tag = "snapshot"
      /\ Absent.tag = "absent"
  BY FileTags DEF TypeOK
<1>1. /\ dir.path \in Files /\ dir.bak \in Files
      /\ \A f : [dir EXCEPT !.path = f] = [path |-> f, bak |-> dir.bak]
      /\ \A f : [dir EXCEPT !.bak = f] = [path |-> dir.path, bak |-> f]
  BY DEF TypeOK, Dirs
<1>2. ASSUME stage' \in {"ready", "down"}, dirs' \subseteq dirs
      PROVE  StageInv'
  BY <1>2
<1>3. CASE Open \/ OpenInterrupted
  BY <1>3 DEF Open, OpenInterrupted
<1>4. ASSUME NEW batch \in Batches, ApplyBatch(batch)
      PROVE  StageInv'
  BY <1>4 DEF ApplyBatch
<1>5. CASE AppendMutation
  BY <1>5 DEF AppendMutation
<1>6. CASE SyncBatch \/ SyncReset
  BY <1>2, <1>6 DEF SyncBatch, SyncReset
<1>7. CASE CreateTemp
  BY <1>7 DEF CreateTemp
<1>8. CASE WritePages
  BY <1>8 DEF WritePages
<1>9. CASE DropBackup
  BY <1>9, <1>0, <1>1 DEF DropBackup, SetDir
<1>10. CASE RetireSnapshot
  BY <1>10, <1>0, <1>1, FileTags DEF RetireSnapshot, SetDir
<1>11. CASE InstallSnapshot
  BY <1>11, <1>0, <1>1 DEF InstallSnapshot, SetDir
<1>12. CASE InstallSnapshotFails
  BY <1>12, <1>0, <1>1 DEF InstallSnapshotFails, SetDir, ReturnErr
<1>13. CASE DropRetired
  BY <1>13, <1>0, <1>1 DEF DropRetired, SetDir
<1>14. CASE RemoveBackupFails
  BY <1>14 DEF RemoveBackupFails
<1>15. CASE SyncParent
  BY <1>15, <1>0 DEF SyncParent
<1>16. CASE AppendCheckpoint \/ SyncCheckpoint \/ ResetLog
  BY <1>16 DEF AppendCheckpoint, SyncCheckpoint, ResetLog
<1>17. CASE \/ AppendMutationFails \/ SyncBatchFails \/ WritePagesFails
            \/ RetireSnapshotFails \/ SyncParentFails \/ AppendCheckpointFails
            \/ CheckpointSyncFails \/ ResetLogFails
  BY <1>2, <1>17
     DEF AppendMutationFails, SyncBatchFails, WritePagesFails,
         RetireSnapshotFails, SyncParentFails, AppendCheckpointFails,
         CheckpointSyncFails, ResetLogFails, ReturnErr
<1>18. CASE ProcessCrash \/ CrashInAppend
  BY <1>2, <1>18 DEF ProcessCrash, CrashInAppend, Stop
<1>19. CASE PowerLoss
  BY <1>2, <1>19 DEF PowerLoss, Stop
<1>20. CASE UNCHANGED vars
  BY <1>20 DEF vars
<1>. QED
  BY <1>3, <1>4, <1>5, <1>6, <1>7, <1>8, <1>9, <1>10, <1>11, <1>12, <1>13,
     <1>14, <1>15, <1>16, <1>17, <1>18, <1>19, <1>20
     DEF Next, Proceed, Fail

\* A checkpoint whose path has a parent empties the log only after the new
\* snapshot is the one that every power loss leaves (store.rs, checkpoint;
\* btree.rs, save).
THEOREM CheckpointOrder ==
  ASSUME HasParent
  PROVE  Spec => PublishedBeforeTruncate
<1>1. ASSUME TypeOK, StageInv, [Next]_vars
      PROVE  [(log # <<>> /\ log' = <<>> /\ stage' # "down" /\ stage # "down")
                => \A d \in dirs : Load(d) = Snapshot(mem)]_vars
  <2>. SUFFICES ASSUME log # <<>>, log' = <<>>, stage # "down", stage' # "down"
                PROVE  \A d \in dirs : Load(d) = Snapshot(mem)
    OBVIOUS
  <2>1. ASSUME NEW r PROVE Append(log, r) # <<>>
    BY DEF TypeOK
  <2>2. ResetLog
    <3>1. ~(UNCHANGED log)
      OBVIOUS
    <3>2. ~UNCHANGED vars
      BY <3>1 DEF vars
    <3>3. ~(AppendMutation \/ AppendMutationFails \/ AppendCheckpoint
            \/ AppendCheckpointFails \/ CrashInAppend)
      BY <2>1 DEF AppendMutation, AppendMutationFails, AppendCheckpoint,
                  AppendCheckpointFails, CrashInAppend, WalAppend,
                  WalAppendFails
    <3>4. ~(Open \/ OpenInterrupted \/ ProcessCrash \/ PowerLoss)
      BY DEF Open, OpenInterrupted, ProcessCrash, PowerLoss, Stop
    <3>5. ~(SyncBatch \/ SyncCheckpoint \/ SyncReset \/ CreateTemp)
          /\ ~(\E batch \in Batches : ApplyBatch(batch))
      BY <3>1 DEF SyncBatch, SyncCheckpoint, SyncReset, WalSync, CreateTemp,
                  ApplyBatch
    <3>6. ~(SyncBatchFails \/ WritePages \/ WritePagesFails \/ DropBackup
            \/ RetireSnapshot \/ RetireSnapshotFails \/ InstallSnapshot
            \/ InstallSnapshotFails \/ DropRetired \/ RemoveBackupFails
            \/ SyncParent \/ SyncParentFails \/ CheckpointSyncFails
            \/ ResetLogFails)
      BY <3>1 DEF SyncBatchFails, WritePages, WritePagesFails, DropBackup,
                  RetireSnapshot, RetireSnapshotFails, InstallSnapshot,
                  InstallSnapshotFails, DropRetired, RemoveBackupFails,
                  SyncParent, SyncParentFails, CheckpointSyncFails,
                  ResetLogFails
    <3>. QED  BY <1>1, <3>2, <3>3, <3>4, <3>5, <3>6 DEF Next, Proceed, Fail
  <2>3. dirs = {dir} /\ dir.path = Snapshot(mem)
    BY <1>1, <2>2 DEF StageInv, Published, Synced, ResetLog
  <2>4. Snapshot(mem).tag = "snapshot"
    BY <1>1, FileTags DEF TypeOK
  <2>. QED  BY <2>3, <2>4 DEF Load
<1>. QED
  BY <1>1, TypeInit, TypeStep, StageInit, StageStep, PTL
     DEF Spec, PublishedBeforeTruncate

-----------------------------------------------------------------------------
\* Durability.

\* The log replays whole while the store is open.
LEMMA OpenLogReplays ==
  ASSUME TypeOK, LogInv, stage # "down"
  PROVE  Replay(log) = log /\ NoTorn(log) /\ NoZeros(log)
BY ReplayWhole DEF TypeOK, LogInv

\* Growing or shrinking the set of possible logs keeps recovery legal as long
\* as each new log replays to at least the keys of the current one, with legal
\* values.
LEMMA LogsChange ==
  ASSUME TypeOK, ReplaySafe, SnapshotSafe,
         dirs' \subseteq dirs, discarded' = discarded,
         \A k \in Keys : may[k] \subseteq may'[k],
         \A l \in logs' :
           \/ l \in logs
           \/ \A k \in Keys :
                /\ Touched(Replay(log), k) => Touched(Replay(l), k)
                /\ Touched(Replay(l), k) =>
                     Replay(l)[LastTouch(Replay(l), k)].value \in may'[k]
  PROVE  ReplaySafe' /\ SnapshotSafe'
<1>0. log \in logs
  BY DEF TypeOK
<1>1. ReplaySafe'
  BY DEF ReplaySafe
<1>2. SnapshotSafe'
  <2>. SUFFICES ASSUME NEW d \in dirs \cup {EmptyDir}, ~Gap(d)
                PROVE  /\ Load(d).tag = "snapshot"
                       /\ \A l \in logs', k \in Keys :
                            Touched(Replay(l), k) \/ Load(d).data[k] \in may'[k]
    BY DEF SnapshotSafe, Gap
  <2>1. /\ Load(d).tag = "snapshot"
        /\ \A l \in logs, k \in Keys :
             Touched(Replay(l), k) \/ Load(d).data[k] \in may[k]
    BY DEF SnapshotSafe
  <2>. QED  BY <1>0, <2>1
<1>. QED  BY <1>1, <1>2

\* A new directory state keeps recovery legal when it loads what an earlier one
\* loads, or the tree in memory.
LEMMA DirsChange ==
  ASSUME TypeOK, ReplaySafe, SnapshotSafe, AckedWritesSurvive, stage # "down",
         logs' = logs, discarded' = discarded, may' = may,
         \A d \in dirs' :
           \/ d \in dirs \cup {EmptyDir}
           \/ Load(d) = Snapshot(mem)
           \/ \E e \in dirs : ~Gap(e) /\ Load(e) = Load(d)
  PROVE  ReplaySafe' /\ SnapshotSafe'
<1>1. ReplaySafe'
  BY DEF ReplaySafe
<1>2. SnapshotSafe'
  <2>. SUFFICES ASSUME NEW d \in dirs' \cup {EmptyDir}, ~Gap(d)
                PROVE  /\ Load(d).tag = "snapshot"
                       /\ \A l \in logs, k \in Keys :
                            Touched(Replay(l), k) \/ Load(d).data[k] \in may[k]
    BY DEF SnapshotSafe, Gap
  <2>1. CASE d \in dirs \cup {EmptyDir}
    BY <2>1 DEF SnapshotSafe
  <2>2. CASE Load(d) = Snapshot(mem)
    BY <2>2, FileTags DEF TypeOK, AckedWritesSurvive
  <2>3. CASE \E e \in dirs : ~Gap(e) /\ Load(e) = Load(d)
    BY <2>3 DEF SnapshotSafe
  <2>. QED  BY <2>1, <2>2, <2>3
<1>. QED  BY <1>1, <1>2

\* Appending an intact or a torn record, when the values it writes are legal.
LEMMA LogsAppend ==
  ASSUME TypeOK, DurableInv, stage # "down", NEW r \in Record,
         r \in Mutation => r.value \in may'[r.key],
         dirs' = dirs, discarded' = discarded,
         \A k \in Keys : may[k] \subseteq may'[k],
         r.tag # "torn",
         logs' \subseteq logs \cup {Append(log, r), Append(log, Torn),
                                    Append(log, Zeros)}
  PROVE  ReplaySafe' /\ SnapshotSafe'
<1>. USE DEF TypeOK
<1>1. Replay(log) = log /\ NoTorn(log) /\ log \in logs /\ log \in Seq(Record)
  BY OpenLogReplays DEF DurableInv
<1>2. ASSUME NEW q \in {r, Zeros}
      PROVE  /\ Append(log, q) \in Seq(Record) /\ NoTorn(Append(log, q))
             /\ q \in Record
  <2>1. q \in Record /\ q.tag # "torn"
    BY RecordTags DEF Zeros
  <2>2. Append(log, q) \in Seq(Record)
    BY <2>1
  <2>. QED  BY <1>1, <2>1, <2>2 DEF NoTorn
<1>3. ASSUME NEW q \in {r, Zeros}
      PROVE  Replay(Append(log, q)) = Append(log, q)
  BY <1>2, ReplayWhole
<1>4. Replay(Append(log, Torn)) = log
  BY <1>1, ReplayAppendTorn
<1>5. \A k \in Keys : Touched(log, k) => log[LastTouch(log, k)].value \in may'[k]
  BY <1>1 DEF DurableInv, ReplaySafe
<1>6. ASSUME NEW q \in {r, Zeros}, NEW k \in Keys
      PROVE  /\ Touched(log, k) => Touched(Append(log, q), k)
             /\ Touched(Append(log, q), k) =>
                  Append(log, q)[LastTouch(Append(log, q), k)].value \in may'[k]
  <2>1. CASE Touches(q, k)
    <3>1. q = r /\ r \in Mutation /\ r.key = k
      BY <2>1, RecordTags DEF Touches, Zeros
    <3>2. Touched(Append(log, q), k) /\ Append(log, q)[LastTouch(Append(log, q), k)] = q
      BY <1>1, <1>2, <2>1, TouchAppend
    <3>. QED  BY <3>1, <3>2
  <2>2. CASE ~Touches(q, k)
    BY <1>1, <1>2, <1>5, <2>2, TouchAppend
  <2>. QED  BY <2>1, <2>2
<1>7. \A l \in logs' :
        \/ l \in logs
        \/ \A k \in Keys :
             /\ Touched(Replay(log), k) => Touched(Replay(l), k)
             /\ Touched(Replay(l), k) =>
                  Replay(l)[LastTouch(Replay(l), k)].value \in may'[k]
  <2>. SUFFICES ASSUME NEW l \in logs', l \notin logs, NEW k \in Keys
                PROVE  /\ Touched(Replay(log), k) => Touched(Replay(l), k)
                       /\ Touched(Replay(l), k) =>
                            Replay(l)[LastTouch(Replay(l), k)].value \in may'[k]
    OBVIOUS
  <2>1. CASE l = Append(log, Torn)
    BY <1>1, <1>4, <1>5, <2>1
  <2>2. CASE l \in {Append(log, r), Append(log, Zeros)}
    BY <1>1, <1>3, <1>6, <2>2
  <2>. QED  BY <2>1, <2>2
<1>. QED  BY <1>7, LogsChange DEF DurableInv

\* A fresh database recovers to the empty tree, which is legal.
LEMMA DurableInit == Init => DurableInv
<1>. SUFFICES ASSUME Init PROVE DurableInv
  OBVIOUS
<1>3. Load(EmptyDir) = Snapshot(Empty) /\ dirs = {EmptyDir}
  BY FileTags DEF Load, EmptyDir, Init
<1>4. LogInv /\ ReplaySafe /\ BatchInv
  BY EmptyLog DEF Init, LogInv, ReplaySafe, BatchInv
<1>5. SnapshotSafe
  BY <1>3, EmptyLog, FileTags, EmptyType DEF Init, SnapshotSafe, Empty
<1>. QED  BY <1>4, <1>5 DEF Init, DurableInv, AckedWritesSurvive, Gap

\* Steps that change neither the disk nor the tree.
LEMMA DurableQuiet ==
  ASSUME TypeOK, DurableInv, stage # "down",
         UNCHANGED <<log, logs, dirs, dir, may, discarded>>,
         done' = <<>> \/ UNCHANGED <<done, stage>>,
         \/ stage' # "down" /\ mem' = mem
         \/ stage' = "down" /\ ~Gap(dir)
  PROVE  DurableInv'
<1>1. LogInv'
  BY DEF DurableInv, LogInv
<1>2. ReplaySafe' /\ SnapshotSafe'
  BY LogsChange DEF DurableInv
<1>3. BatchInv'
  BY EmptyLog DEF DurableInv, BatchInv
<1>4. AckedWritesSurvive' /\ (stage' = "down" => ~Gap(dir)')
  BY DEF DurableInv, AckedWritesSurvive, Gap
<1>. QED  BY <1>1, <1>2, <1>3, <1>4 DEF DurableInv

\* Steps of a checkpoint that change directory entries.
LEMMA DurableDir ==
  ASSUME TypeOK, DurableInv, stage # "down", stage' # "down",
         UNCHANGED <<log, logs, mem, may, discarded>>,
         done' = <<>> \/ UNCHANGED <<done, stage>>,
         \A d \in dirs' :
           \/ d \in dirs \cup {EmptyDir}
           \/ Load(d) = Snapshot(mem)
           \/ \E e \in dirs : ~Gap(e) /\ Load(e) = Load(d)
  PROVE  DurableInv'
<1>1. LogInv'
  BY DEF DurableInv, LogInv
<1>2. ReplaySafe' /\ SnapshotSafe'
  BY DirsChange DEF DurableInv
<1>3. BatchInv'
  BY EmptyLog DEF DurableInv, BatchInv
<1>. QED  BY <1>1, <1>2, <1>3 DEF DurableInv, AckedWritesSurvive

\* Appending one record of a batch keeps DurableInv: until the fsync recovery may
\* find the log with or without it, and both are legal.
LEMMA DurableAppendMutation ==
  ASSUME TypeOK, DurableInv, AppendMutation
  PROVE  DurableInv'
<1>. DEFINE r == Head(todo)
<1>0. r \in Mutation
  BY DEF AppendMutation, TypeOK
<1>1. r \in Mutation /\ r \in Record /\ r.tag = "mutation"
  BY <1>0, RecordTags DEF Mutation
<1>2. r.key \in Keys /\ r.value \in may'[r.key] /\ \A k \in Keys : may[k] \subseteq may'[k]
  BY <1>1 DEF AppendMutation, TypeOK, Mutation
<1>3. /\ stage # "down" /\ stage' # "down" /\ mem' = mem
      /\ log' = Append(log, r) /\ done' = Append(done, r)
      /\ dirs' = dirs /\ discarded' = discarded
      /\ logs' \subseteq logs \cup {Append(log, r), Append(log, Torn),
                                    Append(log, Zeros)}
  BY DEF AppendMutation, WalAppend
<1>. HIDE DEF r
<1>4. ReplaySafe' /\ SnapshotSafe'
  BY <1>1, <1>2, <1>3, LogsAppend
<1>5. LogInv'
  BY <1>1, <1>3, OpenLogReplays DEF DurableInv, LogInv, NoTorn, NoZeros, TypeOK
<1>6. BatchInv'
  <2>. SUFFICES ASSUME NEW k \in Keys, Touched(done', k)
                PROVE  /\ Touched(log', k)
                       /\ log'[LastTouch(log', k)].value = done'[LastTouch(done', k)].value
    BY DEF BatchInv, AppendMutation
  <2>1. log \in Seq(Record) /\ done \in Seq(Record)
    BY RecordTags DEF TypeOK
  <2>. DEFINE la == Append(log, r)
              da == Append(done, r)
  <2>2. CASE Touches(r, k)
    <3>1. /\ Touched(la, k) /\ la[LastTouch(la, k)] = r
          /\ Touched(da, k) /\ da[LastTouch(da, k)] = r
      BY <1>1, <2>1, <2>2, TouchAppend
    <3>. QED  BY <1>3, <3>1
  <2>3. CASE ~Touches(r, k)
    <3>0. Touched(da, k)
      BY <1>3
    <3>1. Touched(done, k) /\ da[LastTouch(da, k)] = done[LastTouch(done, k)]
      BY <1>1, <2>1, <2>3, <3>0, TouchAppend
    <3>2. /\ Touched(log, k)
          /\ log[LastTouch(log, k)].value = done[LastTouch(done, k)].value
      BY <3>1 DEF DurableInv, BatchInv
    <3>3. Touched(la, k) /\ la[LastTouch(la, k)] = log[LastTouch(log, k)]
      BY <1>1, <2>1, <2>3, <3>2, TouchAppend
    <3>. QED  BY <1>3, <3>1, <3>2, <3>3
  <2>. QED  BY <2>2, <2>3
<1>7. AckedWritesSurvive'
  BY <1>2, <1>3 DEF DurableInv, AckedWritesSurvive
<1>. QED  BY <1>3, <1>4, <1>5, <1>6, <1>7 DEF DurableInv

\* The fsync that acknowledges a batch keeps DurableInv: every log the disk may
\* hold now ends in the batch, so its values are the only legal ones.
LEMMA DurableSyncBatch ==
  ASSUME TypeOK, DurableInv, SyncBatch
  PROVE  DurableInv'
<1>1. /\ stage # "down" /\ stage' # "down" /\ logs' = {log} /\ log' = log
      /\ dirs' = dirs /\ discarded' = discarded /\ done' = <<>>
      /\ mem' = ApplyAll(mem, done)
      /\ may' = [k \in Keys |-> IF Touched(done, k) THEN {mem'[k]} ELSE may[k]]
  BY DEF SyncBatch, WalSync
<1>2. Replay(log) = log /\ log \in logs
  BY <1>1, OpenLogReplays DEF DurableInv, TypeOK
<1>3. ASSUME NEW k \in Keys
      PROVE  /\ Touched(done, k) => /\ Touched(log, k)
                                    /\ may'[k] = {log[LastTouch(log, k)].value}
             /\ ~Touched(done, k) => may'[k] = may[k]
  BY <1>1 DEF ApplyAll, DurableInv, BatchInv
<1>4. LogInv' /\ BatchInv'
  BY <1>1, EmptyLog DEF DurableInv, LogInv, BatchInv
<1>5. ReplaySafe'
  <2>1. \A k \in Keys : Touched(log, k) => log[LastTouch(log, k)].value \in may[k]
    BY <1>2 DEF DurableInv, ReplaySafe
  <2>2. \A k \in Keys : Touched(log, k) => log[LastTouch(log, k)].value \in may'[k]
    BY <1>3, <2>1
  <2>. QED  BY <1>1, <1>2, <2>2 DEF ReplaySafe
<1>6. SnapshotSafe'
  <2>. SUFFICES ASSUME NEW d \in dirs \cup {EmptyDir}, ~Gap(d)
                PROVE  /\ Load(d).tag = "snapshot"
                       /\ \A k \in Keys :
                            Touched(Replay(log), k) \/ Load(d).data[k] \in may'[k]
    BY <1>1 DEF SnapshotSafe, Gap
  <2>1. /\ Load(d).tag = "snapshot"
        /\ \A k \in Keys : Touched(Replay(log), k) \/ Load(d).data[k] \in may[k]
    BY <1>2 DEF DurableInv, SnapshotSafe
  <2>. QED  BY <1>2, <1>3, <2>1
<1>7. AckedWritesSurvive'
  BY <1>1 DEF DurableInv, AckedWritesSurvive, ApplyAll
<1>. QED  BY <1>1, <1>4, <1>5, <1>6, <1>7 DEF DurableInv

\* Emptying the log in a checkpoint keeps DurableInv: every directory the disk may
\* hold names a snapshot of the tree in memory.
LEMMA DurableResetLog ==
  ASSUME TypeOK, StageInv, DurableInv, ResetLog
  PROVE  DurableInv'
<1>1. /\ stage # "down" /\ stage' # "down" /\ logs' = logs \cup {<<>>}
      /\ log' = <<>> /\ discarded' = TRUE /\ UNCHANGED <<dirs, mem, done, may>>
      /\ dirs = {dir} /\ dir.path = Snapshot(mem)
  BY DEF ResetLog, StageInv, Published, Synced
<1>2. Snapshot(mem).tag = "snapshot" /\ Snapshot(mem).data = mem
  BY FileTags DEF TypeOK
<1>3. Load(dir) = Snapshot(mem)
  BY <1>1, <1>2 DEF Load
<1>5. ReplaySafe'
  BY <1>1, EmptyLog DEF DurableInv, ReplaySafe
<1>6. SnapshotSafe'
  <2>1. Gap(EmptyDir)'
    BY <1>1, FileTags DEF Gap, EmptyDir
  <2>3. \A k \in Keys : mem[k] \in may[k]
    BY <1>1 DEF DurableInv, AckedWritesSurvive
  <2>. QED  BY <1>1, <1>2, <1>3, <2>1, <2>3 DEF SnapshotSafe
<1>7. BatchInv'
  <2>1. done = <<>>
    BY DEF DurableInv, BatchInv, ResetLog
  <2>. QED  BY <1>1, <2>1, EmptyLog DEF BatchInv
<1>. QED
  BY <1>1, <1>5, <1>6, <1>7, EmptyLog DEF DurableInv, LogInv, AckedWritesSurvive

\* Store::open keeps DurableInv: the recovered tree is legal, and cutting off a
\* torn tail changes nothing replay finds.
LEMMA DurableOpen ==
  ASSUME TypeOK, DurableInv, Open \/ OpenInterrupted
  PROVE  DurableInv'
<1>0. /\ log \in Seq(Record) /\ log \in logs /\ dir \in dirs /\ stage = "down"
      /\ done = <<>> /\ ~Gap(dir) /\ NoZeros(log)
  BY DEF TypeOK, DurableInv, BatchInv, LogInv, Open, OpenInterrupted
<1>1. /\ Replay(log) \in Seq(Record) /\ NoTorn(Replay(log))
      /\ Replay(Replay(log)) = Replay(log) /\ NoZeros(Replay(log))
  BY <1>0, ReplayType
<1>2. /\ log' = Replay(log) /\ logs' \subseteq logs \cup {Replay(log)}
      /\ UNCHANGED <<dir, dirs, done, may, discarded>>
  BY <1>0 DEF Open, OpenInterrupted
<1>3. ReplaySafe' /\ SnapshotSafe'
  <2>1. \A k \in Keys : Touched(Replay(log), k) =>
          Replay(log)[LastTouch(Replay(log), k)].value \in may[k]
    BY <1>0 DEF DurableInv, ReplaySafe
  <2>. QED  BY <1>1, <1>2, <2>1, LogsChange DEF DurableInv
<1>4. LogInv' /\ BatchInv'
  BY <1>0, <1>1, <1>2, EmptyLog DEF LogInv, BatchInv
<1>5. AckedWritesSurvive'
  <2>1. CASE OpenInterrupted
    BY <2>1, <1>0 DEF OpenInterrupted, AckedWritesSurvive
  <2>2. CASE Open
    <3>1. mem' = Recovered(dir, log)
      BY <2>2 DEF Open
    <3>2. ASSUME NEW k \in Keys PROVE Recovered(dir, log)[k] \in may[k]
      <4>1. Touched(Replay(log), k) =>
              Replay(log)[LastTouch(Replay(log), k)].value \in may[k]
        BY <1>0 DEF DurableInv, ReplaySafe
      <4>2. Touched(Replay(log), k) \/ Load(dir).data[k] \in may[k]
        BY <1>0 DEF DurableInv, SnapshotSafe
      <4>. QED  BY <4>1, <4>2 DEF Recovered, ApplyAll
    <3>. QED  BY <1>2, <3>1, <3>2 DEF AckedWritesSurvive
  <2>. QED  BY <2>1, <2>2
<1>. QED  BY <1>0, <1>2, <1>3, <1>4, <1>5 DEF DurableInv, Gap

\* Every step that is none of the unhandled failures keeps DurableInv.
LEMMA DurableStep ==
  ASSUME TypeOK, StageInv, seen = {} => DurableInv, [Next]_vars
  PROVE  (seen = {} => DurableInv)'
<1>. SUFFICES ASSUME seen' = {} PROVE DurableInv'
  OBVIOUS
<1>0. /\ mem \in [Keys -> Cell] /\ dir \in dirs
      /\ dir.path \in Files /\ dir.bak \in Files
      /\ dir.path.tag # "partial" /\ dir.bak.tag # "partial"
      /\ \A f : [dir EXCEPT !.path = f] = [path |-> f, bak |-> dir.bak]
      /\ \A f : [dir EXCEPT !.bak = f] = [path |-> dir.path, bak |-> f]
      /\ Snapshot(mem).tag = "snapshot" /\ Absent.tag = "absent"
  BY FileTags DEF TypeOK, Dirs, StageInv
<1>1. ASSUME UNCHANGED seen PROVE DurableInv
  BY <1>1
<1>2. ASSUME NEW kinds, Fault(kinds)
      PROVE  DurableInv /\ kinds \cap Unhandled = {}
  BY <1>2 DEF Fault
<1>3. CASE Open
  BY <1>1, <1>3, DurableOpen DEF Open
<1>4. CASE OpenInterrupted
  <2>1. DurableInv
    BY <1>2, <1>4 DEF OpenInterrupted
  <2>. QED  BY <1>4, <2>1, DurableOpen
<1>5. ASSUME NEW batch \in Batches, ApplyBatch(batch)
      PROVE  DurableInv'
  BY <1>1, <1>5, DurableQuiet DEF ApplyBatch
<1>6. CASE AppendMutation
  BY <1>1, <1>6, DurableAppendMutation DEF AppendMutation
<1>7. CASE SyncBatch
  BY <1>1, <1>7, DurableSyncBatch DEF SyncBatch
<1>8. CASE CreateTemp \/ WritePages
  <2>1. DurableInv
    BY <1>1, <1>8 DEF CreateTemp, WritePages
  <2>2. done = <<>>
    BY <1>8, <2>1 DEF DurableInv, BatchInv, CreateTemp, WritePages
  <2>. QED  BY <1>8, <2>1, <2>2, DurableQuiet DEF CreateTemp, WritePages
<1>9. CASE \/ SyncBatchFails \/ WritePagesFails \/ RetireSnapshotFails
           \/ SyncParentFails \/ CheckpointSyncFails \/ ResetLogFails
  <2>1. DurableInv
    BY <1>2, <1>9 DEF SyncBatchFails, WritePagesFails, RetireSnapshotFails,
                      SyncParentFails, CheckpointSyncFails, ResetLogFails
  <2>2. /\ UNCHANGED <<log, logs, dirs, dir, may, discarded>>
        /\ done' = <<>> /\ stage # "down" /\ stage' # "down" /\ mem' = mem
    BY <1>9 DEF SyncBatchFails, WritePagesFails, RetireSnapshotFails,
                SyncParentFails, CheckpointSyncFails, ResetLogFails, ReturnErr
  <2>. QED  BY <2>1, <2>2, DurableQuiet
<1>10. CASE RemoveBackupFails
  <2>1. DurableInv
    BY <1>2, <1>10 DEF RemoveBackupFails
  <2>2. done = <<>>
    BY <1>10, <2>1 DEF DurableInv, BatchInv, RemoveBackupFails
  <2>. QED  BY <1>10, <2>1, <2>2, DurableQuiet DEF RemoveBackupFails
<1>11. CASE DropBackup \/ RetireSnapshot \/ InstallSnapshot \/ DropRetired \/ SyncParent
  <2>1. DurableInv
    BY <1>1, <1>11
       DEF DropBackup, RetireSnapshot, InstallSnapshot, DropRetired, SyncParent
  <2>2. /\ UNCHANGED <<log, logs, mem, may, discarded>>
        /\ done' = <<>> /\ stage # "down" /\ stage' # "down"
    BY <1>11, <2>1 DEF DropBackup, RetireSnapshot, InstallSnapshot, DropRetired,
                       SyncParent, DurableInv, BatchInv
  <2>3. \A d \in dirs' :
          \/ d \in dirs \cup {EmptyDir}
          \/ Load(d) = Snapshot(mem)
          \/ \E e \in dirs : ~Gap(e) /\ Load(e) = Load(d)
    <3>1. CASE DropBackup
      <4>1. dirs' = dirs \cup {[path |-> dir.path, bak |-> Absent]}
        BY <1>0, <3>1 DEF DropBackup, SetDir
      <4>2. CASE dir.path.tag = "snapshot"
        BY <1>0, <4>1, <4>2 DEF Load, Gap
      <4>3. CASE dir.path = Absent
        BY <4>1, <4>3 DEF EmptyDir
      <4>. QED  BY <1>0, <4>2, <4>3, FileTags
    <3>2. CASE RetireSnapshot
      <4>1. CASE dir.path.tag = "absent"
        BY <3>2, <4>1 DEF RetireSnapshot
      <4>2. CASE dir.path.tag # "absent"
        <5>1. /\ dirs' = dirs \cup {[path |-> Absent, bak |-> dir.path]}
              /\ dir.path.tag = "snapshot"
          BY <1>0, <3>2, <4>2, FileTags DEF RetireSnapshot, SetDir
        <5>. QED  BY <1>0, <5>1 DEF Load, Gap
      <4>. QED  BY <4>1, <4>2
    <3>3. CASE InstallSnapshot
      <4>1. dirs' = dirs \cup {[path |-> Snapshot(mem), bak |-> dir.bak]}
        BY <1>0, <3>3 DEF InstallSnapshot, SetDir, StageInv, Publishing
      <4>. QED  BY <1>0, <4>1 DEF Load
    <3>4. CASE DropRetired
      <4>1. dirs' = dirs \cup {[path |-> Snapshot(mem), bak |-> Absent]}
        BY <1>0, <3>4 DEF DropRetired, SetDir, StageInv, Published
      <4>. QED  BY <1>0, <4>1 DEF Load
    <3>5. CASE SyncParent
      BY <1>0, <3>5 DEF SyncParent
    <3>. QED  BY <1>11, <3>1, <3>2, <3>3, <3>4, <3>5
  <2>. QED  BY <2>1, <2>2, <2>3, DurableDir
<1>12. CASE InstallSnapshotFails
  <2>1. DurableInv
    BY <1>2, <1>12 DEF InstallSnapshotFails
  <2>2. /\ UNCHANGED <<log, logs, mem, may, discarded>>
        /\ done' = <<>> /\ stage # "down" /\ stage' # "down"
    BY <1>12 DEF InstallSnapshotFails, ReturnErr
  <2>3. \A d \in dirs' :
          \/ d \in dirs \cup {EmptyDir}
          \/ \E e \in dirs : ~Gap(e) /\ Load(e) = Load(d)
    <3>1. CASE UNCHANGED dirs
      BY <3>1
    <3>2. CASE /\ dir.bak.tag # "absent"
               /\ dirs' = dirs \cup {[path |-> dir.bak, bak |-> Absent]}
      <4>1. dir.path = Absent /\ dir.bak.tag = "snapshot"
        BY <1>0, <1>12, <3>2, FileTags DEF InstallSnapshotFails, StageInv
      <4>. QED  BY <1>0, <3>2, <4>1 DEF Load, Gap
    <3>. QED  BY <1>12, <3>1, <3>2 DEF InstallSnapshotFails, SetDir
  <2>. QED  BY <2>1, <2>2, <2>3, DurableDir
<1>13. CASE AppendCheckpoint
  <2>1. DurableInv
    BY <1>1, <1>13 DEF AppendCheckpoint
  <2>2. /\ stage # "down" /\ stage' # "down" /\ log' = Append(log, Checkpoint)
        /\ logs' \subseteq logs \cup {Append(log, Checkpoint), Append(log, Torn),
                                      Append(log, Zeros)}
        /\ UNCHANGED <<dirs, mem, may, discarded>>
        /\ done' = <<>>
    BY <1>13, <2>1 DEF AppendCheckpoint, WalAppend, DurableInv, BatchInv
  <2>3. /\ Checkpoint \in Record /\ Checkpoint.tag = "checkpoint"
        /\ Checkpoint \notin Mutation
    BY RecordTags DEF Checkpoint, Mutation
  <2>4. ReplaySafe' /\ SnapshotSafe'
    BY <2>1, <2>2, <2>3, LogsAppend
  <2>5. LogInv'
    BY <2>1, <2>2, <2>3, OpenLogReplays
       DEF DurableInv, LogInv, NoTorn, NoZeros, TypeOK
  <2>. QED  BY <2>1, <2>2, <2>4, <2>5, EmptyLog
            DEF DurableInv, BatchInv, AckedWritesSurvive
<1>14. CASE SyncCheckpoint \/ SyncReset
  <2>1. DurableInv
    BY <1>1, <1>14 DEF SyncCheckpoint, SyncReset
  <2>2. /\ stage # "down" /\ stage' # "down" /\ logs' \subseteq logs
        /\ UNCHANGED <<log, dirs, mem, may, discarded>> /\ done' = <<>>
    BY <1>14, <2>1
       DEF SyncCheckpoint, SyncReset, WalSync, DurableInv, BatchInv, TypeOK
  <2>3. ReplaySafe' /\ SnapshotSafe'
    BY <2>1, <2>2, LogsChange DEF DurableInv
  <2>. QED  BY <2>1, <2>2, <2>3, EmptyLog
            DEF DurableInv, LogInv, BatchInv, AckedWritesSurvive
<1>15. CASE ResetLog
  BY <1>1, <1>15, DurableResetLog DEF ResetLog
<1>16. CASE AppendMutationFails \/ AppendCheckpointFails
  <2>1. Fault({"append_error"})
    BY <1>16 DEF AppendMutationFails, AppendCheckpointFails
  <2>. QED  BY <1>2, <2>1 DEF Unhandled
<1>17. CASE ProcessCrash
  <2>1. Fault(CrashKinds("process_crash", dir, <<>>))
    BY <1>17 DEF ProcessCrash
  <2>2. DurableInv /\ ~Gap(dir)
    BY <1>2, <2>1 DEF CrashKinds, Unhandled
  <2>. QED  BY <1>17, <2>2, DurableQuiet DEF ProcessCrash, Stop
<1>18. CASE CrashInAppend
  <2>1. Fault(CrashKinds("process_crash", dir, <<>>))
    BY <1>18 DEF CrashInAppend
  <2>2. DurableInv /\ ~Gap(dir)
    BY <1>2, <2>1 DEF CrashKinds, Unhandled
  <2>3. /\ stage # "down" /\ stage' = "down" /\ log' = Append(log, Torn)
        /\ logs' = logs \cup {log'} /\ UNCHANGED <<dir, dirs, may, discarded>>
        /\ done' = <<>>
    BY <1>18 DEF CrashInAppend, Stop
  <2>4. /\ log \in logs /\ log \in Seq(Record) /\ NoTorn(log) /\ NoZeros(log)
        /\ Replay(log) = log
    BY <2>2, <2>3, OpenLogReplays DEF TypeOK, DurableInv
  <2>5. Replay(Append(log, Torn)) = log
    BY <2>4, ReplayAppendTorn
  <2>6. ReplaySafe' /\ SnapshotSafe'
    <3>1. \A k \in Keys : Touched(log, k) => log[LastTouch(log, k)].value \in may[k]
      BY <2>2, <2>4 DEF DurableInv, ReplaySafe
    <3>. QED  BY <2>2, <2>3, <2>4, <2>5, <3>1, LogsChange DEF DurableInv
  <2>7. LogInv'
    BY <2>3, <2>4 DEF LogInv, NoZeros, Torn
  <2>. QED  BY <2>2, <2>3, <2>6, <2>7, EmptyLog
            DEF DurableInv, BatchInv, AckedWritesSurvive, Gap
<1>19. CASE PowerLoss
  <2>1. PICK l \in logs, d \in dirs :
          /\ Fault(CrashKinds("power_loss", d, l))
          /\ log' = l /\ logs' = {l} /\ dir' = d /\ dirs' = {d}
    BY <1>19 DEF PowerLoss
  <2>2. DurableInv /\ ~Gap(d) /\ NoZeros(l)
    BY <1>2, <2>1 DEF CrashKinds, Unhandled, NoZeros
  <2>3. stage' = "down" /\ UNCHANGED <<may, discarded>> /\ done' = <<>>
    BY <1>19 DEF PowerLoss, Stop
  <2>4. ReplaySafe' /\ SnapshotSafe'
    BY <2>1, <2>2, <2>3, LogsChange DEF DurableInv
  <2>. QED  BY <2>1, <2>2, <2>3, <2>4, EmptyLog
            DEF DurableInv, LogInv, BatchInv, AckedWritesSurvive, Gap
<1>20. CASE UNCHANGED vars
  <2>1. DurableInv
    BY <1>1, <1>20 DEF vars
  <2>. QED  BY <1>20, <2>1 DEF vars, DurableInv, LogInv, ReplaySafe, SnapshotSafe,
                              BatchInv, AckedWritesSurvive, Gap
<1>. QED
  BY <1>3, <1>4, <1>5, <1>6, <1>7, <1>8, <1>9, <1>10, <1>11, <1>12, <1>13,
     <1>14, <1>15, <1>16, <1>17, <1>18, <1>19, <1>20
     DEF Next, Proceed, Fail

\* IInv is an inductive invariant of the store.
LEMMA Inductive ==
  ASSUME HasParent
  PROVE  Spec => []IInv
BY TypeInit, TypeStep, StageInit, StageStep, DurableInit, DurableStep, PTL
   DEF Spec, IInv

\* Whatever the keys, values, bounds and failures: as long as no append fails
\* part-way, no power loss leaves zero bytes and no crash comes while the
\* snapshot of a truncated log has no name, an open store shows for each key
\* the last acknowledged write or a later one (store.rs).
THEOREM Durability ==
  ASSUME HasParent
  PROVE  Spec => []HandledFaultsLoseNothing
<1>1. IInv => HandledFaultsLoseNothing
  BY DEF IInv, DurableInv, HandledFaultsLoseNothing
<1>. QED  BY <1>1, Inductive, PTL

\* Under the same conditions a stopped store can always be opened again
\* (Store::open).
THEOREM AlwaysRecovers ==
  ASSUME HasParent
  PROVE  Spec => []HandledFaultsRecover
<1>1. IInv => HandledFaultsRecover
  <2>. SUFFICES ASSUME IInv, seen = {}, stage = "down"
                PROVE  CanOpen(dir, log)
    BY DEF HandledFaultsRecover, Recoverable
  <2>1. /\ dir \in dirs /\ log \in Seq(Record) /\ ~Gap(dir) /\ NoZeros(log)
        /\ SnapshotSafe
    BY DEF IInv, TypeOK, DurableInv, LogInv
  <2>2. Load(dir).tag = "snapshot"
    BY <2>1 DEF SnapshotSafe
  <2>3. NoZeros(Replay(log))
    BY <2>1, ReplayType
  <2>. QED  BY <2>2, <2>3 DEF CanOpen, NoZeros
<1>. QED  BY <1>1, Inductive, PTL
=============================================================================
