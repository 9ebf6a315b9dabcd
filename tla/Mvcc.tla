-------------------------------- MODULE Mvcc --------------------------------
(***************************************************************************)
(* Snapshot-isolated transactions with durable commit records (txn.rs,     *)
(* version.rs).  Any number of threads share one MvccStore; each operation *)
(* holds its mutex from beginning to end and is one action here.  Crashes  *)
(* come between operations and inside them, between the append of a record *)
(* and its fsync.                                                          *)
(*                                                                         *)
(* Recovery is the loop of MvccStore::open, one action for each record.    *)
(***************************************************************************)
EXTENDS Naturals, Sequences, FiniteSets

CONSTANTS
  Keys,       \* keys of the store
  Values,     \* values a key may be set to
  None,       \* no value: an absent key, and the value a delete writes
  Bounds      \* bounds: the largest transaction id, the write records in the
              \* log, the I/O errors and the crashes of a behaviour

ASSUME MvccAssumption ==
  /\ None \notin Values
  /\ Bounds \subseteq [txn : Nat, writes : Nat, errors : Nat, crashes : Nat]

VARIABLES
  bound,      \* the member of Bounds that holds for this behaviour
  log,        \* the records of the log
  synced,     \* how many of them are durable
  phase,      \* "replay", "up", or "failed" when open has returned an error
  pos,        \* the next record to replay
  versions,   \* Inner::versions: for each key its chain of versions
  active,     \* Inner::active: the snapshot of each registered transaction
  next_txn,   \* Inner::next_txn; during replay max_txn + 1
  commit_ts,  \* Inner::commit_ts
  pending,    \* replay: the writes of transactions without an outcome
  txns,       \* the Transaction handles: their snapshots and writes
  committed,  \* history: the value of each key after the last commit
  settled,    \* history: committed, less the commit that a crash caught
              \* between its append and its fsync, until the next begin
  used,       \* history: the ids begin has returned
  errors,     \* history: the number of I/O errors so far
  crashes,    \* history: the number of crashes so far
  seen        \* history: the I/O errors the code does not withstand among them

vars == <<bound, log, synced, phase, pos, versions, active, next_txn,
          commit_ts, pending, txns, committed, settled, used, errors, crashes, seen>>

disk == <<log, synced>>
inner == <<versions, active, next_txn, commit_ts>>
replay == <<pos, pending>>
history == <<committed, settled, used, errors, crashes, seen>>

-----------------------------------------------------------------------------
Cell == Values \cup {None}

Ids == UNION {1..b.txn : b \in Bounds}

\* deleted_at of a version that has not been replaced; timestamps start at 1.
Live == 0

Version(value, ts) == [value |-> value, created |-> ts, deleted |-> Live]

BeginRecord(t, snapshot) == [tag |-> "begin", txn |-> t, snapshot |-> snapshot]

\* TxnRecord::Set, and TxnRecord::Delete as the write of None.
WriteRecord(t, k, value) ==
  [tag |-> "write", txn |-> t, key |-> k, value |-> value]

CommitRecord(t, ts) == [tag |-> "commit", txn |-> t, ts |-> ts]

AbortRecord(t) == [tag |-> "abort", txn |-> t]

Torn == [tag |-> "torn"]

Without(f, x) == [y \in DOMAIN f \ {x} |-> f[y]]

With(f, x, v) == [y \in DOMAIN f \cup {x} |-> IF y = x THEN v ELSE f[y]]

Override(f, g) == [x \in DOMAIN f |-> IF x \in DOMAIN g THEN g[x] ELSE f[x]]

-----------------------------------------------------------------------------
\* Versions.

visible_at(version, snapshot) ==
  /\ version.created <= snapshot
  /\ version.deleted = Live \/ version.deleted > snapshot

last_modified(version) ==
  IF version.deleted > version.created THEN version.deleted
                                       ELSE version.created

\* The newest version of k that the snapshot sees, if any.
visible_value(k, snapshot) ==
  LET chain == versions[k]
      seenBy == {i \in DOMAIN chain : visible_at(chain[i], snapshot)}
  IN  IF seenBy = {} THEN None
      ELSE chain[CHOOSE i \in seenBy : \A j \in seenBy : j <= i].value

latest_change(k) ==
  IF versions[k] = <<>> THEN 0 ELSE last_modified(versions[k][Len(versions[k])])

\* Mutant of apply_versions: the current version stays open.
apply_versions_keeps_open(writes, ts) ==
  [k \in Keys |-> IF k \in DOMAIN writes /\ writes[k] # None
                   THEN Append(versions[k], Version(writes[k], ts))
                   ELSE versions[k]]

\* Close the current version of each written key and add the new one.
apply_versions(writes, ts) ==
  [k \in Keys |->
    LET chain == versions[k]
        closed == [i \in DOMAIN chain |->
                     IF i = Len(chain) /\ chain[i].deleted = Live
                       THEN [chain[i] EXCEPT !.deleted = ts]
                       ELSE chain[i]]
    IN  IF k \notin DOMAIN writes THEN chain
        ELSE IF writes[k] = None THEN closed
        ELSE Append(closed, Version(writes[k], ts))]

\* Transaction::get.
get(t, k) ==
  IF k \in DOMAIN txns[t].writes THEN txns[t].writes[k]
                                 ELSE visible_value(k, txns[t].snapshot)

\* The conflict check of Transaction::commit.
conflicts(t) ==
  \E k \in DOMAIN txns[t].writes : latest_change(k) > txns[t].snapshot

-----------------------------------------------------------------------------
\* The log.

WalAppend(record) == log' = Append(log, record)

WalSync == synced' = Len(log')

\* The records of l before the first damaged one.
ValidLen(l) ==
  CHOOSE n \in 0..Len(l) :
    /\ \A i \in 1..n : l[i].tag # "torn"
    /\ n < Len(l) => l[n + 1].tag = "torn"

Error(kinds) ==
  /\ errors < bound.errors
  /\ errors' = errors + 1
  /\ seen' = seen \cup kinds
  /\ UNCHANGED crashes

-----------------------------------------------------------------------------
Init ==
  /\ bound \in Bounds
  /\ log = <<>>
  /\ synced = 0
  /\ phase = "replay"
  /\ pos = 1
  /\ versions = [k \in Keys |-> <<>>]
  /\ active = <<>>
  /\ next_txn = 1
  /\ commit_ts = 0
  /\ pending = <<>>
  /\ txns = <<>>
  /\ committed = [k \in Keys |-> None]
  /\ settled = committed
  /\ used = {}
  /\ errors = 0
  /\ crashes = 0
  /\ seen = {}

-----------------------------------------------------------------------------
\* Recovery.

\* The record that replay rejects: it names a transaction without a begin
\* record, or a commit whose timestamp does not increase.  (`pending' has the
\* same transactions as the code's `begun'.)
Rejected(record) ==
  \/ record.tag \in {"write", "commit"} /\ record.txn \notin DOMAIN pending
  \/ record.tag = "commit" /\ record.ts <= commit_ts

ReplayRecord ==
  /\ phase = "replay"
  /\ pos <= ValidLen(log)
  /\ ~Rejected(log[pos])
  /\ LET record == log[pos]
         t == record.txn
     IN  CASE record.tag = "begin" ->
                /\ next_txn' = IF t >= next_txn THEN t + 1 ELSE next_txn
                /\ pending' = IF t \in DOMAIN pending THEN pending
                                                      ELSE With(pending, t, <<>>)
                /\ UNCHANGED <<versions, commit_ts>>
           [] record.tag = "write" ->
                /\ pending' = With(pending, t,
                                   With(pending[t], record.key, record.value))
                /\ UNCHANGED <<versions, next_txn, commit_ts>>
           [] record.tag = "commit" ->
                /\ versions' = apply_versions(pending[t], record.ts)
                /\ commit_ts' = record.ts
                /\ pending' = Without(pending, t)
                /\ UNCHANGED next_txn
           [] record.tag = "abort" ->
                /\ pending' = Without(pending, t)
                /\ UNCHANGED <<versions, next_txn, commit_ts>>
  /\ pos' = pos + 1
  /\ UNCHANGED <<disk, phase, active, txns, history>>

\* Open returns an error.
ReplayFails ==
  /\ phase = "replay"
  /\ pos <= ValidLen(log)
  /\ Rejected(log[pos])
  /\ phase' = "failed"
  /\ UNCHANGED <<disk, inner, replay, txns, history>>

\* A damaged tail is cut off and the cut is synced.
FinishOpen ==
  /\ phase = "replay"
  /\ pos > ValidLen(log)
  /\ log' = SubSeq(log, 1, ValidLen(log))
  /\ synced' = IF log' = log THEN synced ELSE Len(log')
  /\ phase' = "up"
  /\ pos' = 1
  /\ pending' = <<>>
  /\ UNCHANGED <<inner, txns, history>>

-----------------------------------------------------------------------------
\* Transactions.

\* The handle of t is gone and t is no longer registered: commit and abort
\* remove it, and so does Drop when they fail.
Finish(t) ==
  /\ active' = Without(active, t)
  /\ txns' = Without(txns, t)

\* Mutant of begin: the id is returned before its record is durable.
begin_unsynced ==
  /\ phase = "up"
  /\ next_txn <= bound.txn
  /\ WalAppend(BeginRecord(next_txn, commit_ts))
  /\ active' = With(active, next_txn, commit_ts)
  /\ txns' = With(txns, next_txn, [snapshot |-> commit_ts, writes |-> <<>>])
  /\ settled' = committed
  /\ used' = used \cup {next_txn}
  /\ next_txn' = next_txn + 1
  /\ UNCHANGED <<synced, phase, replay, versions, commit_ts, committed, errors,
                 crashes, seen>>

\* The snapshot is the last commit; the id is durable when begin returns.
begin ==
  /\ phase = "up"
  /\ next_txn <= bound.txn
  /\ WalAppend(BeginRecord(next_txn, commit_ts))
  /\ WalSync
  /\ active' = With(active, next_txn, commit_ts)
  /\ txns' = With(txns, next_txn, [snapshot |-> commit_ts, writes |-> <<>>])
  /\ settled' = committed
  /\ used' = used \cup {next_txn}
  /\ next_txn' = next_txn + 1
  /\ UNCHANGED <<phase, replay, versions, commit_ts, committed, errors, crashes, seen>>

\* The id is spent, no transaction begins.
BeginSyncFails ==
  /\ phase = "up"
  /\ next_txn <= bound.txn
  /\ Error({})
  /\ WalAppend(BeginRecord(next_txn, commit_ts))
  /\ next_txn' = next_txn + 1
  /\ UNCHANGED <<synced, phase, replay, versions, active, commit_ts, txns,
                 committed, settled, used>>

\* The number of write records in the log.
WriteCount == Len(SelectSeq(log, LAMBDA r : r.tag = "write"))

\* Mutant of set: the write is not logged.
set_unlogged(t, k, value) ==
  /\ phase = "up"
  /\ txns' = [txns EXCEPT ![t].writes = With(@, k, value)]
  /\ UNCHANGED <<disk, phase, replay, inner, history>>

\* Transaction::set and Transaction::delete: the record is not synced.
set(t, k, value) ==
  /\ phase = "up"
  /\ WriteCount < bound.writes
  /\ WalAppend(WriteRecord(t, k, value))
  /\ txns' = [txns EXCEPT ![t].writes = With(@, k, value)]
  /\ UNCHANGED <<synced, phase, replay, inner, history>>

\* Mutant of commit: the record carries the previous timestamp.
commit_logs_old_timestamp(t) ==
  /\ phase = "up"
  /\ ~conflicts(t)
  /\ WalAppend(CommitRecord(t, commit_ts))
  /\ WalSync
  /\ versions' = apply_versions(txns[t].writes, commit_ts + 1)
  /\ commit_ts' = commit_ts + 1
  /\ Finish(t)
  /\ committed' = Override(committed, txns[t].writes)
  /\ settled' = committed'
  /\ UNCHANGED <<phase, replay, next_txn, used, errors, crashes, seen>>

\* The record is synced, then the versions become visible.
commit(t) ==
  /\ phase = "up"
  /\ ~conflicts(t)
  /\ WalAppend(CommitRecord(t, commit_ts + 1))
  /\ WalSync
  /\ versions' = apply_versions(txns[t].writes, commit_ts + 1)
  /\ commit_ts' = commit_ts + 1
  /\ Finish(t)
  /\ committed' = Override(committed, txns[t].writes)
  /\ settled' = committed'
  /\ UNCHANGED <<phase, replay, next_txn, used, errors, crashes, seen>>

\* The record stays in the log, the versions and the timestamp stay as they
\* were and the caller gets the error.
CommitSyncFails(t) ==
  /\ phase = "up"
  /\ ~conflicts(t)
  /\ Error({"commit_sync_error"})
  /\ WalAppend(CommitRecord(t, commit_ts + 1))
  /\ Finish(t)
  /\ UNCHANGED <<synced, phase, replay, versions, next_txn, commit_ts,
                 committed, settled, used>>

\* Transaction::abort, and commit when it finds a conflict.
abort(t) ==
  /\ phase = "up"
  /\ WalAppend(AbortRecord(t))
  /\ WalSync
  /\ Finish(t)
  /\ UNCHANGED <<phase, replay, versions, next_txn, commit_ts, history>>

AbortSyncFails(t) ==
  /\ phase = "up"
  /\ Error({})
  /\ WalAppend(AbortRecord(t))
  /\ Finish(t)
  /\ UNCHANGED <<synced, phase, replay, versions, next_txn, commit_ts,
                 committed, settled, used>>

\* Mutant of drop: the snapshot stays registered.
drop_leaves_active(t) ==
  /\ phase = "up"
  /\ txns' = Without(txns, t)
  /\ UNCHANGED <<disk, phase, replay, inner, history>>

\* The handle goes out of scope: no record.
drop(t) ==
  /\ phase = "up"
  /\ Finish(t)
  /\ UNCHANGED <<disk, phase, replay, versions, next_txn, commit_ts, history>>

\* The append of a record stops part-way.  A begin has then spent its id, a
\* write leaves the transaction open, a commit or an abort drops it.
AppendFails ==
  /\ phase = "up"
  /\ Error({"append_error"})
  /\ WalAppend(Torn)
  /\ \/ next_txn <= bound.txn /\ next_txn' = next_txn + 1 /\ UNCHANGED <<active, txns>>
     \/ \E t \in DOMAIN txns : /\ UNCHANGED <<active, txns>> \/ Finish(t)
                               /\ UNCHANGED next_txn
  /\ UNCHANGED <<synced, phase, replay, versions, commit_ts, committed, settled,
                 used>>

-----------------------------------------------------------------------------
\* Garbage collection.

\* Mutant of watermark: the registered snapshots are ignored.
watermark_ignores_active == commit_ts + 1

\* The oldest active snapshot; without one, past the last commit.
watermark ==
  IF active = <<>> THEN commit_ts + 1
  ELSE CHOOSE s \in {active[t] : t \in DOMAIN active} :
         \A t \in DOMAIN active : s <= active[t]

\* The elements of the chain at the indices in kept, in their order.
retain(chain, kept) ==
  LET nth(n) == CHOOSE i \in kept : Cardinality({j \in kept : j <= i}) = n
  IN  [n \in 1..Cardinality(kept) |-> chain[nth(n)]]

gc ==
  /\ phase = "up"
  /\ versions' =
       [k \in Keys |->
         retain(versions[k],
                {i \in DOMAIN versions[k] : \/ versions[k][i].deleted = Live
                                           \/ versions[k][i].deleted >= watermark})]
  /\ UNCHANGED <<disk, phase, replay, active, next_txn, commit_ts, txns, history>>

-----------------------------------------------------------------------------
\* The records an operation may have appended and not yet synced when the
\* process stops.
InFlight ==
  IF phase # "up" THEN {}
  ELSE {BeginRecord(next_txn, commit_ts) : t \in {next_txn} \cap 1..bound.txn}
       \cup {CommitRecord(t, commit_ts + 1) : t \in {u \in DOMAIN txns : ~conflicts(u)}}
       \cup {AbortRecord(t) : t \in DOMAIN txns}

\* A new process begins MvccStore::open with empty tables.
StartOpen ==
  /\ phase' = "replay"
  /\ pos' = 1
  /\ pending' = <<>>
  /\ versions' = [k \in Keys |-> <<>>]
  /\ active' = <<>>
  /\ next_txn' = 1
  /\ commit_ts' = 0

\* The process stops (and the log keeps what was written), or the machine
\* does (and the log keeps what was synced and any prefix of the rest).
Crash ==
  /\ crashes < bound.crashes
  /\ crashes' = crashes + 1
  /\ \E written \in {<<>>} \cup {<<r>> : r \in InFlight} :
       LET whole == log \o written
           Commits(from, to) == {i \in from..to : whole[i].tag = "commit"}
           found == Commits(Len(log) + 1, Len(log'))
           lost == Commits(Len(log') + 1, Len(log))
       IN  /\ \/ log' = whole /\ UNCHANGED synced
              \/ \E n \in synced..Len(whole) :
                   log' = SubSeq(whole, 1, n) /\ synced' = n
           /\ committed' =
                IF found # {} THEN Override(committed, txns[written[1].txn].writes)
                ELSE IF lost # {} THEN settled ELSE committed
           /\ settled' = IF found # {} THEN committed ELSE settled
  /\ StartOpen
  /\ txns' = <<>>
  /\ UNCHANGED <<used, errors, seen>>

-----------------------------------------------------------------------------
Next ==
  /\ UNCHANGED bound
  /\ \/ ReplayRecord
     \/ ReplayFails
     \/ FinishOpen
     \/ begin
     \/ BeginSyncFails
     \/ \E t \in DOMAIN txns :
          \/ \E k \in Keys, value \in Cell : set(t, k, value)
          \/ commit(t)
          \/ CommitSyncFails(t)
          \/ abort(t)
          \/ AbortSyncFails(t)
          \/ drop(t)
     \/ AppendFails
     \/ gc
     \/ Crash

Spec == Init /\ [][Next]_vars

-----------------------------------------------------------------------------
\* Types; a version chain is ordered, and only its last version is live.
TypeOK ==
  /\ synced \in 0..Len(log)
  /\ phase \in {"replay", "up", "failed"}
  /\ \A k \in Keys : \A i \in DOMAIN versions[k] :
       LET v == versions[k][i]
       IN  /\ v.value \in Values /\ v.created \in 1..commit_ts
           /\ v.deleted = Live => i = Len(versions[k])
           /\ v.deleted # Live => v.deleted \in (v.created + 1)..commit_ts
           /\ i > 1 => versions[k][i - 1].deleted <= v.created
  /\ \A t \in DOMAIN txns : t \in Ids /\ txns[t].snapshot \in 0..commit_ts
  /\ committed \in [Keys -> Cell] /\ settled \in [Keys -> Cell]

\* The transaction layer implements snapshot isolation: begin, reads, writes,
\* commit, refusal, garbage collection, crash and recovery do what
\* SnapshotIsolation allows, for as long as no append fails part-way and no
\* fsync of a commit fails.  While the store is down or recovering there are
\* no open transactions.
SI == INSTANCE SnapshotIsolation
        WITH database <- committed,
             certain  <- settled,
             views    <- [t \in DOMAIN txns |-> [k \in Keys |-> get(t, k)]],
             written  <- [t \in DOMAIN txns |-> DOMAIN txns[t].writes],
             stale    <- [t \in DOMAIN txns |->
                            {k \in Keys : latest_change(k) > txns[t].snapshot}]

ImplementsSI == SI!Init /\ [][SI!Next \/ seen' # {}]_(SI!vars)

\* An open store shows to a new transaction what has been committed.
ShowsCommitted ==
  (phase = "up" /\ seen = {}) =>
    \A k \in Keys : visible_value(k, commit_ts) = committed[k]

\* Recovery accepts every log that a crash can leave ("no crash leaves the
\* database in a state it cannot recover from", docs/05-durability.md).
Recoverable ==
  (phase = "replay" /\ pos <= ValidLen(log)) => ~Rejected(log[pos])

HandledFaultsRecover == seen = {} => Recoverable

\* Transaction ids "are persisted at begin, so a crash cannot cause reuse"
\* (txn.rs): an id that begin has returned is never allocated again.
IdsNotReused == (phase = "up" /\ seen = {}) => \A t \in used : t < next_txn

\* No snapshot stays registered without its transaction (it would hold back
\* garbage collection for ever), and no open transaction is unregistered (its
\* versions would be reclaimed).
ActiveIsOpen ==
  phase = "up" => /\ DOMAIN active = DOMAIN txns
                  /\ \A t \in DOMAIN txns : active[t] = txns[t].snapshot
=============================================================================
