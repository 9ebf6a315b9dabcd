--------------------------- MODULE MvccLogProofs ---------------------------
(***************************************************************************)
(* The transaction layer as long as no append stops part-way and no fsync  *)
(* of a commit fails: what memory shows is what the log says, in every     *)
(* operation and at every record of a recovery.  The theorems are at the   *)
(* end of MvccIsolationProofs.                                             *)
(***************************************************************************)
EXTENDS MvccProofs

\* The log of an open store holds its transactions and what it shows.
OpenTxn(t) ==
  /\ Begins(log, Len(log), t) /\ ~Ends(log, Len(log), t)
  /\ WritesAre(log, Len(log), t, txns[t].writes)

OpenInv ==
  /\ \A i \in 1..Len(log) : /\ log[i].txn < next_txn
                            /\ log[i].tag = "commit" => log[i].ts <= commit_ts
  /\ \A t \in DOMAIN txns : OpenTxn(t)
  /\ \A k \in Keys : Shown(versions[k], commit_ts) = committed[k]

\* Replay up to record n: the transactions without an outcome, with their
\* writes, and the value of each key.
PendingTxn(n, t) ==
  /\ Begins(log, n, t) /\ ~Ends(log, n, t)
  /\ WritesAre(log, n, t, pending[t])

Replayed(n) ==
  /\ \A t \in DOMAIN pending : PendingTxn(n, t)
  /\ \A i \in 1..n :
       /\ log[i].tag = "begin" /\ ~Ends(log, n, log[i].txn) => log[i].txn \in DOMAIN pending
       /\ log[i].txn < next_txn
       /\ log[i].tag = "commit" => log[i].ts <= commit_ts
  /\ \A i \in (n + 1)..Len(log) : log[i].tag = "commit" => log[i].ts > commit_ts
  /\ \A k \in Keys : ValueIs(log, n, k, Shown(versions[k], commit_ts))

ReplayInv == pos - 1 <= Len(log) /\ Replayed(pos - 1)

UnsyncedCommits == {c \in (synced + 1)..Len(log) : log[c].tag = "commit"}

\* Ids in use are durable.  At most the commit that a crash has caught is not,
\* and without it the log holds the settled values.
DurableInv ==
  /\ \A t \in used : Begins(log, synced, t)
  /\ txns # <<>> => UnsyncedCommits = {}
  /\ \A c \in UnsyncedCommits :
       /\ UnsyncedCommits = {c}
       /\ \A k \in Keys : ValueIs(log, c - 1, k, settled[k])

CommittedInv == \A k \in Keys : ValueIs(log, Len(log), k, committed[k])

QuietInv ==
  /\ LogInv(log)
  /\ phase # "failed"
  /\ phase = "up" => OpenInv
  /\ phase = "replay" => ReplayInv
  /\ CommittedInv
  /\ DurableInv

IInv == TypeInv /\ (seen = {} => QuietInv)

-----------------------------------------------------------------------------
\* Recovery.

\* What a commit at ts shows.
LEMMA ApplyShows ==
  ASSUME TypeInv, NEW w \in Writes, NEW ts \in Nat, commit_ts < ts, NEW k \in Keys
  PROVE  /\ k \in DOMAIN w => Shown(apply_versions(w, ts)[k], ts) = w[k]
         /\ k \notin DOMAIN w =>
              Shown(apply_versions(w, ts)[k], ts) = Shown(versions[k], commit_ts)
<1>1. Chain(versions[k], commit_ts) /\ commit_ts \in Nat /\ commit_ts <= ts
  BY DEF TypeInv
<1>2. CASE k \in DOMAIN w
  <2>1. w[k] \in Cell
    BY <1>2, WritesAreFunctions
  <2>2. apply_versions(w, ts)[k] = Applied(versions[k], w[k], ts)
    BY <1>2, ApplyIs
  <2>3. Shown(Applied(versions[k], w[k], ts), ts) = w[k]
    BY <1>1, <2>1, ShownAfter
  <2>. QED  BY <1>2, <2>2, <2>3
<1>3. CASE k \notin DOMAIN w
  <2>1. apply_versions(w, ts)[k] = versions[k]
    BY <1>3, ApplyIs
  <2>. QED  BY <1>1, <1>3, <2>1, ShownLater
<1>. QED  BY <1>2, <1>3

\* The record at hand: its transaction has begun and has no outcome.
LEMMA ReplayAt ==
  ASSUME TypeInv, QuietInv, phase = "replay", pos \in 1..Len(log)
  PROVE  /\ pos - 1 \in Nat /\ (pos - 1) + 1 = pos /\ Replayed(pos - 1)
         /\ log[pos] \in Record /\ log[pos].tag # "torn" /\ log[pos].txn \in Nat
         /\ log[pos].tag # "begin" => Begins(log, pos - 1, log[pos].txn)
         /\ ~Ends(log, pos - 1, log[pos].txn)
         /\ log[pos].tag # "begin" => /\ log[pos].txn \in DOMAIN pending
                                      /\ log[pos].txn < next_txn
         /\ log[pos].tag = "commit" => log[pos].ts > commit_ts
<1>1. log \in Seq(Record) /\ LogInv(log) /\ pos \in Nat /\ Len(log) \in Nat
  BY DEF TypeInv, QuietInv
<1>2. pos - 1 \in Nat /\ (pos - 1) + 1 = pos /\ Replayed(pos - 1)
  BY <1>1 DEF QuietInv, ReplayInv
<1>3. log[pos] \in Record
  BY <1>1
<1>4. log[pos].tag # "torn" /\ (log[pos].tag # "begin" => Begins(log, pos - 1, log[pos].txn))
  BY <1>1, Zenon DEF LogInv
<1>5. log[pos].txn \in Nat
  BY <1>3, <1>4, RecordFields
<1>6. ~Ends(log, pos - 1, log[pos].txn)
  <2>1. ASSUME NEW i \in 1..(pos - 1), Outcome(log[i]) PROVE log[i].txn # log[pos].txn
    <3>1. i \in 1..Len(log) /\ pos \in (i + 1)..Len(log)
      BY <1>1
    <3>. QED  BY <1>1, <2>1, <3>1 DEF LogInv
  <2>. QED  BY <2>1 DEF Ends
<1>7. ASSUME log[pos].tag # "begin" PROVE log[pos].txn \in DOMAIN pending /\ log[pos].txn < next_txn
  <2>1. PICK i \in 1..(pos - 1) : log[i].tag = "begin" /\ log[i].txn = log[pos].txn
    BY <1>4, <1>7 DEF Begins
  <2>. QED  BY <1>2, <1>6, <2>1 DEF Replayed
<1>8. log[pos].tag = "commit" => log[pos].ts > commit_ts
  <2>1. pos \in ((pos - 1) + 1)..Len(log)
    BY <1>1
  <2>. QED  BY <1>2, <2>1 DEF Replayed
<1>. QED  BY <1>2, <1>3, <1>4, <1>5, <1>6, <1>7, <1>8

\* Replay meets no record that it rejects.
LEMMA NotRejected ==
  ASSUME SetFacts, TypeInv, QuietInv
  PROVE  Recoverable
<1> SUFFICES ASSUME phase = "replay", pos <= ValidLen(log) PROVE ~Rejected(log[pos])
  BY DEF Recoverable
<1>1. log \in Seq(Record) /\ pos \in Nat /\ pos > 0 /\ commit_ts \in Nat
  BY DEF TypeInv
<1>2. pos \in 1..Len(log)
  BY <1>1, ValidLenIs
<1>3. log[pos].tag = "commit" => log[pos].ts \in Nat
  BY <1>2, ReplayAt, RecordFields
<1>. QED  BY <1>1, <1>2, <1>3, ReplayAt DEF Rejected

\* A transaction that the record does not touch.
LEMMA PendingOther ==
  ASSUME TypeInv, NEW n \in Nat, NEW u, PendingTxn(n, u),
         log[n + 1].txn # u \/ log[n + 1].tag = "begin", log' = log, pending'[u] = pending[u]
  PROVE  PendingTxn(n + 1, u)'
<1>1. Begins(log, n, u) /\ ~Ends(log, n, u) /\ WritesAre(log, n, u, pending[u])
  BY DEF PendingTxn
<1>2. Begins(log, n + 1, u) /\ ~Ends(log, n + 1, u)
  BY <1>1, GrowFacts DEF Outcome
<1>3. WritesAre(log, n + 1, u, pending[u])
  BY <1>1, WritesSkip
<1>. QED  BY <1>2, <1>3 DEF PendingTxn

\* Replaying a begin: one more transaction is pending.
LEMMA ReplayBegin ==
  ASSUME TypeInv, QuietInv, phase = "replay", pos \in 1..Len(log), NEW n \in Nat, n + 1 = pos,
         log[pos].tag = "begin",
         next_txn' = IF log[pos].txn >= next_txn THEN log[pos].txn + 1 ELSE next_txn,
         pending' = IF log[pos].txn \in DOMAIN pending THEN pending
                    ELSE With(pending, log[pos].txn, <<>>),
         UNCHANGED <<versions, commit_ts, log>>
  PROVE  Replayed(n + 1)'
<1> DEFINE t == log[pos].txn
<1>0. /\ n = pos - 1 /\ n \in Nat /\ n + 1 = pos /\ Replayed(n) /\ t \in Nat /\ ~Ends(log, n, t)
      /\ log[n + 1].tag = "begin" /\ log[n + 1].txn = t
  BY ReplayAt
<1>1. /\ next_txn \in Nat /\ commit_ts \in Nat /\ LogInv(log) /\ n + 1 <= Len(log)
      /\ Len(log) \in Nat /\ log \in Seq(Record)
  BY DEF TypeInv, QuietInv
<1>2. /\ DOMAIN pending' = DOMAIN pending \cup {t}
      /\ \A u \in DOMAIN pending : pending'[u] = pending[u]
      /\ t \notin DOMAIN pending => pending'[t] = <<>>
      /\ next_txn' = IF t >= next_txn THEN t + 1 ELSE next_txn
  BY DEF With
<1> HIDE DEF t
<1>3. ASSUME NEW u \in DOMAIN pending' PROVE PendingTxn(n + 1, u)'
  <2>1. CASE u \in DOMAIN pending
    <3>1. PendingTxn(n, u) /\ pending'[u] = pending[u]
      BY <1>0, <1>2, <2>1 DEF Replayed
    <3>. QED  BY <1>0, <3>1, PendingOther
  <2>2. CASE u \notin DOMAIN pending
    <3>1. u = t /\ pending'[t] = <<>>
      BY <1>2, <2>2
    <3>2. ASSUME NEW i \in 1..n, log[i].tag = "write", log[i].txn = t PROVE FALSE
      <4>1. i \in 1..Len(log) /\ i - 1 \in Nat /\ i - 1 <= n
        BY <1>0, <1>1
      <4>2. Begins(log, i - 1, t)
        BY <1>1, <3>2, <4>1 DEF LogInv
      <4>3. Begins(log, n, t)
        BY <1>0, <4>1, <4>2, Earlier
      <4>4. t \in DOMAIN pending
        BY <1>0, <4>3, Zenon DEF Begins, Replayed
      <4>. QED  BY <2>2, <3>1, <4>4
    <3>3. \A i \in 1..(n + 1) : log[i].tag = "write" => log[i].txn # t
      <4>1. \A i \in 1..(n + 1) : i \in 1..n \/ i = n + 1
        BY <1>0
      <4>. QED  BY <1>0, <3>2, <4>1
    <3>4. n + 1 \in Nat
      BY <1>0
    <3>5. WritesAre(log, n + 1, t, <<>>)
      BY <3>3, <3>4, WritesNone
    <3>6. Begins(log, n + 1, t) /\ ~Ends(log, n + 1, t)
      BY <1>0, GrowFacts DEF Outcome
    <3>. QED  BY <3>1, <3>5, <3>6 DEF PendingTxn
  <2>. QED  BY <2>1, <2>2
<1>4. ASSUME NEW i \in 1..(n + 1)
      PROVE  /\ log[i].tag = "begin" /\ ~Ends(log, n + 1, log[i].txn) => log[i].txn \in DOMAIN pending'
             /\ log[i].txn < next_txn'
             /\ log[i].tag = "commit" => log[i].ts <= commit_ts
  <2>1. CASE i \in 1..n
    <3>1. log[i] \in Record /\ log[i].tag # "torn"
      <4>1. i \in 1..Len(log)
        BY <1>0, <1>1
      <4>. QED  BY <1>1, <4>1 DEF LogInv
    <3>2. log[i].txn \in Nat
      BY <3>1, RecordFields
    <3>3. log[i].txn < next_txn'
      BY <1>0, <1>1, <1>2, <2>1, <3>2 DEF Replayed
    <3>4. Ends(log, n, log[i].txn) => Ends(log, n + 1, log[i].txn)
      BY <1>0, GrowFacts
    <3>. QED  BY <1>0, <1>2, <2>1, <3>3, <3>4 DEF Replayed
  <2>2. CASE i = n + 1
    BY <1>0, <1>1, <1>2, <2>2
  <2>. QED  BY <1>0, <2>1, <2>2
<1>5. \A i \in ((n + 1) + 1)..Len(log) : log[i].tag = "commit" => log[i].ts > commit_ts
  <2>1. \A i \in ((n + 1) + 1)..Len(log) : i \in (n + 1)..Len(log)
    BY <1>0, <1>1
  <2>. QED  BY <1>0, <2>1 DEF Replayed
<1>6. \A k \in Keys : ValueIs(log, n + 1, k, Shown(versions[k], commit_ts))
  <2>1. \A i \in (n + 1)..(n + 1) : log[i].tag # "commit"
    BY <1>0
  <2>2. n + 1 \in Nat /\ n <= n + 1
    BY <1>0
  <2>. QED  BY <1>0, <2>1, <2>2, ValueKeeps DEF Replayed
<1>. QED  BY <1>0, <1>3, <1>4, <1>5, <1>6 DEF Replayed

\* Replaying a write: it is added to the pending transaction's.
LEMMA ReplayWrite ==
  ASSUME TypeInv, QuietInv, phase = "replay", pos \in 1..Len(log), NEW n \in Nat, n + 1 = pos,
         log[pos].tag = "write",
         pending' = With(pending, log[pos].txn,
                         With(pending[log[pos].txn], log[pos].key, log[pos].value)),
         UNCHANGED <<versions, next_txn, commit_ts, log>>
  PROVE  Replayed(n + 1)'
<1> DEFINE t == log[pos].txn
           w == With(pending[t], log[pos].key, log[pos].value)
<1>0. /\ n = pos - 1 /\ n \in Nat /\ n + 1 = pos /\ Replayed(n) /\ t \in Nat /\ ~Ends(log, n, t)
      /\ log[n + 1].tag = "write" /\ log[n + 1].txn = t /\ t \in DOMAIN pending /\ t < next_txn
      /\ log[n + 1] \in Record
  BY ReplayAt
<1>1. n + 1 <= Len(log) /\ Len(log) \in Nat
  BY DEF TypeInv
<1>2. w = With(pending[t], log[n + 1].key, log[n + 1].value)
  BY <1>0
<1>3. pending' = With(pending, t, w)
  OBVIOUS
<1> HIDE DEF t, w
<1>4. /\ DOMAIN pending' = DOMAIN pending /\ pending'[t] = w
      /\ \A u \in DOMAIN pending : u # t => pending'[u] = pending[u]
  BY <1>0, <1>3, ZenonT(30) DEF With
<1>5. ASSUME NEW u \in DOMAIN pending' PROVE PendingTxn(n + 1, u)'
  <2>1. CASE u # t
    <3>1. PendingTxn(n, u) /\ pending'[u] = pending[u]
      BY <1>0, <1>4, <2>1 DEF Replayed
    <3>. QED  BY <1>0, <2>1, <3>1, PendingOther
  <2>2. CASE u = t
    <3>1. Begins(log, n, t) /\ ~Ends(log, n, t) /\ WritesAre(log, n, t, pending[t])
      BY <1>0 DEF Replayed, PendingTxn
    <3>2. Begins(log, n + 1, t) /\ ~Ends(log, n + 1, t)
      BY <1>0, <3>1, GrowFacts DEF Outcome
    <3>3. log[n + 1].key \in Keys /\ IsWrite(log[n + 1], t, log[n + 1].key)
      BY <1>0, RecordFields DEF IsWrite
    <3>4. WritesAre(log, n + 1, t, w)
      BY <1>0, <1>2, <3>1, <3>3, WritesAdd, ZenonT(30)
    <3>. QED  BY <1>4, <2>2, <3>2, <3>4 DEF PendingTxn
  <2>. QED  BY <2>1, <2>2
<1>6. ASSUME NEW i \in 1..(n + 1)
      PROVE  /\ log[i].tag = "begin" /\ ~Ends(log, n + 1, log[i].txn) => log[i].txn \in DOMAIN pending'
             /\ log[i].txn < next_txn
             /\ log[i].tag = "commit" => log[i].ts <= commit_ts
  <2>1. CASE i \in 1..n
    <3>1. Ends(log, n, log[i].txn) => Ends(log, n + 1, log[i].txn)
      BY <1>0, GrowFacts
    <3>. QED  BY <1>0, <1>4, <2>1, <3>1 DEF Replayed
  <2>2. CASE i = n + 1
    BY <1>0, <2>2
  <2>. QED  BY <1>0, <2>1, <2>2
<1>7. \A i \in ((n + 1) + 1)..Len(log) : log[i].tag = "commit" => log[i].ts > commit_ts
  <2>1. \A i \in ((n + 1) + 1)..Len(log) : i \in (n + 1)..Len(log)
    BY <1>0, <1>1
  <2>. QED  BY <1>0, <2>1, Zenon DEF Replayed
<1>8. \A k \in Keys : ValueIs(log, n + 1, k, Shown(versions[k], commit_ts))
  <2>1. \A i \in (n + 1)..(n + 1) : log[i].tag # "commit"
    BY <1>0
  <2>2. n + 1 \in Nat /\ n <= n + 1
    BY <1>0
  <2>. QED  BY <1>0, <2>1, <2>2, ValueKeeps, Zenon DEF Replayed
<1>. QED  BY <1>0, <1>5, <1>6, <1>7, <1>8, ZenonT(30) DEF Replayed

\* Arithmetic.
LEMMA Before ==
  ASSUME NEW n \in Nat, NEW p, n + 1 = p
  PROVE  p \in Nat /\ n = p - 1
OBVIOUS

\* Arithmetic.
LEMMA After ==
  ASSUME NEW n \in Nat
  PROVE  n + 1 \in Nat /\ n <= n + 1 /\ \A i \in (n + 1)..(n + 1) : i = n + 1
OBVIOUS

\* The record of an outcome: its transaction is pending no longer.
LEMMA ReplayOutcome ==
  ASSUME TypeInv, QuietInv, phase = "replay", pos \in 1..Len(log), NEW n \in Nat, n + 1 = pos,
         Outcome(log[pos]), pending' = Without(pending, log[pos].txn),
         log' = log, next_txn' = next_txn, commit_ts' \in Nat, commit_ts <= commit_ts',
         log[pos].tag = "commit" => log[pos].ts <= commit_ts',
         \A i \in (pos + 1)..Len(log) : log[i].tag = "commit" => log[i].ts > commit_ts',
         \A k \in Keys : ValueIs(log, n + 1, k, Shown(versions'[k], commit_ts'))
  PROVE  Replayed(n + 1)'
<1> DEFINE t == log[pos].txn
<1>0. /\ n = pos - 1 /\ Replayed(n) /\ t \in Nat /\ Outcome(log[n + 1]) /\ log[n + 1].txn = t
      /\ t < next_txn
  <2>1. pos \in Nat /\ n = pos - 1
    BY Before, Zenon
  <2>2. /\ Replayed(pos - 1) /\ t \in Nat
        /\ log[pos].tag # "begin" => t < next_txn
    BY ReplayAt, Zenon
  <2>3. log[pos].tag # "begin"
    BY Zenon DEF Outcome
  <2>. QED  BY <2>1, <2>2, <2>3, Zenon
<1>1. /\ commit_ts \in Nat /\ n + 1 <= Len(log) /\ Len(log) \in Nat /\ log \in Seq(Record)
  BY DEF TypeInv
<1>2. /\ DOMAIN pending' = DOMAIN pending \ {t}
      /\ \A u \in DOMAIN pending' : pending'[u] = pending[u]
  BY DEF Without
<1> HIDE DEF t
<1>3. ASSUME NEW u \in DOMAIN pending' PROVE PendingTxn(n + 1, u)'
  <2>1. u \in DOMAIN pending /\ u # t /\ pending'[u] = pending[u]
    BY <1>2
  <2>2. PendingTxn(n, u)
    BY <1>0, <2>1 DEF Replayed
  <2>. QED  BY <1>0, <2>1, <2>2, PendingOther, ZenonT(30)
<1>4. ASSUME NEW i \in 1..(n + 1)
      PROVE  /\ log[i].tag = "begin" /\ ~Ends(log, n + 1, log[i].txn) => log[i].txn \in DOMAIN pending'
             /\ log[i].txn < next_txn
             /\ log[i].tag = "commit" => log[i].ts <= commit_ts'
  <2>1. Ends(log, n, log[i].txn) \/ log[i].txn = t => Ends(log, n + 1, log[i].txn)
    BY <1>0, GrowFacts, ZenonT(30)
  <2>2. CASE i \in 1..n
    <3>1. /\ log[i].tag = "begin" /\ ~Ends(log, n, log[i].txn) => log[i].txn \in DOMAIN pending
          /\ log[i].txn < next_txn
          /\ log[i].tag = "commit" => log[i].ts <= commit_ts
      BY <1>0, <2>2 DEF Replayed
    <3>2. log[i].tag = "commit" => log[i].ts \in Nat
      <4>1. log[i] \in Record
        BY <1>1
      <4>. QED  BY <4>1, RecordFields
    <3>3. log[i].tag = "commit" => log[i].ts <= commit_ts'
      BY <1>1, <3>1, <3>2
    <3>. QED  BY <1>2, <2>1, <3>1, <3>3
  <2>3. CASE i = n + 1
    BY <1>0, <2>3 DEF Outcome
  <2>. QED  BY <2>2, <2>3
<1>5. \A i \in ((n + 1) + 1)..Len(log) : log[i].tag = "commit" => log[i].ts > commit_ts'
  OBVIOUS
<1>. QED  BY <1>3, <1>4, <1>5 DEF Replayed

\* The chains after a commit show what the log says with the commit's record.
LEMMA CommitShows ==
  ASSUME TypeInv, NEW n \in Nat, NEW w \in Writes, NEW ts \in Nat, commit_ts < ts, NEW t,
         log[n + 1].tag = "commit", log[n + 1].txn = t, WritesAre(log, n, t, w), NEW k \in Keys,
         ValueIs(log, n, k, Shown(versions[k], commit_ts))
  PROVE  ValueIs(log, n + 1, k, Shown(apply_versions(w, ts)[k], ts))
<1>1. CASE k \in DOMAIN w
  <2>1. Shown(apply_versions(w, ts)[k], ts) = w[k]
    BY <1>1, ApplyShows
  <2>2. LastWrite(log, n, log[n + 1].txn, k, w[k])
    BY <1>1 DEF WritesAre
  <2>3. ValueIs(log, n + 1, k, w[k])
    BY <2>2, ValueCommit, Zenon
  <2>. QED  BY <2>1, <2>3, Zenon
<1>2. CASE k \notin DOMAIN w
  <2>1. Shown(apply_versions(w, ts)[k], ts) = Shown(versions[k], commit_ts)
    BY <1>2, ApplyShows
  <2>2. ~Wrote(log, n, log[n + 1].txn, k)
    BY <1>2 DEF WritesAre
  <2>3. ValueIs(log, n + 1, k, Shown(versions[k], commit_ts))
    BY <2>2, ValueCommit, Zenon
  <2>. QED  BY <2>1, <2>3, Zenon
<1>. QED  BY <1>1, <1>2

\* Replaying a commit: its writes become the values of their keys.
LEMMA ReplayCommit ==
  ASSUME TypeInv, QuietInv, phase = "replay", pos \in 1..Len(log), NEW n \in Nat, n + 1 = pos,
         log[pos].tag = "commit", log[pos].ts \in Nat, commit_ts < log[pos].ts,
         versions' = apply_versions(pending[log[pos].txn], log[pos].ts),
         commit_ts' = log[pos].ts, pending' = Without(pending, log[pos].txn),
         UNCHANGED <<next_txn, log>>
  PROVE  Replayed(n + 1)'
<1> DEFINE t == log[pos].txn
           ts == log[pos].ts
           w == pending[t]
<1>0. /\ n = pos - 1 /\ Replayed(n) /\ t \in DOMAIN pending /\ ts \in Nat /\ commit_ts < ts
      /\ log[n + 1].tag = "commit" /\ log[n + 1].txn = t
  BY ReplayAt
<1>1. w \in Writes /\ commit_ts \in Nat /\ LogInv(log) /\ Len(log) \in Nat
  BY <1>0 DEF TypeInv, QuietInv
<1>2. versions' = apply_versions(w, ts) /\ commit_ts' = ts
  BY ZenonT(30)
<1>3. WritesAre(log, n, t, w)
  BY <1>0 DEF Replayed, PendingTxn
<1>4. ASSUME NEW k \in Keys PROVE ValueIs(log, n + 1, k, Shown(versions'[k], ts))
  <2>1. ValueIs(log, n, k, Shown(versions[k], commit_ts))
    BY <1>0 DEF Replayed
  <2> HIDE DEF t, ts, w
  <2>2. ValueIs(log, n + 1, k, Shown(apply_versions(w, ts)[k], ts))
    BY <1>0, <1>1, <1>3, <2>1, CommitShows, ZenonT(30)
  <2>. QED  BY <1>2, <2>2, Zenon
<1>5. \A i \in (pos + 1)..Len(log) : log[i].tag = "commit" => log[i].ts > ts
  <2>1. \A i \in (pos + 1)..Len(log) : i \in 1..Len(log) /\ pos < i
    BY <1>0, <1>1
  <2>2. \A i \in (pos + 1)..Len(log) : log[i].tag = "commit" => log[pos].ts < log[i].ts
    BY <1>1, <2>1 DEF LogInv
  <2>3. \A i \in (pos + 1)..Len(log) : log[i].tag = "commit" => log[i].ts \in Nat
    <3>1. \A i \in (pos + 1)..Len(log) : log[i] \in Record
      BY <2>1 DEF TypeInv
    <3>. QED  BY <3>1, RecordFields
  <2>. QED  BY <2>2, <2>3
<1>6. Outcome(log[pos]) /\ commit_ts' \in Nat /\ commit_ts <= commit_ts' /\ log[pos].ts <= commit_ts'
  BY <1>1 DEF Outcome
<1>7. \A i \in (pos + 1)..Len(log) : log[i].tag = "commit" => log[i].ts > commit_ts'
  BY <1>2, <1>5
<1>8. \A k \in Keys : ValueIs(log, n + 1, k, Shown(versions'[k], commit_ts'))
  BY <1>2, <1>4
<1>. QED  BY <1>6, <1>7, <1>8, ReplayOutcome

\* Replaying an abort: the transaction is pending no longer.
LEMMA ReplayAbort ==
  ASSUME TypeInv, QuietInv, phase = "replay", pos \in 1..Len(log), NEW n \in Nat, n + 1 = pos,
         log[pos].tag = "abort", pending' = Without(pending, log[pos].txn),
         UNCHANGED <<versions, next_txn, commit_ts, log>>
  PROVE  Replayed(n + 1)'
<1>0. n = pos - 1 /\ Replayed(n) /\ commit_ts \in Nat /\ Len(log) \in Nat
  BY ReplayAt DEF TypeInv
<1>1. \A k \in Keys : ValueIs(log, n + 1, k, Shown(versions[k], commit_ts))
  <2>1. \A i \in (n + 1)..(n + 1) : log[i].tag # "commit"
    BY After, Zenon
  <2>2. n + 1 \in Nat /\ n <= n + 1
    BY After, Zenon
  <2>. QED  BY <1>0, <2>1, <2>2, ValueKeeps, ZenonT(30) DEF Replayed
<1>2. \A i \in (pos + 1)..Len(log) : log[i].tag = "commit" => log[i].ts > commit_ts
  <2>1. \A i \in (pos + 1)..Len(log) : i \in (n + 1)..Len(log)
    BY <1>0
  <2>. QED  BY <1>0, <2>1 DEF Replayed
<1>3. /\ Outcome(log[pos]) /\ commit_ts' \in Nat /\ commit_ts <= commit_ts'
      /\ log[pos].tag = "commit" => log[pos].ts <= commit_ts'
  BY <1>0 DEF Outcome
<1>4. \A i \in (pos + 1)..Len(log) : log[i].tag = "commit" => log[i].ts > commit_ts'
  BY <1>2
<1>5. \A k \in Keys : ValueIs(log, n + 1, k, Shown(versions'[k], commit_ts'))
  BY <1>1
<1>. QED  BY <1>3, <1>4, <1>5, ReplayOutcome

\* Replay rejects no record and keeps up with the log.
LEMMA ReplayRecordQuiet ==
  ASSUME SetFacts, TypeInv, QuietInv, ReplayRecord
  PROVE  QuietInv'
<1>1. /\ phase = "replay" /\ pos \in 1..Len(log) /\ pos' = pos + 1 /\ Len(log) \in Nat
      /\ UNCHANGED <<log, synced, phase, txns, committed, settled, used>>
  BY ReplayRecordIs DEF TypeInv
<1>2. PICK n \in Nat : n = pos - 1
  BY <1>1
<1>3. n + 1 = pos
  BY <1>1, <1>2
<1>4. Replayed(n + 1)'
  BY <1>1, <1>3, ReplayRecordIs, ReplayBegin, ReplayWrite, ReplayCommit, ReplayAbort, Zenon
<1>5. pos' - 1 = n + 1 /\ pos' - 1 <= Len(log)
  BY <1>1, <1>2
<1>6. ReplayInv'
  BY <1>1, <1>4, <1>5, ZenonT(30) DEF ReplayInv, Replayed, PendingTxn
<1>7. LogInv(log') /\ CommittedInv' /\ DurableInv' /\ phase' = "replay"
  BY <1>1, Zenon DEF QuietInv, CommittedInv, DurableInv, UnsyncedCommits
<1>. QED  BY <1>6, <1>7 DEF QuietInv

\* At the end of the log replay shows what has been committed.
LEMMA FinishOpenQuiet ==
  ASSUME SetFacts, TypeInv, QuietInv, FinishOpen
  PROVE  QuietInv'
<1>1. /\ phase = "replay" /\ phase' = "up" /\ log \in Seq(Record) /\ Len(log) \in Nat
      /\ UNCHANGED <<versions, next_txn, commit_ts, txns, committed, settled, used>>
  BY FinishOpenIs DEF TypeInv
<1>2. ValidLen(log) = Len(log)
  BY <1>1, ValidLenIs DEF QuietInv, LogInv
<1>3. log' = log
  <2>1. log' = SubSeq(log, 1, Len(log))
    BY <1>2, FinishOpenIs
  <2>. QED  BY <1>1, <2>1
<1>4. synced' = synced
  BY <1>3, FinishOpenIs
<1>5. pos - 1 = Len(log) /\ Replayed(Len(log))
  <2>1. pos - 1 <= Len(log) /\ Replayed(pos - 1) /\ pos > Len(log) /\ pos \in Nat
    BY <1>1, <1>2, FinishOpenIs DEF QuietInv, ReplayInv, TypeInv
  <2>2. pos - 1 = Len(log)
    BY <1>1, <2>1
  <2>. QED  BY <2>1, <2>2
<1>6. ASSUME NEW k \in Keys PROVE Shown(versions[k], commit_ts) = committed[k]
  <2>1. ValueIs(log, Len(log), k, Shown(versions[k], commit_ts))
    BY <1>5 DEF Replayed
  <2>2. ValueIs(log, Len(log), k, committed[k])
    BY DEF QuietInv, CommittedInv
  <2>. QED  BY <1>1, <2>1, <2>2, ValueUnique
<1>7. DOMAIN txns' = {}
  BY <1>1, NoWrites DEF TypeInv
<1>8. OpenInv'
  BY <1>1, <1>3, <1>5, <1>6, <1>7 DEF OpenInv, Replayed
<1>9. LogInv(log') /\ CommittedInv' /\ DurableInv'
  BY <1>1, <1>3, <1>4 DEF QuietInv, CommittedInv, DurableInv, UnsyncedCommits
<1>. QED  BY <1>1, <1>8, <1>9 DEF QuietInv

-----------------------------------------------------------------------------
\* Records that the operations append.

\* The record r may follow the log l.
Follows(l, r) ==
  /\ r.tag # "torn"
  /\ r.tag # "begin" => Begins(l, Len(l), r.txn)
  /\ ~Ends(l, Len(l), r.txn)
  /\ r.tag = "commit" =>
       r.ts > 0 /\ \A i \in 1..Len(l) : l[i].tag = "commit" => l[i].ts < r.ts

\* A record that may follow keeps the log replayable.
LEMMA LogAppend ==
  ASSUME NEW l \in Seq(Record), NEW r \in Record, LogInv(l), Follows(l, r)
  PROVE  LogInv(Append(l, r))
<1> DEFINE m == Append(l, r)
           n == Len(l)
<1>0. n \in Nat /\ Len(m) = n + 1 /\ m[n + 1] = r /\ Agree(l, m, n)
  BY AppendIs DEF Agree
<1> HIDE DEF m
<1>1. \A i \in 1..n : m[i] = l[i]
  BY <1>0 DEF Agree
<1>2. \A i \in 1..Len(m) : i \in 1..n \/ i = n + 1
  BY <1>0
<1>3. ASSUME NEW i \in 1..n
      PROVE  /\ m[i].tag # "torn"
             /\ m[i].tag # "begin" => Begins(m, i - 1, m[i].txn)
             /\ m[i].tag = "commit" => m[i].ts > 0
             /\ Outcome(m[i]) => \A j \in (i + 1)..Len(m) : m[j].txn # m[i].txn
  <2>1. i - 1 \in Nat /\ Agree(l, m, i - 1)
    BY <1>0 DEF Agree
  <2>2. \A t : Begins(l, i - 1, t) <=> Begins(m, i - 1, t)
    BY <2>1, AgreeFacts
  <2>3. /\ l[i].tag # "torn"
        /\ l[i].tag # "begin" => Begins(l, i - 1, l[i].txn)
        /\ l[i].tag = "commit" => l[i].ts > 0
        /\ Outcome(l[i]) => \A j \in (i + 1)..n : l[j].txn # l[i].txn
    BY DEF LogInv
  <2>4. \A j \in (i + 1)..Len(m) : (j \in (i + 1)..n /\ m[j] = l[j]) \/ m[j] = r
    BY <1>0, <1>1
  <2>5. Outcome(l[i]) => r.txn # l[i].txn
    BY DEF Follows, Ends
  <2>. QED  BY <1>1, <2>2, <2>3, <2>4, <2>5
<1>4. /\ r.tag # "torn"
      /\ r.tag # "begin" => Begins(m, n, r.txn)
      /\ r.tag = "commit" => r.ts > 0
  BY <1>0, AgreeFacts DEF Follows
<1>5. (n + 1) - 1 = n /\ ((n + 1) + 1)..Len(m) = {}
  BY <1>0
<1>6. ASSUME NEW i \in 1..Len(m), NEW j \in 1..Len(m), i < j, m[i].tag = "commit",
             m[j].tag = "commit"
      PROVE  m[i].ts < m[j].ts
  <2>1. i \in 1..n
    BY <1>0, <1>2, <1>6
  <2>2. CASE j \in 1..n
    BY <1>1, <1>6, <2>1, <2>2 DEF LogInv
  <2>3. CASE j = n + 1
    BY <1>0, <1>1, <1>6, <2>1, <2>3 DEF Follows
  <2>. QED  BY <1>2, <2>2, <2>3
<1>7. \A i \in 1..Len(m) :
        /\ m[i].tag # "torn"
        /\ m[i].tag # "begin" => Begins(m, i - 1, m[i].txn)
        /\ m[i].tag = "commit" => m[i].ts > 0
        /\ Outcome(m[i]) => \A j \in (i + 1)..Len(m) : m[j].txn # m[i].txn
  BY <1>0, <1>2, <1>3, <1>4, <1>5
<1>8. LogInv(m)
  BY <1>6, <1>7, SMTT(30) DEF LogInv
<1>. QED  BY <1>8 DEF m

\* What an append leaves of everything that the log says.
LEMMA LogGrows ==
  ASSUME NEW l \in Seq(Record), NEW r \in Record, NEW m, m = Append(l, r)
  PROVE  /\ Len(l) \in Nat /\ Len(m) = Len(l) + 1 /\ m[Len(l) + 1] = r /\ m \in Seq(Record)
         /\ \A n \in 0..Len(l) : Agree(l, m, n)
         /\ \A t : Begins(m, Len(m), t) <=> Begins(l, Len(l), t) \/ (r.tag = "begin" /\ r.txn = t)
         /\ \A t : Ends(m, Len(m), t) <=> Ends(l, Len(l), t) \/ (Outcome(r) /\ r.txn = t)
         /\ \A t, w : WritesAre(l, Len(l), t, w) /\ (r.tag # "write" \/ r.txn # t)
                        => WritesAre(m, Len(m), t, w)
         /\ \A n \in 0..Len(l) : \A t, k, v : /\ Begins(l, n, t) => Begins(m, n, t)
                                              /\ ValueIs(l, n, k, v) => ValueIs(m, n, k, v)
         /\ r.tag # "commit" =>
              \A k, v : ValueIs(l, Len(l), k, v) => ValueIs(m, Len(m), k, v)
<1>1. Len(l) \in Nat /\ Len(m) = Len(l) + 1 /\ m[Len(l) + 1] = r /\ m \in Seq(Record)
  BY AppendIs
<1>2. \A n \in 0..Len(l) : n \in Nat /\ Agree(l, m, n)
  BY <1>1, AppendIs DEF Agree
<1>3. Len(l) \in 0..Len(l)
  BY <1>1
<1>4. ASSUME NEW n \in 0..Len(l), NEW t, NEW k, NEW v
      PROVE  /\ Begins(l, n, t) => Begins(m, n, t)
             /\ ValueIs(l, n, k, v) => ValueIs(m, n, k, v)
  BY <1>2, AgreeFacts, AgreeValue
<1>5. ASSUME NEW t
      PROVE  /\ Begins(m, Len(m), t) <=> Begins(l, Len(l), t) \/ (r.tag = "begin" /\ r.txn = t)
             /\ Ends(m, Len(m), t) <=> Ends(l, Len(l), t) \/ (Outcome(r) /\ r.txn = t)
  <2>1. /\ Begins(m, Len(l), t) <=> Begins(l, Len(l), t)
        /\ Ends(m, Len(l), t) <=> Ends(l, Len(l), t)
    BY <1>1, <1>2, <1>3, AgreeFacts
  <2>2. /\ Begins(m, Len(l) + 1, t) <=> \/ Begins(m, Len(l), t)
                                        \/ r.tag = "begin" /\ r.txn = t
        /\ Ends(m, Len(l) + 1, t) <=> \/ Ends(m, Len(l), t)
                                      \/ Outcome(r) /\ r.txn = t
    <3> DEFINE n == Len(l)
    <3>0. n \in Nat /\ m[n + 1] = r
      BY <1>1
    <3> HIDE DEF n
    <3>1. /\ Begins(m, n + 1, t) <=> \/ Begins(m, n, t)
                                     \/ m[n + 1].tag = "begin" /\ m[n + 1].txn = t
          /\ Ends(m, n + 1, t) <=> \/ Ends(m, n, t)
                                   \/ Outcome(m[n + 1]) /\ m[n + 1].txn = t
      BY <3>0, GrowFacts, Zenon
    <3>2. /\ Begins(m, n + 1, t) <=> \/ Begins(m, n, t)
                                     \/ r.tag = "begin" /\ r.txn = t
          /\ Ends(m, n + 1, t) <=> \/ Ends(m, n, t)
                                   \/ Outcome(r) /\ r.txn = t
      BY <3>0, <3>1
    <3>. QED  BY <3>2 DEF n
  <2>. QED  BY <1>1, <2>1, <2>2
<1>6. ASSUME NEW t, NEW w, WritesAre(l, Len(l), t, w), r.tag # "write" \/ r.txn # t
      PROVE  WritesAre(m, Len(m), t, w)
  <2>1. WritesAre(m, Len(l), t, w)
    BY <1>1, <1>2, <1>3, <1>6, WritesAgree
  <2>2. m[Len(l) + 1].tag # "write" \/ m[Len(l) + 1].txn # t
    BY <1>1, <1>6
  <2>3. WritesAre(m, Len(l) + 1, t, w)
    BY <1>1, <2>1, <2>2, WritesSkip, Zenon
  <2>. QED  BY <1>1, <2>3
<1>7. ASSUME r.tag # "commit", NEW k, NEW v, ValueIs(l, Len(l), k, v)
      PROVE  ValueIs(m, Len(m), k, v)
  <2>1. ValueIs(m, Len(l), k, v)
    BY <1>3, <1>4, <1>7
  <2>2. \A i \in (Len(l) + 1)..Len(m) : m[i].tag # "commit"
    BY <1>1, <1>7
  <2>3. Len(l) <= Len(m) /\ Len(m) \in Nat
    BY <1>1
  <2>. QED  BY <1>1, <2>1, <2>2, <2>3, ValueKeeps, Zenon
<1>. QED  BY <1>1, <1>2, <1>4, <1>5, <1>6, <1>7

\* A record that is no commit follows, and is not synced.
LEMMA DurableGrows ==
  ASSUME TypeInv, DurableInv, NEW r \in Record, log' = Append(log, r), r.tag # "commit",
         UNCHANGED <<synced, used, settled>>, txns' # <<>> => txns # <<>>
  PROVE  DurableInv'
<1>1. log \in Seq(Record) /\ synced \in 0..Len(log) /\ Len(log) \in Nat
  BY DEF TypeInv
<1>2. /\ Len(log') = Len(log) + 1 /\ log'[Len(log) + 1] = r
      /\ Agree(log, log', Len(log))
  <2>1. Len(log) \in 0..Len(log)
    BY <1>1
  <2>. QED  BY <1>1, <2>1, LogGrows, Zenon
<1>3. \A n \in 0..Len(log) : \A t, k, v : /\ Begins(log, n, t) => Begins(log', n, t)
                                          /\ ValueIs(log, n, k, v) => ValueIs(log', n, k, v)
  BY <1>1, LogGrows, Zenon
<1>4. UnsyncedCommits' = UnsyncedCommits
  <2>1. \A c : c \in (synced + 1)..Len(log') <=> c \in (synced + 1)..Len(log) \/ c = Len(log) + 1
    BY <1>1, <1>2
  <2>2. \A c \in (synced + 1)..Len(log) : log'[c] = log[c]
    BY <1>1, <1>2 DEF Agree
  <2>. QED  BY <1>2, <2>1, <2>2, Zenon DEF UnsyncedCommits
<1>5. \A t \in used' : Begins(log', synced', t)
  BY <1>1, <1>3 DEF DurableInv
<1>6. ASSUME NEW c \in UnsyncedCommits
      PROVE  /\ UnsyncedCommits = {c} /\ \A k \in Keys : ValueIs(log', c - 1, k, settled'[k])
  <2>1. c - 1 \in 0..Len(log)
    BY <1>1 DEF UnsyncedCommits
  <2>. QED  BY <1>3, <2>1 DEF DurableInv
<1>. QED  BY <1>4, <1>5, <1>6 DEF DurableInv

\* The log is synced.
LEMMA DurableSynced ==
  ASSUME Len(log') \in Nat, synced' = Len(log'), \A t \in used' : Begins(log', Len(log'), t)
  PROVE  DurableInv'
<1>1. (Len(log') + 1)..Len(log') = {}
  OBVIOUS
<1>2. UnsyncedCommits' = {}
  BY <1>1 DEF UnsyncedCommits
<1>. QED  BY <1>2 DEF DurableInv

\* An id that begin has returned is in the log.
LEMMA UsedBegins ==
  ASSUME TypeInv, DurableInv, NEW t \in used
  PROVE  Begins(log, Len(log), t)
<1>1. synced \in Nat /\ Len(log) \in Nat /\ synced <= Len(log)
  BY DEF TypeInv
<1>. QED  BY <1>1, Earlier DEF DurableInv

\* In an open store the next record may be the begin of the next id, or any
\* record of an open transaction.
LEMMA OpenFollows ==
  ASSUME TypeInv, OpenInv
  PROVE  /\ Follows(log, BeginRecord(next_txn, commit_ts))
         /\ \A t \in DOMAIN txns :
              /\ Follows(log, CommitRecord(t, commit_ts + 1)) /\ Follows(log, AbortRecord(t))
              /\ \A k, v : Follows(log, WriteRecord(t, k, v))
<1>1. commit_ts \in Nat /\ next_txn \in Nat
  BY DEF TypeInv
<1>2. ~Ends(log, Len(log), next_txn)
  <2>1. \A i \in 1..Len(log) : log[i].txn # next_txn
    BY <1>1 DEF OpenInv
  <2>. QED  BY <2>1 DEF Ends
<1>3. \A i \in 1..Len(log) : log[i].tag = "commit" => log[i].ts \in Nat /\ log[i].ts < commit_ts + 1
  <2>1. \A i \in 1..Len(log) : log[i] \in Record
    BY DEF TypeInv
  <2>. QED  BY <1>1, <2>1, RecordFields DEF OpenInv
<1>4. Follows(log, BeginRecord(next_txn, commit_ts))
  BY <1>2 DEF Follows, BeginRecord
<1>5. ASSUME NEW t \in DOMAIN txns
      PROVE  /\ Follows(log, CommitRecord(t, commit_ts + 1)) /\ Follows(log, AbortRecord(t))
             /\ \A k, v : Follows(log, WriteRecord(t, k, v))
  <2>1. Begins(log, Len(log), t) /\ ~Ends(log, Len(log), t)
    BY DEF OpenInv, OpenTxn
  <2>2. Follows(log, CommitRecord(t, commit_ts + 1))
    BY <1>1, <1>3, <2>1 DEF Follows, CommitRecord
  <2>3. Follows(log, AbortRecord(t))
    BY <2>1 DEF Follows, AbortRecord
  <2>4. ASSUME NEW k, NEW v PROVE Follows(log, WriteRecord(t, k, v))
    BY <2>1 DEF Follows, WriteRecord
  <2>. QED  BY <2>2, <2>3, <2>4
<1>. QED  BY <1>4, <1>5

\* An open store with one more record, which is no commit.
LEMMA OpenGrows ==
  ASSUME TypeInv, QuietInv, phase = "up", NEW r \in Record, Follows(log, r), r.tag # "commit",
         log' = Append(log, r), UNCHANGED <<phase, versions, commit_ts, committed>>,
         next_txn <= next_txn', next_txn' \in Nat, r.txn < next_txn',
         \A t \in DOMAIN txns' : OpenTxn(t)', DurableInv'
  PROVE  QuietInv'
<1>1. log \in Seq(Record) /\ LogInv(log) /\ OpenInv /\ CommittedInv /\ next_txn \in Nat
  BY DEF TypeInv, QuietInv
<1>2. LogInv(log')
  BY <1>1, LogAppend
<1>3. CommittedInv'
  BY <1>1, LogGrows, Zenon DEF CommittedInv
<1>4. \A i \in 1..Len(log') : /\ log'[i].txn < next_txn'
                              /\ log'[i].tag = "commit" => log'[i].ts <= commit_ts'
  <2>1. Len(log) \in Nat /\ Len(log') = Len(log) + 1 /\ log'[Len(log) + 1] = r
    BY <1>1, LogGrows
  <2>2. \A i \in 1..Len(log) : log'[i] = log[i] /\ log[i] \in Record
    BY <1>1, AppendIs, SMTT(30)
  <2>3. \A i \in 1..Len(log) : log[i].txn \in Nat
    BY <1>1, <2>2, RecordFields, SMTT(30) DEF LogInv
  <2>4. \A i \in 1..Len(log) : /\ log[i].txn < next_txn'
                               /\ log[i].tag = "commit" => log[i].ts <= commit_ts
    BY <1>1, <2>3 DEF OpenInv
  <2>5. \A i \in 1..Len(log') : i \in 1..Len(log) \/ i = Len(log) + 1
    BY <2>1
  <2>. QED  BY <2>1, <2>2, <2>4, <2>5, SMTT(30)
<1>5. OpenInv'
  BY <1>1, <1>4 DEF OpenInv
<1>. QED  BY <1>2, <1>3, <1>5 DEF QuietInv

\* A record of one transaction leaves the others open, with their writes.
LEMMA OtherTxn ==
  ASSUME TypeInv, OpenInv, NEW r \in Record, log' = Append(log, r),
         NEW t \in DOMAIN txns, r.txn # t, txns'[t].writes = txns[t].writes
  PROVE  OpenTxn(t)'
<1>1. log \in Seq(Record)
  BY DEF TypeInv
<1>2. /\ Begins(log, Len(log), t) /\ ~Ends(log, Len(log), t)
      /\ WritesAre(log, Len(log), t, txns[t].writes)
  BY DEF OpenInv, OpenTxn
<1>3. Begins(log', Len(log'), t) /\ ~Ends(log', Len(log'), t)
  BY <1>1, <1>2, LogGrows, Zenon
<1>4. WritesAre(log', Len(log'), t, txns[t].writes)
  <2> DEFINE w == txns[t].writes
  <2>1. WritesAre(log, Len(log), t, w)
    BY <1>2
  <2> HIDE DEF w
  <2>2. \A u, x : WritesAre(log, Len(log), u, x) /\ (r.tag # "write" \/ r.txn # u)
                    => WritesAre(log', Len(log'), u, x)
    BY <1>1, LogGrows, Zenon
  <2>3. WritesAre(log', Len(log'), t, w)
    BY <2>1, <2>2
  <2>. QED  BY <2>3 DEF w
<1>. QED  BY <1>3, <1>4 DEF OpenTxn

\* begin: its record follows, and its fsync makes the id durable.
LEMMA BeginQuiet ==
  ASSUME TypeInv, QuietInv, begin
  PROVE  QuietInv'
<1> DEFINE r == BeginRecord(next_txn, commit_ts)
<1>1. OpenInv /\ DurableInv /\ LogInv(log) /\ log \in Seq(Record) /\ phase = "up"
  BY BeginIs DEF QuietInv, TypeInv
<1>2. /\ r \in Record /\ log' = Append(log, r) /\ Follows(log, r)
      /\ synced' = Len(log') /\ next_txn \in Nat /\ next_txn' = next_txn + 1
      /\ used' = used \cup {next_txn}
  BY <1>1, BeginIs, OpenFollows
<1>3. r.tag = "begin" /\ r.txn = next_txn
  BY DEF BeginRecord
<1> HIDE DEF r
<1>4. ASSUME NEW t \in DOMAIN txns' PROVE OpenTxn(t)'
  <2>1. CASE t = next_txn
    <3>1. \A i \in 1..Len(log) : log[i].txn # t
      <4>1. \A i \in 1..Len(log) : log[i].txn < next_txn
        BY <1>1 DEF OpenInv
      <4>. QED  BY <1>2, <2>1, <4>1
    <3>2. Begins(log', Len(log'), t)
      BY <1>1, <1>2, <1>3, <2>1, LogGrows, Zenon
    <3>3. ~Ends(log, Len(log), t)
      BY <3>1 DEF Ends
    <3>4. ~Ends(log', Len(log'), t)
      BY <1>1, <1>2, <1>3, <3>3, LogGrows, Zenon DEF Outcome
    <3>5. WritesAre(log, Len(log), t, <<>>)
      BY <1>1, <3>1, WritesNone
    <3>6. WritesAre(log', Len(log'), t, <<>>)
      BY <1>1, <1>2, <1>3, <3>5, LogGrows, Zenon
    <3>7. txns'[t].writes = <<>>
      BY <2>1, BeginIs
    <3>. QED  BY <3>2, <3>4, <3>6, <3>7 DEF OpenTxn
  <2>2. CASE t # next_txn
    <3>1. t \in DOMAIN txns /\ txns'[t] = txns[t]
      BY <2>2, BeginIs
    <3>. QED  BY <1>1, <1>2, <1>3, <2>2, <3>1, OtherTxn
  <2>. QED  BY <2>1, <2>2
<1>5. DurableInv'
  <2>1. Len(log') \in Nat
    BY <1>1, <1>2, LogGrows
  <2>2. ASSUME NEW t \in used' PROVE Begins(log', Len(log'), t)
    <3>1. CASE t \in used
      BY <1>1, <1>2, <3>1, UsedBegins, LogGrows, Zenon
    <3>2. CASE t = next_txn
      BY <1>1, <1>2, <1>3, <3>2, LogGrows, Zenon
    <3>. QED  BY <1>2, <3>1, <3>2
  <2>. QED  BY <1>2, <2>1, <2>2, DurableSynced, SMTT(30)
<1>6. UNCHANGED <<phase, versions, commit_ts, committed>>
  BY BeginIs
<1>7. next_txn <= next_txn' /\ next_txn' \in Nat /\ r.txn < next_txn'
  BY <1>2, <1>3
<1>8. r.tag # "commit"
  BY <1>3
<1>. QED  BY <1>1, <1>2, <1>4, <1>5, <1>6, <1>7, <1>8, OpenGrows, SMTT(30)

\* A begin whose fsync fails leaves an unused id in the log.
LEMMA BeginSyncFailsQuiet ==
  ASSUME TypeInv, QuietInv, BeginSyncFails
  PROVE  QuietInv'
<1> DEFINE r == BeginRecord(next_txn, commit_ts)
<1>0. next_txn \in Nat /\ commit_ts \in Nat
  BY DEF TypeInv
<1>1. OpenInv /\ DurableInv /\ LogInv(log) /\ log \in Seq(Record) /\ phase = "up"
  BY DEF QuietInv, TypeInv, BeginSyncFails
<1>2. /\ log' = Append(log, r) /\ next_txn' = next_txn + 1
      /\ UNCHANGED <<synced, phase, versions, commit_ts, txns, committed, settled, used>>
  BY DEF BeginSyncFails, WalAppend
<1>3. r \in Record /\ Follows(log, r)
  BY <1>0, <1>1, ShortRecordsAre, OpenFollows
<1>4. r.tag = "begin" /\ r.txn = next_txn
  BY DEF BeginRecord
<1> HIDE DEF r
<1>5. ASSUME NEW t \in DOMAIN txns' PROVE OpenTxn(t)'
  <2>1. t \in DOMAIN txns /\ txns'[t].writes = txns[t].writes
    BY <1>2
  <2>2. t # next_txn
    <3>1. PICK i \in 1..Len(log) : log[i].txn = t
      BY <1>1, <2>1 DEF OpenInv, OpenTxn, Begins
    <3>2. log[i].txn < next_txn
      BY <1>1 DEF OpenInv
    <3>. QED  BY <1>0, <3>1, <3>2
  <2>. QED  BY <1>1, <1>2, <1>3, <1>4, <2>1, <2>2, OtherTxn
<1>6. DurableInv'
  BY <1>1, <1>2, <1>3, <1>4, DurableGrows
<1>7. next_txn <= next_txn' /\ next_txn' \in Nat /\ r.txn < next_txn' /\ r.tag # "commit"
  BY <1>0, <1>2, <1>4
<1>. QED  BY <1>1, <1>2, <1>3, <1>5, <1>6, <1>7, OpenGrows

\* An open transaction has a begin record, and so an id below the next one.
LEMMA OpenIdBelow ==
  ASSUME TypeInv, OpenInv, NEW t \in DOMAIN txns
  PROVE  t \in Nat /\ next_txn \in Nat /\ t < next_txn
<1>1. PICK i \in 1..Len(log) : log[i].txn = t
  BY DEF OpenInv, OpenTxn, Begins
<1>2. log[i].txn < next_txn
  BY DEF OpenInv
<1>3. next_txn \in Nat
  BY DEF TypeInv
<1>. QED  BY <1>1, <1>2, <1>3, HandleIs

\* set and delete: the record and the buffered write agree.
LEMMA SetQuiet ==
  ASSUME TypeInv, QuietInv, NEW t \in DOMAIN txns, NEW k \in Keys, NEW value \in Cell,
         set(t, k, value)
  PROVE  QuietInv'
<1> DEFINE r == WriteRecord(t, k, value)
<1>1. OpenInv /\ DurableInv /\ LogInv(log) /\ log \in Seq(Record) /\ phase = "up"
  BY SetIs DEF QuietInv, TypeInv
<1>2. /\ r \in Record /\ log' = Append(log, r) /\ Follows(log, r) /\ DOMAIN txns' = DOMAIN txns
      /\ UNCHANGED <<synced, phase, versions, next_txn, commit_ts, committed, settled, used>>
  BY <1>1, SetIs, OpenFollows
<1>3. r.tag = "write" /\ r.txn = t /\ r.key = k /\ r.value = value
  BY DEF WriteRecord
<1> HIDE DEF r
<1>4. ASSUME NEW u \in DOMAIN txns' PROVE OpenTxn(u)'
  <2>1. CASE u # t
    <3>1. u \in DOMAIN txns /\ txns'[u] = txns[u]
      BY <1>2, <2>1, SetIs, SMTT(30)
    <3>. QED  BY <1>1, <1>2, <1>3, <2>1, <3>1, OtherTxn
  <2>2. CASE u = t
    <3>1. /\ Begins(log, Len(log), t) /\ ~Ends(log, Len(log), t)
          /\ WritesAre(log, Len(log), t, txns[t].writes)
      BY <1>1 DEF OpenInv, OpenTxn
    <3>2. Begins(log', Len(log'), t) /\ ~Ends(log', Len(log'), t)
      BY <1>1, <1>2, <1>3, <3>1, LogGrows, ZenonT(30) DEF Outcome
    <3> DEFINE n == Len(log)
    <3>3. n \in Nat /\ Len(log') = n + 1 /\ log'[n + 1] = r /\ Agree(log, log', n)
      <4>1. n \in 0..n
        BY <1>1
      <4>. QED  BY Zenon, <1>1, <1>2, <4>1, LogGrows
    <3> HIDE DEF n
    <3>4. WritesAre(log', n, t, txns[t].writes)
      BY <3>1, <3>3, WritesAgree DEF n
    <3>5. IsWrite(log'[n + 1], t, k)
      BY <1>3, <3>3 DEF IsWrite
    <3>6. WritesAre(log', n + 1, t, With(txns[t].writes, k, log'[n + 1].value))
      BY <3>3, <3>4, <3>5, WritesAdd, SMTT(30)
    <3>7. txns'[t].writes = With(txns[t].writes, k, log'[n + 1].value)
      BY <1>3, <3>3, SetIs
    <3>8. WritesAre(log', Len(log'), t, txns'[t].writes)
      BY <3>3, <3>6, <3>7
    <3>. QED  BY <2>2, <3>2, <3>8, ZenonT(30) DEF OpenTxn
  <2>. QED  BY <2>1, <2>2, SMTT(30)
<1>5. txns # <<>>
  BY NoWrites
<1>6. DurableInv'
  BY <1>1, <1>2, <1>3, <1>5, DurableGrows
<1>7. next_txn <= next_txn' /\ next_txn' \in Nat /\ r.txn < next_txn' /\ r.tag # "commit"
  BY <1>1, <1>2, <1>3, OpenIdBelow
<1>. QED  BY <1>1, <1>2, <1>4, <1>6, <1>7, OpenGrows, SMTT(30)

\* abort: an outcome that commits nothing.
LEMMA AbortQuiet ==
  ASSUME TypeInv, QuietInv, NEW t \in DOMAIN txns, abort(t) \/ AbortSyncFails(t), UNCHANGED bound
  PROVE  QuietInv'
<1> DEFINE r == AbortRecord(t)
<1>1. OpenInv /\ DurableInv /\ LogInv(log) /\ log \in Seq(Record) /\ phase = "up" /\ t \in Nat
  BY HandleIs DEF QuietInv, TypeInv
<1>2. /\ log' = Append(log, r) /\ Finish(t)
      /\ UNCHANGED <<phase, versions, next_txn, commit_ts, committed, settled, used>>
      /\ synced' = synced \/ synced' = Len(log')
  BY DEF abort, AbortSyncFails, WalAppend, WalSync, history
<1>3. r \in Record /\ Follows(log, r)
  <2>1. commit_ts \in Nat
    BY DEF TypeInv
  <2>. QED  BY <1>1, <2>1, ShortRecordsAre, OpenFollows
<1>4. r.tag = "abort" /\ r.txn = t
  BY DEF AbortRecord
<1> HIDE DEF r
<1>5. ASSUME NEW u \in DOMAIN txns' PROVE OpenTxn(u)'
  <2>1. u \in DOMAIN txns /\ u # t /\ txns'[u] = txns[u]
    BY <1>2, FinishIs, ZenonT(30)
  <2>. QED  BY <1>1, <1>2, <1>3, <1>4, <2>1, OtherTxn
<1>6. txns # <<>>
  BY NoWrites
<1>7. DurableInv'
  <2>1. CASE synced' = synced
    BY <1>1, <1>2, <1>3, <1>4, <1>6, <2>1, DurableGrows
  <2>2. CASE synced' = Len(log')
    <3>1. Len(log') \in Nat
      BY <1>1, <1>2, <1>3, LogGrows, ZenonT(30)
    <3>2. \A u \in used' : Begins(log', Len(log'), u)
      BY <1>1, <1>2, <1>3, UsedBegins, LogGrows, Zenon
    <3>. QED  BY <2>2, <3>1, <3>2, DurableSynced
  <2>. QED  BY <1>2, <2>1, <2>2
<1>8. next_txn <= next_txn' /\ next_txn' \in Nat /\ r.txn < next_txn' /\ r.tag # "commit"
  BY <1>1, <1>2, <1>4, OpenIdBelow
<1>. QED  BY <1>1, <1>2, <1>3, <1>5, <1>7, <1>8, OpenGrows, SMTT(30)

\* Dropping the handle leaves a transaction without an outcome in the log.
LEMMA DropQuiet ==
  ASSUME TypeInv, QuietInv, NEW t \in DOMAIN txns, drop(t), UNCHANGED bound
  PROVE  QuietInv'
<1>1. /\ Finish(t) /\ phase = "up"
      /\ UNCHANGED <<log, synced, phase, versions, next_txn, commit_ts, committed, settled, used>>
  BY DEF drop, disk, history
<1>2. LogInv(log') /\ CommittedInv'
  BY <1>1 DEF QuietInv, CommittedInv
<1>3. ASSUME NEW u \in DOMAIN txns' PROVE OpenTxn(u)'
  <2>1. u \in DOMAIN txns /\ txns'[u] = txns[u]
    BY <1>1, FinishIs, Zenon
  <2>2. OpenTxn(u)
    BY <1>1, <2>1 DEF QuietInv, OpenInv
  <2>. QED  BY <1>1, <2>1, <2>2 DEF OpenTxn
<1>4. OpenInv'
  BY <1>1, <1>3 DEF QuietInv, OpenInv
<1>5. UnsyncedCommits' = {} /\ txns # <<>>
  <2>1. txns # <<>>
    BY NoWrites
  <2>. QED  BY <1>1, <2>1 DEF QuietInv, DurableInv, UnsyncedCommits
<1>6. DurableInv'
  BY <1>1, <1>5 DEF QuietInv, DurableInv
<1>. QED  BY <1>1, <1>2, <1>4, <1>6 DEF QuietInv

\* gc takes away only versions that no snapshot sees.
LEMMA GcQuiet ==
  ASSUME SetFacts, TypeInv, QuietInv, gc
  PROVE  QuietInv'
<1>1. /\ phase = "up"
      /\ UNCHANGED <<log, synced, phase, next_txn, commit_ts, txns, committed, settled, used>>
  BY GcIs
<1>2. ASSUME NEW k \in Keys PROVE Shown(versions'[k], commit_ts) = Shown(versions[k], commit_ts)
  <2>1. /\ Chain(versions[k], commit_ts) /\ commit_ts \in Nat
        /\ watermark \in Nat /\ watermark <= commit_ts + 1
    BY WatermarkIs DEF TypeInv
  <2>2. versions'[k] = Reclaimed(versions[k], watermark)
    BY GcIs
  <2>. QED  BY <2>1, <2>2, ReclaimedSame
<1>3. \A u \in DOMAIN txns' : OpenTxn(u)'
  BY <1>1 DEF QuietInv, OpenInv, OpenTxn
<1>4. OpenInv'
  BY <1>1, <1>2, <1>3, SMTT(30) DEF QuietInv, OpenInv
<1>5. DurableInv' /\ LogInv(log') /\ CommittedInv'
  BY <1>1 DEF QuietInv, DurableInv, UnsyncedCommits, CommittedInv
<1>. QED  BY <1>1, <1>4, <1>5 DEF QuietInv

\* A commit record gives the keys the values that its transaction wrote.
LEMMA CommitValue ==
  ASSUME NEW l \in Seq(Record), NEW t \in Nat, NEW ts \in Nat, NEW m,
         m = Append(l, CommitRecord(t, ts)), NEW w \in Writes, WritesAre(l, Len(l), t, w),
         NEW f \in [Keys -> Cell], \A k \in Keys : ValueIs(l, Len(l), k, f[k])
  PROVE  \A k \in Keys : ValueIs(m, Len(m), k, Override(f, w)[k])
<1> DEFINE r == CommitRecord(t, ts)
           n == Len(l)
<1>1. r \in Record /\ r.tag = "commit" /\ r.txn = t
  BY ShortRecordsAre DEF CommitRecord
<1>2. n \in Nat /\ Len(m) = n + 1 /\ m[n + 1] = r /\ Agree(l, m, n)
  <2> HIDE DEF r
  <2>1. m = Append(l, r)
    BY DEF r
  <2>2. n \in 0..n
    OBVIOUS
  <2>. QED  BY <1>1, <2>1, <2>2, LogGrows, Zenon
<1>3. WritesAre(m, n, t, w)
  BY <1>2, WritesAgree
<1>4. m[n + 1].tag = "commit" /\ m[n + 1].txn = t
  BY <1>1, <1>2
<1>5. \A k \in Keys : ValueIs(m, n, k, f[k])
  BY <1>2, AgreeValue
<1> HIDE DEF n, r
<1>6. ASSUME NEW k \in Keys PROVE ValueIs(m, n + 1, k, Override(f, w)[k])
  <2>1. Override(f, w)[k] = IF k \in DOMAIN w THEN w[k] ELSE f[k]
    BY OverrideType
  <2>2. CASE k \in DOMAIN w
    <3>1. LastWrite(m, n, m[n + 1].txn, k, w[k])
      BY <1>3, <1>4, <2>2 DEF WritesAre
    <3>. QED  BY <1>2, <1>4, <2>1, <2>2, <3>1, ValueCommit, Zenon
  <2>3. CASE k \notin DOMAIN w
    <3>1. ~Wrote(m, n, m[n + 1].txn, k)
      BY <1>3, <1>4, <2>3 DEF WritesAre
    <3>2. ValueIs(m, n, k, f[k])
      BY <1>5
    <3>. QED  BY <1>2, <1>4, <2>1, <2>3, <3>1, <3>2, ValueCommit, Zenon
  <2>. QED  BY <2>2, <2>3
<1>. QED  BY <1>2, <1>6

\* An append leaves the records that the log had.
LEMMA OldRecords ==
  ASSUME NEW l \in Seq(Record), NEW r
  PROVE  \A i \in 1..Len(l) : Append(l, r)[i] = l[i] /\ l[i] \in Record
BY AppendIs

\* commit: the log's value of each key is the committed one.
LEMMA CommitQuiet ==
  ASSUME TypeInv, QuietInv, NEW t \in DOMAIN txns, commit(t)
  PROVE  QuietInv'
<1> DEFINE r == CommitRecord(t, commit_ts + 1)
           w == txns[t].writes
<1>1. /\ OpenInv /\ DurableInv /\ LogInv(log) /\ CommittedInv /\ log \in Seq(Record)
      /\ phase = "up" /\ t \in Nat /\ w \in Writes /\ commit_ts \in Nat /\ next_txn \in Nat
      /\ committed \in [Keys -> Cell]
  BY HandleIs DEF QuietInv, TypeInv
<1>2. /\ log' = Append(log, r) /\ synced' = Len(log') /\ Finish(t)
      /\ versions' = apply_versions(w, commit_ts + 1) /\ commit_ts' = commit_ts + 1
      /\ committed' = Override(committed, w)
      /\ UNCHANGED <<phase, next_txn, used>>
  BY DEF commit, WalAppend, WalSync
<1>3. r \in Record /\ Follows(log, r)
  BY <1>1, ShortRecordsAre, OpenFollows
<1>4. r.tag = "commit" /\ r.txn = t /\ r.ts = commit_ts + 1
  BY DEF CommitRecord
<1>5. CommittedInv'
  <2>1. WritesAre(log, Len(log), t, w)
    BY <1>1 DEF OpenInv, OpenTxn
  <2>2. \A k \in Keys : ValueIs(log, Len(log), k, committed[k])
    BY <1>1 DEF CommittedInv
  <2>3. commit_ts + 1 \in Nat
    BY <1>1
  <2> HIDE DEF w
  <2>4. \A k \in Keys : ValueIs(log', Len(log'), k, Override(committed, w)[k])
    BY <1>1, <1>2, <2>1, <2>2, <2>3, CommitValue, ZenonT(30)
  <2>. QED  BY <1>2, <2>4, SMTT(30) DEF CommittedInv
<1> HIDE DEF r
<1>6. LogInv(log')
  BY <1>1, <1>2, <1>3, LogAppend
<1>7. ASSUME NEW u \in DOMAIN txns' PROVE OpenTxn(u)'
  <2>1. u \in DOMAIN txns /\ u # t /\ txns'[u] = txns[u]
    BY <1>2, SMTT(30) DEF Finish, Without
  <2>. QED  BY <1>1, <1>2, <1>3, <1>4, <2>1, OtherTxn, Zenon
<1>8. \A i \in 1..Len(log') : /\ log'[i].txn < next_txn'
                              /\ log'[i].tag = "commit" => log'[i].ts <= commit_ts'
  <2>1. Len(log) \in Nat /\ Len(log') = Len(log) + 1 /\ log'[Len(log) + 1] = r
    BY <1>1, <1>2, <1>3, LogGrows, ZenonT(30)
  <2>2. \A i \in 1..Len(log) : log'[i] = log[i] /\ log[i] \in Record
    BY <1>1, <1>2, OldRecords, Zenon
  <2>3. \A i \in 1..Len(log) : log[i].tag = "commit" => log[i].ts \in Nat
    BY <2>2, RecordFields
  <2>4. \A i \in 1..Len(log) : /\ log[i].txn < next_txn
                               /\ log[i].tag = "commit" => log[i].ts <= commit_ts + 1
    BY <1>1, <2>3 DEF OpenInv
  <2>5. \A i \in 1..Len(log') : i \in 1..Len(log) \/ i = Len(log) + 1
    BY <2>1
  <2>6. r.txn < next_txn /\ r.ts <= commit_ts + 1
    BY <1>1, <1>4, OpenIdBelow, SMTT(30)
  <2>. QED  BY <1>2, <2>1, <2>2, <2>4, <2>5, <2>6
<1>9. ASSUME NEW k \in Keys PROVE Shown(versions'[k], commit_ts') = committed'[k]
  <2>1. committed'[k] = IF k \in DOMAIN w THEN w[k] ELSE committed[k]
    BY <1>1, <1>2, OverrideType
  <2>2. commit_ts + 1 \in Nat /\ commit_ts < commit_ts + 1
    BY <1>1
  <2>3. Shown(versions[k], commit_ts) = committed[k]
    BY <1>1 DEF OpenInv
  <2> HIDE DEF w
  <2>. QED  BY <1>1, <1>2, <2>1, <2>2, <2>3, ApplyShows, SMTT(30)
<1>10. OpenInv'
  BY <1>7, <1>8, <1>9 DEF OpenInv
<1>11. DurableInv'
  <2>1. Len(log') \in Nat
    BY <1>1, <1>2, <1>3, LogGrows, ZenonT(30)
  <2>2. \A u \in used' : Begins(log', Len(log'), u)
    BY <1>1, <1>2, <1>3, UsedBegins, LogGrows, ZenonT(30)
  <2>. QED  BY <1>2, <2>1, <2>2, DurableSynced
<1>. QED  BY <1>1, <1>2, <1>5, <1>6, <1>10, <1>11, SMTT(30) DEF QuietInv

=============================================================================
