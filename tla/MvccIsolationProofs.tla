------------------------ MODULE MvccIsolationProofs ------------------------
(***************************************************************************)
(* Crashes leave a log that recovery reads back, so the invariant is       *)
(* inductive.  The transaction layer implements snapshot isolation: what   *)
(* its version chains, timestamps, log, recovery and garbage collection do *)
(* to the views of the open transactions is what SnapshotIsolation says.   *)
(* The theorems about the transaction layer follow.                        *)
(***************************************************************************)
EXTENDS MvccLogProofs

\* Crashes.

\* The log with the record that a crash may have caught in flight.
LEMMA WholeLog ==
  ASSUME TypeInv, QuietInv, NEW whole, CrashedLog(whole)
  PROVE  /\ LogInv(whole) /\ LogInv(log') /\ whole \in Seq(Record) /\ log' \in Seq(Record)
         /\ Len(log) \in Nat /\ Len(whole) \in Nat /\ Len(log') \in Nat
         /\ synced \in Nat /\ synced <= Len(log) /\ synced <= Len(log')
         /\ Len(log') <= Len(whole) /\ Len(log) <= Len(whole) /\ Len(whole) <= Len(log) + 1
         /\ \A n \in Nat : n <= Len(log) => Agree(log, whole, n)
         /\ \A n \in Nat : n <= Len(log') => Agree(whole, log', n)
         /\ \A n \in Nat : n <= Len(log) /\ n <= Len(log') => Agree(log, log', n)
<1>1. log \in Seq(Record) /\ Len(log) \in Nat /\ synced \in 0..Len(log) /\ LogInv(log)
  BY DEF TypeInv, QuietInv
<1>2. /\ whole \in Seq(Record) /\ LogInv(whole) /\ Len(log) <= Len(whole)
      /\ Len(whole) \in Nat /\ Len(whole) <= Len(log) + 1
      /\ \A i \in 1..Len(log) : whole[i] = log[i]
  <2>1. CASE whole = log
    BY <1>1, <2>1
  <2>2. CASE \E r \in InFlight : whole = Append(log, r)
    <3>1. PICK r \in InFlight : whole = Append(log, r)
      BY <2>2
    <3>2. r \in Record /\ phase = "up"
      BY InFlightIs
    <3>3. OpenInv
      BY <3>2 DEF QuietInv
    <3>4. Follows(log, r)
      BY <3>3, InFlightIs, OpenFollows
    <3>5. LogInv(whole)
      BY <1>1, <3>1, <3>2, <3>4, LogAppend
    <3>. QED  BY <1>1, <3>1, <3>2, <3>5, AppendIs
  <2>. QED  BY <2>1, <2>2 DEF CrashedLog
<1>3. /\ log' \in Seq(Record) /\ Len(log') \in Nat /\ synced <= Len(log') /\ Len(log') <= Len(whole)
      /\ \A i \in 1..Len(log') : log'[i] = whole[i]
  BY <1>1, <1>2 DEF CrashedLog
<1>4. /\ \A n \in Nat : n <= Len(log) => Agree(log, whole, n)
      /\ \A n \in Nat : n <= Len(log') => Agree(whole, log', n)
      /\ \A n \in Nat : n <= Len(log) /\ n <= Len(log') => Agree(log, log', n)
  BY <1>1, <1>2, <1>3, SMTT(30) DEF Agree
<1>5. LogInv(log')
  BY <1>2, <1>3, <1>4, LogPrefix
<1>. QED  BY <1>1, <1>2, <1>3, <1>4, <1>5

\* The log that a crash leaves holds the values of the history.
LEMMA CrashCommitted ==
  ASSUME TypeInv, QuietInv, NEW whole, CrashedLog(whole),
         CrashFinds(whole) \/ CrashLoses \/ CrashKeeps(whole)
  PROVE  CommittedInv'
<1>0. CommittedInv /\ DurableInv /\ log \in Seq(Record) /\ committed \in [Keys -> Cell]
  BY DEF QuietInv, TypeInv
<1>1. CASE CrashFinds(whole)
  <2>1. PICK t \in DOMAIN txns :
          /\ whole = Append(log, CommitRecord(t, commit_ts + 1)) /\ Len(log') = Len(log) + 1
          /\ committed' = Override(committed, txns[t].writes)
    BY <1>1 DEF CrashFinds
  <2> DEFINE w == txns[t].writes
  <2>2. t \in Nat /\ commit_ts + 1 \in Nat /\ w \in Writes /\ phase = "up"
    BY HandleIs DEF TypeInv
  <2>3. WritesAre(log, Len(log), t, w)
    BY <2>2, ZenonT(30) DEF QuietInv, OpenInv, OpenTxn
  <2> HIDE DEF w
  <2>4. \A k \in Keys : ValueIs(whole, Len(whole), k, Override(committed, w)[k])
    BY <1>0, <2>1, <2>2, <2>3, CommitValue, Zenon DEF CommittedInv
  <2>5. Len(whole) = Len(log') /\ Len(log') \in Nat /\ Agree(whole, log', Len(log'))
    BY <2>1, WholeLog
  <2>6. \A k \in Keys : ValueIs(log', Len(log'), k, Override(committed, w)[k])
    BY <2>4, <2>5, AgreeValue
  <2>. QED  BY <2>1, <2>6 DEF CommittedInv, w
<1>2. CASE CrashLoses
  <2>1. PICK c \in (Len(log') + 1)..Len(log) : log[c].tag = "commit"
    BY <1>2 DEF CrashLoses
  <2>2. c \in UnsyncedCommits
    BY <2>1, WholeLog DEF UnsyncedCommits
  <2>3. UnsyncedCommits = {c} /\ \A k \in Keys : ValueIs(log, c - 1, k, settled[k])
    BY <1>0, <2>2 DEF DurableInv
  <2>4. /\ Len(log') \in Nat /\ c - 1 \in Nat /\ Len(log') <= c - 1
        /\ Len(log') <= Len(log)
    BY <2>1, WholeLog
  <2>5. \A i \in (Len(log') + 1)..(c - 1) : log[i].tag # "commit"
    <3>1. \A i \in (Len(log') + 1)..(c - 1) : i \in (synced + 1)..Len(log) /\ i # c
      BY <2>1, <2>4, WholeLog
    <3>. QED  BY <2>3, <3>1 DEF UnsyncedCommits
  <2>6. \A k \in Keys : ValueIs(log, Len(log'), k, settled[k])
    BY <2>3, <2>4, <2>5, ValueKeeps, SMTT(30)
  <2>7. Agree(log, log', Len(log'))
    BY <2>4, WholeLog
  <2>8. \A k \in Keys : ValueIs(log', Len(log'), k, settled[k])
    BY <2>4, <2>6, <2>7, AgreeValue
  <2>. QED  BY <1>2, <2>8 DEF CrashLoses, CommittedInv
<1>3. CASE CrashKeeps(whole)
  <2>1. \A k \in Keys : ValueIs(log, Len(log), k, committed[k])
    BY <1>0 DEF CommittedInv
  <2>2. Len(log) \in Nat /\ Len(log') \in Nat
    BY WholeLog
  <2>3. \A k \in Keys : ValueIs(log', Len(log'), k, committed[k])
    <3>1. CASE Len(log') <= Len(log)
      <4>1. \A k \in Keys : ValueIs(log, Len(log'), k, committed[k])
        BY <1>3, <2>1, <2>2, <3>1, ValueKeeps DEF CrashKeeps
      <4>2. Agree(log, log', Len(log'))
        BY <2>2, <3>1, WholeLog
      <4>. QED  BY <2>2, <4>1, <4>2, AgreeValue
    <3>2. CASE ~(Len(log') <= Len(log))
      <4>1. /\ Len(log) <= Len(log') /\ Agree(log, whole, Len(log))
            /\ Agree(whole, log', Len(log'))
        BY <2>2, <3>2, WholeLog
      <4>2. \A k \in Keys : ValueIs(whole, Len(log), k, committed[k])
        BY <2>1, <2>2, <4>1, AgreeValue
      <4>3. \A k \in Keys : ValueIs(whole, Len(log'), k, committed[k])
        BY <1>3, <2>2, <4>1, <4>2, ValueKeeps, Zenon DEF CrashKeeps
      <4>. QED  BY <2>2, <4>1, <4>3, AgreeValue
    <3>. QED  BY <3>1, <3>2
  <2>. QED  BY <1>3, <2>3 DEF CrashKeeps, CommittedInv
<1>. QED  BY <1>1, <1>2, <1>3

\* What a crash leaves holds the ids in use and the settled values.
LEMMA CrashDurable ==
  ASSUME TypeInv, QuietInv, NEW whole, CrashedLog(whole),
         CrashFinds(whole) \/ CrashLoses \/ CrashKeeps(whole), used' = used, txns' = <<>>
  PROVE  DurableInv'
<1>0. CommittedInv /\ DurableInv
  BY DEF QuietInv
<1>1. synced' \in Nat /\ synced <= synced' /\ (synced' = synced \/ synced' = Len(log'))
  BY WholeLog DEF CrashedLog
<1>2. \A t \in used' : Begins(log', synced', t)
  <2>1. Agree(log, log', synced) /\ synced \in Nat
    BY WholeLog
  <2>2. \A t \in used : Begins(log', synced, t)
    BY <1>0, <2>1, AgreeFacts DEF DurableInv
  <2>. QED  BY <1>1, <2>1, <2>2, Earlier
<1>3. CASE synced' = Len(log')
  <2>1. (Len(log') + 1)..Len(log') = {}
    BY WholeLog
  <2>2. UnsyncedCommits' = {}
    BY <1>3, <2>1 DEF UnsyncedCommits
  <2>. QED  BY <1>2, <2>2 DEF DurableInv
<1>4. CASE synced' = synced
  <2>1. ASSUME NEW c \in UnsyncedCommits', c <= Len(log) PROVE c \in UnsyncedCommits
    <3>1. c \in (synced + 1)..Len(log') /\ log'[c].tag = "commit"
      BY <1>4, <2>1 DEF UnsyncedCommits
    <3>2. c \in Nat /\ c <= Len(log') /\ c \in (synced + 1)..Len(log) /\ c \in 1..c
      BY <2>1, <3>1, WholeLog
    <3>3. Agree(log, log', c)
      BY <2>1, <3>2, WholeLog
    <3>4. log'[c] = log[c]
      BY <3>2, <3>3 DEF Agree
    <3>. QED  BY <3>1, <3>2, <3>4 DEF UnsyncedCommits
  <2>2. \A c \in UnsyncedCommits' : /\ c \in Nat /\ c > synced /\ c <= Len(log') /\ c >= 1
                                    /\ log'[c].tag = "commit"
    BY <1>4, WholeLog DEF UnsyncedCommits
  <2>3. CASE CrashFinds(whole)
    <3>1. Len(log') = Len(log) + 1 /\ settled' = committed /\ txns # <<>> /\ Len(log) \in Nat
      BY <2>3, NoWrites, WholeLog DEF CrashFinds
    <3>2. UnsyncedCommits = {}
      BY <1>0, <3>1 DEF DurableInv
    <3>3. \A c \in UnsyncedCommits' : c = Len(log) + 1
      BY <2>1, <2>2, <3>1, <3>2
    <3>4. Agree(log, log', Len(log))
      BY <3>1, WholeLog
    <3>5. \A k \in Keys : ValueIs(log', Len(log), k, committed[k])
      BY <1>0, <3>1, <3>4, AgreeValue DEF CommittedInv
    <3>6. ASSUME NEW c \in UnsyncedCommits'
          PROVE  UnsyncedCommits' = {c} /\ \A k \in Keys : ValueIs(log', c - 1, k, settled'[k])
      <4>1. c - 1 = Len(log) /\ UnsyncedCommits' = {c}
        BY <3>1, <3>3
      <4>. QED  BY <3>1, <3>5, <4>1
    <3>. QED  BY <1>2, <3>6 DEF DurableInv
  <2>4. CASE CrashLoses
    <3>1. PICK d \in (Len(log') + 1)..Len(log) : log[d].tag = "commit"
      BY <2>4 DEF CrashLoses
    <3>2. d \in UnsyncedCommits
      BY <3>1, WholeLog DEF UnsyncedCommits
    <3>3. UnsyncedCommits = {d}
      BY <1>0, <3>2 DEF DurableInv
    <3>4. UnsyncedCommits' = {}
      <4>1. ASSUME NEW c \in UnsyncedCommits' PROVE FALSE
        <5>1. c <= Len(log) /\ c # d
          BY <2>2, <3>1, WholeLog
        <5>. QED  BY <2>1, <3>3, <5>1
      <4>. QED  BY <4>1
    <3>. QED  BY <1>2, <3>4 DEF DurableInv
  <2>5. CASE CrashKeeps(whole)
    <3>1. ASSUME NEW c \in UnsyncedCommits'
          PROVE  /\ c \in UnsyncedCommits /\ c - 1 \in Nat
                 /\ c - 1 <= Len(log) /\ c - 1 <= Len(log')
      <4>1. c <= Len(log)
        <5>1. ASSUME ~(c <= Len(log)) PROVE FALSE
          <6>1. c \in (Len(log) + 1)..Len(log') /\ c \in 1..Len(log')
            BY <2>2, <5>1, WholeLog
          <6>2. log'[c] = whole[c]
            BY <6>1 DEF CrashedLog
          <6>. QED  BY <2>2, <2>5, <6>1, <6>2 DEF CrashKeeps
        <5>. QED  BY <5>1
      <4>. QED  BY <2>1, <2>2, <4>1, WholeLog
    <3>2. ASSUME NEW c \in UnsyncedCommits'
          PROVE  UnsyncedCommits' = {c} /\ \A k \in Keys : ValueIs(log', c - 1, k, settled'[k])
      <4>1. UnsyncedCommits = {c} /\ \A k \in Keys : ValueIs(log, c - 1, k, settled[k])
        BY <1>0, <3>1 DEF DurableInv
      <4>2. UnsyncedCommits' = {c}
        BY <3>1, <4>1
      <4>3. Agree(log, log', c - 1)
        BY <3>1, WholeLog
      <4>4. \A k \in Keys : ValueIs(log', c - 1, k, settled[k])
        BY <3>1, <4>1, <4>3, AgreeValue
      <4>. QED  BY <2>5, <4>2, <4>4 DEF CrashKeeps
    <3>. QED  BY <1>2, <3>2 DEF DurableInv
  <2>. QED  BY <2>3, <2>4, <2>5
<1>. QED  BY <1>1, <1>3, <1>4

\* Replay starts with empty tables.
LEMMA StartReplays ==
  ASSUME LogInv(log)', Len(log') \in Nat, pos' = 1, pending' = <<>>, commit_ts' = 0,
         \A k \in Keys : versions'[k] = <<>>
  PROVE  ReplayInv'
<1>1. \A k \in Keys : Shown(versions'[k], commit_ts') = None
  BY EmptyChain
<1>2. \A k \in Keys : ValueIs(log', 0, k, None)
  BY DEF ValueIs
<1>3. DOMAIN pending' = {}
  BY NoWrites
<1>4. \A i \in (0 + 1)..Len(log') : log'[i].tag = "commit" => log'[i].ts > commit_ts'
  BY DEF LogInv
<1>5. pos' - 1 = 0 /\ pos' - 1 <= Len(log') /\ 1..0 = {}
  OBVIOUS
<1>. QED  BY <1>1, <1>2, <1>3, <1>4, <1>5 DEF ReplayInv, Replayed

\* A crash leaves a log that replay accepts.
LEMMA CrashQuiet ==
  ASSUME TypeInv, QuietInv, Crash
  PROVE  QuietInv'
<1>1. PICK whole : CrashedLog(whole) /\ (CrashFinds(whole) \/ CrashLoses \/ CrashKeeps(whole))
  BY CrashIs
<1>2. /\ phase' = "replay" /\ pos' = 1 /\ pending' = <<>> /\ commit_ts' = 0
      /\ txns' = <<>> /\ used' = used /\ \A k \in Keys : versions'[k] = <<>>
  BY DEF Crash, StartOpen
<1>3. LogInv(log)' /\ Len(log') \in Nat
  BY <1>1, WholeLog
<1>4. ReplayInv'
  BY <1>2, <1>3, StartReplays
<1>5. CommittedInv'
  BY <1>1, CrashCommitted
<1>6. DurableInv'
  BY <1>1, <1>2, CrashDurable
<1>. QED  BY <1>2, <1>3, <1>4, <1>5, <1>6 DEF QuietInv

-----------------------------------------------------------------------------
\* The invariant holds for an empty store.
LEMMA InitQuiet == Init => IInv
<1> SUFFICES ASSUME Init PROVE IInv
  OBVIOUS
<1>1. /\ log = <<>> /\ synced = 0 /\ phase = "replay" /\ pos = 1 /\ pending = <<>>
      /\ commit_ts = 0 /\ used = {} /\ txns = <<>>
      /\ \A k \in Keys : versions[k] = <<>> /\ committed[k] = None
  BY DEF Init
<1>2. Len(log) = 0 /\ 1..0 = {} /\ (0 + 1)..0 = {} /\ pos - 1 = 0
  BY <1>1
<1>3. LogInv(log)
  BY <1>2 DEF LogInv
<1>4. CommittedInv
  BY <1>1, <1>2 DEF CommittedInv, ValueIs
<1>5. UnsyncedCommits = {}
  BY <1>1, <1>2 DEF UnsyncedCommits
<1>6. DurableInv
  BY <1>1, <1>5 DEF DurableInv
<1>7. ReplayInv
  <2>1. \A k \in Keys : Shown(versions[k], commit_ts) = None
    BY <1>1, EmptyChain
  <2>2. DOMAIN pending = {}
    BY <1>1, NoWrites
  <2>. QED  BY <1>1, <1>2, <2>1, <2>2 DEF ReplayInv, Replayed, ValueIs
<1>8. TypeInv
  BY InitType
<1>. QED  BY <1>1, <1>3, <1>4, <1>6, <1>7, <1>8 DEF IInv, QuietInv

\* No operation but one that meets an error the code does not withstand
\* disturbs the log.
LEMMA NextQuiet ==
  ASSUME SetFacts, TypeInv, QuietInv, Next, seen' = {}
  PROVE  QuietInv'
<1>1. UNCHANGED bound
  BY DEF Next
<1>2. CASE ReplayFails
  BY <1>2, NotRejected DEF ReplayFails, Recoverable
<1>3. CASE \E t \in DOMAIN txns : CommitSyncFails(t)
  BY <1>3 DEF CommitSyncFails, Error
<1>4. CASE AppendFails
  BY <1>4 DEF AppendFails, Error
<1>5. CASE \E t \in DOMAIN txns : \/ \E k \in Keys, value \in Cell : set(t, k, value)
                                  \/ commit(t) \/ abort(t) \/ AbortSyncFails(t) \/ drop(t)
  BY <1>1, <1>5, SetQuiet, CommitQuiet, AbortQuiet, DropQuiet
<1>6. CASE ReplayRecord \/ FinishOpen \/ begin \/ BeginSyncFails \/ gc \/ Crash
  BY <1>6, ReplayRecordQuiet, FinishOpenQuiet, BeginQuiet, BeginSyncFailsQuiet, GcQuiet,
     CrashQuiet
<1>. QED  BY <1>2, <1>3, <1>4, <1>5, <1>6 DEF Next

\* A condition that the code does not withstand is remembered.
LEMMA SeenGrows ==
  ASSUME [Next]_vars, seen' = {}
  PROVE  seen = {}
<1>1. CASE Next
  BY Zenon, <1>1 DEF Next, ReplayRecord, ReplayFails, FinishOpen, begin, BeginSyncFails, set, commit,
     CommitSyncFails, abort, AbortSyncFails, drop, AppendFails, gc, Crash, Error, history
<1>2. CASE UNCHANGED vars
  BY <1>2 DEF vars
<1>. QED  BY <1>1, <1>2

\* Without a step nothing changes.
LEMMA StutterQuiet ==
  ASSUME QuietInv, UNCHANGED vars
  PROVE  QuietInv'
<1>1. UNCHANGED <<log, synced, phase, pos, versions, next_txn, commit_ts, pending, txns, committed,
                  settled, used>>
  BY DEF vars
<1>2. OpenInv => OpenInv'
  BY <1>1 DEF OpenInv, OpenTxn
<1>3. ReplayInv => ReplayInv'
  BY <1>1, Zenon DEF ReplayInv, Replayed, PendingTxn
<1>4. CommittedInv => CommittedInv'
  BY <1>1 DEF CommittedInv
<1>5. UnsyncedCommits' = UnsyncedCommits
  BY <1>1 DEF UnsyncedCommits
<1>6. DurableInv => DurableInv'
  BY <1>1, <1>5 DEF DurableInv
<1>. QED  BY <1>1, <1>2, <1>3, <1>4, <1>6 DEF QuietInv

\* Every step keeps the invariant.
LEMMA NextKeeps ==
  ASSUME SetFacts, IInv, [Next]_vars
  PROVE  IInv'
<1>1. TypeInv /\ TypeInv'
  BY NextType DEF IInv
<1>2. ASSUME seen' = {} PROVE QuietInv'
  <2>1. QuietInv
    BY <1>2, SeenGrows DEF IInv
  <2>. QED  BY <1>1, <1>2, <2>1, NextQuiet, StutterQuiet
<1>. QED  BY <1>1, <1>2 DEF IInv

-----------------------------------------------------------------------------
\* Snapshot isolation.

\* What a transaction with handle x reads when the chains are vs, and the keys
\* that have changed since it began.
ViewOf(x, vs) ==
  [k \in Keys |-> IF k \in DOMAIN x.writes THEN x.writes[k] ELSE Shown(vs[k], x.snapshot)]

StaleOf(x, vs) == {k \in Keys : Changed(vs[k]) > x.snapshot}

\* The abstract state.
Views == [t \in DOMAIN txns |-> [k \in Keys |-> get(t, k)]]

Written == [t \in DOMAIN txns |-> DOMAIN txns[t].writes]

Stale ==
  [t \in DOMAIN txns |-> {k \in Keys : latest_change(k) > txns[t].snapshot}]

\* The abstract views are ViewOf of the handles.
LEMMA ViewsAre ==
  /\ Views = [t \in DOMAIN txns |-> ViewOf(txns[t], versions)]
  /\ Views' = [t \in DOMAIN txns' |-> ViewOf(txns'[t], versions')]
<1>1. ASSUME NEW t, NEW k \in Keys PROVE get(t, k) = ViewOf(txns[t], versions)[k]
  BY DEF get, visible_value, ViewOf, Shown
<1>2. ASSUME NEW t, NEW k \in Keys PROVE get(t, k)' = ViewOf(txns'[t], versions')[k]
  BY DEF get, visible_value, ViewOf, Shown
<1>3. \A x, vs : ViewOf(x, vs) = [k \in Keys |-> ViewOf(x, vs)[k]]
  BY DEF ViewOf
<1>4. \A t : [k \in Keys |-> get(t, k)] = ViewOf(txns[t], versions)
  BY <1>1, <1>3
<1>5. \A t : [k \in Keys |-> get(t, k)'] = ViewOf(txns'[t], versions')
  BY <1>2, <1>3
<1>. QED  BY <1>4, <1>5, Zenon DEF Views

\* The abstract stale keys are StaleOf of the handles.
LEMMA StaleIs ==
  /\ Stale = [t \in DOMAIN txns |-> StaleOf(txns[t], versions)]
  /\ Stale' = [t \in DOMAIN txns' |-> StaleOf(txns'[t], versions')]
BY DEF Stale, StaleOf, latest_change, Changed

\* The abstract written keys are those the handles buffer.
LEMMA WrittenIs ==
  /\ Written = [t \in DOMAIN txns |-> DOMAIN txns[t].writes]
  /\ Written' = [t \in DOMAIN txns' |-> DOMAIN txns'[t].writes]
BY DEF Written

\* The abstract actions over the abstract state.
LEMMA BeginsAs ==
  ASSUME NEW t, t \notin DOMAIN Views, Views' = With(Views, t, committed),
         Written' = With(Written, t, {}), Stale' = With(Stale, t, {}),
         settled' = committed, committed' = committed
  PROVE  SI!Begin(t)
BY Zenon DEF SI!Begin, SI!With, With, Views, Written, Stale

\* When a step is a Write of SnapshotIsolation.
LEMMA WritesAs ==
  ASSUME NEW t, NEW k, NEW value, t \in DOMAIN Views,
         Views' = [Views EXCEPT ![t][k] = value],
         Written' = [Written EXCEPT ![t] = @ \cup {k}],
         Stale' = Stale, settled' = settled, committed' = committed
  PROVE  SI!Write(t, k, value)
BY DEF SI!Write, Views, Written, Stale

Changes(t) == {k \in Written[t] : Views[t][k] # None \/ committed[k] # None}

\* When a step is a Commit.
LEMMA CommitsAs ==
  ASSUME NEW t, t \in DOMAIN Views, Written[t] \cap Stale[t] = {},
         committed' = [k \in Keys |-> IF k \in Written[t] THEN Views[t][k] ELSE committed[k]],
         settled' = committed',
         Views' = Without(Views, t), Written' = Without(Written, t),
         Stale' = [u \in DOMAIN Stale \ {t} |-> Stale[u] \cup Changes(t)]
  PROVE  SI!Commit(t)
BY DEF SI!Commit, SI!Conflicts, SI!After, SI!Changes, SI!Without, Without, Views, Written, Stale,
   Changes

\* When a step is an Abort.
LEMMA AbortsAs ==
  ASSUME NEW t, t \in DOMAIN Views,
         Views' = Without(Views, t), Written' = Without(Written, t), Stale' = Without(Stale, t),
         settled' = settled, committed' = committed
  PROVE  SI!Abort(t)
BY DEF SI!Abort, SI!Without, Without, Views, Written, Stale

\* When a step is a Crash.
LEMMA CrashesAs ==
  ASSUME \/ committed' = committed /\ settled' = settled
         \/ \E t \in DOMAIN Views :
              /\ Written[t] \cap Stale[t] = {}
              /\ committed' = [k \in Keys |-> IF k \in Written[t] THEN Views[t][k]
                                                                  ELSE committed[k]]
              /\ settled' = committed
         \/ committed' = settled /\ settled' = settled,
         Views' = <<>>, Written' = <<>>, Stale' = <<>>
  PROVE  SI!Crash
BY DEF SI!Crash, SI!Conflicts, SI!After, Views, Written, Stale

\* When a step changes nothing of SnapshotIsolation.
LEMMA StuttersAs ==
  ASSUME committed' = committed, settled' = settled, Views' = Views, Written' = Written,
         Stale' = Stale
  PROVE  UNCHANGED SI!vars
BY DEF SI!vars, Views, Written, Stale

-----------------------------------------------------------------------------
\* Steps that end no transaction and change no view.

\* Without open transactions there are no views.
LEMMA NoTxns ==
  /\ txns = <<>> => Views = <<>> /\ Written = <<>> /\ Stale = <<>>
  /\ txns' = <<>> => Views' = <<>> /\ Written' = <<>> /\ Stale' = <<>>
<1>1. ASSUME NEW f, DOMAIN f = {}, f = [x \in DOMAIN f |-> f[x]] PROVE f = <<>>
  BY <1>1
<1>2. /\ DOMAIN Views = DOMAIN txns /\ DOMAIN Written = DOMAIN txns /\ DOMAIN Stale = DOMAIN txns
      /\ Views = [x \in DOMAIN Views |-> Views[x]] /\ Stale = [x \in DOMAIN Stale |-> Stale[x]]
      /\ Written = [x \in DOMAIN Written |-> Written[x]]
  BY DEF Views, Written, Stale
<1>3. /\ DOMAIN Views' = DOMAIN txns' /\ DOMAIN Written' = DOMAIN txns'
      /\ DOMAIN Stale' = DOMAIN txns'
      /\ Views' = [x \in DOMAIN Views' |-> Views'[x]]
      /\ Stale' = [x \in DOMAIN Stale' |-> Stale'[x]]
      /\ Written' = [x \in DOMAIN Written' |-> Written'[x]]
  BY DEF Views, Written, Stale
<1>. QED  BY <1>1, <1>2, <1>3, NoWrites

\* Recovery: there are no transactions.
LEMMA ReplayStutters ==
  ASSUME TypeInv, ReplayRecord \/ ReplayFails \/ FinishOpen
  PROVE  UNCHANGED SI!vars
<1>1. phase = "replay" /\ txns' = txns /\ committed' = committed /\ settled' = settled
  BY Zenon DEF ReplayRecord, ReplayFails, FinishOpen, history
<1>2. txns = <<>>
  BY <1>1 DEF TypeInv
<1>. QED  BY <1>1, <1>2, NoTxns, StuttersAs

\* A begin whose fsync fails shows nothing to anyone.
LEMMA BeginSyncFailsStutters ==
  ASSUME BeginSyncFails
  PROVE  UNCHANGED SI!vars
<1>1. txns' = txns /\ committed' = committed /\ settled' = settled /\ versions' = versions
  BY DEF BeginSyncFails
<1>2. Views' = Views /\ Written' = Written /\ Stale' = Stale
  BY <1>1, ViewsAre, WrittenIs, StaleIs
<1>. QED  BY <1>1, <1>2, StuttersAs

\* Garbage collection leaves what the open transactions see.
LEMMA GcStutters ==
  ASSUME SetFacts, TypeInv, gc
  PROVE  UNCHANGED SI!vars
<1>1. txns' = txns /\ committed' = committed /\ settled' = settled
  BY GcIs
<1>2. commit_ts \in Nat /\ watermark \in Nat
  BY WatermarkIs DEF TypeInv
<1>3. ASSUME NEW t \in DOMAIN txns, NEW k \in Keys
      PROVE  /\ Shown(versions'[k], txns[t].snapshot) = Shown(versions[k], txns[t].snapshot)
             /\ Changed(versions'[k]) > txns[t].snapshot
                  <=> Changed(versions[k]) > txns[t].snapshot
  <2>1. Chain(versions[k], commit_ts) /\ versions'[k] = Reclaimed(versions[k], watermark)
    BY GcIs DEF TypeInv
  <2>2. txns[t].snapshot \in Nat /\ watermark <= txns[t].snapshot
    BY HandleIs, WatermarkIs
  <2>3. watermark <= txns[t].snapshot + 1
    BY <1>2, <2>2
  <2>. QED  BY <1>2, <2>1, <2>2, <2>3, ReclaimedSame
<1>4. \A t \in DOMAIN txns : /\ ViewOf(txns[t], versions') = ViewOf(txns[t], versions)
                             /\ StaleOf(txns[t], versions') = StaleOf(txns[t], versions)
  BY <1>3 DEF ViewOf, StaleOf
<1>5. Views' = Views /\ Stale' = Stale
  BY <1>1, <1>4, ViewsAre, StaleIs
<1>6. Written' = Written
  BY <1>1, WrittenIs
<1>. QED  BY <1>1, <1>5, <1>6, StuttersAs

-----------------------------------------------------------------------------
\* A new transaction sees the committed values, and nothing is stale for it.
LEMMA BeginImplements ==
  ASSUME TypeInv, QuietInv, begin
  PROVE  \E n \in Ids : SI!Begin(n)
<1>0. PICK n : n = next_txn
  OBVIOUS
<1> DEFINE x == [snapshot |-> commit_ts, writes |-> <<>>]
<1>1. /\ phase = "up" /\ n \in 1..bound.txn
      /\ DOMAIN txns' = DOMAIN txns \cup {n} /\ txns'[n] = x
      /\ \A u \in DOMAIN txns : u # n => txns'[u] = txns[u]
      /\ settled' = committed /\ committed' = committed /\ versions' = versions
  BY <1>0, BeginIs
<1>2. OpenInv /\ commit_ts \in Nat /\ committed \in [Keys -> Cell]
  BY <1>1 DEF QuietInv, TypeInv
<1>3. n \in Ids
  BY <1>1, BoundIs
<1>4. n \notin DOMAIN txns
  BY <1>0, <1>2, OpenIdBelow
<1>5. ViewOf(x, versions) = committed
  BY <1>2, NoWrites DEF ViewOf, OpenInv
<1>6. StaleOf(x, versions) = {}
  <2>1. ASSUME NEW k \in Keys PROVE ~(Changed(versions[k]) > commit_ts)
    <3>1. Chain(versions[k], commit_ts)
      BY DEF TypeInv
    <3>2. Changed(versions[k]) \in Nat /\ Changed(versions[k]) <= commit_ts
      BY <1>2, <3>1, ChangedBound
    <3>. QED  BY <1>2, <3>2
  <2>. QED  BY <2>1 DEF StaleOf
<1>7. x.writes = <<>>
  OBVIOUS
<1> HIDE DEF x
<1>8. \A u \in DOMAIN txns' : txns'[u] = IF u = n THEN x ELSE txns[u]
  BY <1>1
<1>9. Views' = With(Views, n, committed)
  BY <1>1, <1>4, <1>5, <1>8, ViewsAre, SMTT(30) DEF With
<1>10. Written' = With(Written, n, {})
  BY <1>1, <1>4, <1>7, <1>8, WrittenIs, NoWrites, SMTT(30) DEF With
<1>11. Stale' = With(Stale, n, {})
  BY <1>1, <1>4, <1>6, <1>8, StaleIs DEF With
<1>12. n \notin DOMAIN Views
  BY <1>4, ViewsAre
<1>13. SI!Begin(n)
  BY <1>1, <1>9, <1>10, <1>11, <1>12, BeginsAs, SMTT(30)
<1>. QED  BY <1>3, <1>13

\* set and delete are writes to the transaction's own view.
LEMMA SetImplements ==
  ASSUME TypeInv, NEW t \in DOMAIN txns, NEW k \in Keys, NEW value \in Cell, set(t, k, value)
  PROVE  SI!Write(t, k, value)
<1>1. /\ DOMAIN txns' = DOMAIN txns /\ \A u \in DOMAIN txns : u # t => txns'[u] = txns[u]
      /\ txns'[t].snapshot = txns[t].snapshot
      /\ txns'[t].writes = With(txns[t].writes, k, value)
      /\ settled' = settled /\ committed' = committed /\ versions' = versions
  BY SetIs
<1>2. /\ DOMAIN txns'[t].writes = DOMAIN txns[t].writes \cup {k}
      /\ \A j \in DOMAIN txns'[t].writes :
           txns'[t].writes[j] = IF j = k THEN value ELSE txns[t].writes[j]
  BY <1>1 DEF With
<1>3. ViewOf(txns'[t], versions) = [ViewOf(txns[t], versions) EXCEPT ![k] = value]
  BY <1>1, <1>2, ZenonT(30) DEF ViewOf
<1>4. \A u \in DOMAIN txns : StaleOf(txns'[u], versions) = StaleOf(txns[u], versions)
  BY <1>1 DEF StaleOf
<1>5. Views' = [Views EXCEPT ![t][k] = value]
  <2>1. Views[t] = ViewOf(txns[t], versions) /\ t \in DOMAIN Views
    BY ViewsAre
  <2>2. [Views EXCEPT ![t][k] = value] =
          [u \in DOMAIN txns |-> IF u = t THEN [Views[t] EXCEPT ![k] = value] ELSE Views[u]]
    BY ViewsAre
  <2>3. \A u \in DOMAIN txns :
          ViewOf(txns'[u], versions) =
            IF u = t THEN [Views[t] EXCEPT ![k] = value] ELSE Views[u]
    BY <1>1, <1>3, <2>1, ViewsAre
  <2>. QED  BY <1>1, <2>2, <2>3, ViewsAre
<1>6. Written' = [Written EXCEPT ![t] = @ \cup {k}]
  BY <1>1, <1>2, WrittenIs, Zenon
<1>7. Stale' = Stale
  BY <1>1, <1>4, StaleIs
<1>8. t \in DOMAIN Views
  BY ViewsAre
<1>. QED  BY <1>1, <1>5, <1>6, <1>7, <1>8, WritesAs, ZenonT(30)

\* Abort, a refused commit and a dropped handle.
LEMMA AbortImplements ==
  ASSUME TypeInv, NEW t \in DOMAIN txns, abort(t) \/ AbortSyncFails(t) \/ drop(t), UNCHANGED bound
  PROVE  SI!Abort(t)
<1>1. /\ Finish(t) /\ settled' = settled /\ committed' = committed
      /\ UNCHANGED <<phase, commit_ts, versions>>
  BY DEF abort, AbortSyncFails, drop, history
<1>2. DOMAIN txns' = DOMAIN txns \ {t} /\ \A u \in DOMAIN txns' : txns'[u] = txns[u]
  BY <1>1, FinishIs, ZenonT(30)
<1>3. Views' = Without(Views, t)
  BY <1>1, <1>2, ViewsAre DEF Without
<1>4. Written' = Without(Written, t)
  BY <1>1, <1>2, WrittenIs DEF Without
<1>5. Stale' = Without(Stale, t)
  BY <1>1, <1>2, StaleIs DEF Without
<1>6. t \in DOMAIN Views
  BY ViewsAre
<1>. QED  BY <1>1, <1>3, <1>4, <1>5, <1>6, AbortsAs, SMTT(30)

\* A transaction that the conflict check lets commit changes no key that has
\* changed since it began, and what it commits is what it reads.
LEMMA NoConflict ==
  ASSUME TypeInv, NEW t \in DOMAIN txns, ~conflicts(t)
  PROVE  /\ t \in DOMAIN Views /\ Written[t] = DOMAIN txns[t].writes
         /\ Written[t] \cap Stale[t] = {}
         /\ \A k \in DOMAIN txns[t].writes : k \in Keys /\ Views[t][k] = txns[t].writes[k]
         /\ Override(committed, txns[t].writes) =
              [k \in Keys |-> IF k \in Written[t] THEN Views[t][k] ELSE committed[k]]
<1>1. t \in DOMAIN Views /\ Views[t] = ViewOf(txns[t], versions)
  BY ViewsAre
<1>2. Written[t] = DOMAIN txns[t].writes
  BY WrittenIs
<1>3. DOMAIN txns[t].writes \subseteq Keys
  BY HandleIs, WritesAreFunctions
<1>4. Stale[t] = StaleOf(txns[t], versions)
  BY StaleIs
<1>5. Written[t] \cap Stale[t] = {}
  BY <1>2, <1>4, VisibleIs DEF conflicts, StaleOf
<1>6. \A k \in DOMAIN txns[t].writes : k \in Keys /\ Views[t][k] = txns[t].writes[k]
  BY <1>1, <1>3 DEF ViewOf
<1>7. DOMAIN committed = Keys
  BY DEF TypeInv
<1>. QED  BY <1>1, <1>2, <1>5, <1>6, <1>7 DEF Override

\* A commit leaves the views of the others as they are; the keys it changes
\* become stale for them.
LEMMA CommitImplements ==
  ASSUME TypeInv, QuietInv, NEW t \in DOMAIN txns, commit(t), UNCHANGED bound
  PROVE  SI!Commit(t)
<1> DEFINE w == txns[t].writes
<1>1. /\ Finish(t) /\ phase = "up" /\ ~conflicts(t)
      /\ versions' = apply_versions(w, commit_ts + 1)
      /\ committed' = Override(committed, w) /\ settled' = committed'
  BY DEF commit
<1>2. DOMAIN txns' = DOMAIN txns \ {t} /\ \A u \in DOMAIN txns' : txns'[u] = txns[u]
  BY <1>1 DEF Finish, Without
<1>3. commit_ts \in Nat /\ commit_ts + 1 \in Nat /\ commit_ts < commit_ts + 1
  BY DEF TypeInv
<1>4. w \in [DOMAIN w -> Cell] /\ DOMAIN w \subseteq Keys
  BY HandleIs, WritesAreFunctions
<1>5. OpenInv
  BY <1>1 DEF QuietInv
<1>6. /\ t \in DOMAIN Views /\ Written[t] = DOMAIN w /\ Written[t] \cap Stale[t] = {}
      /\ \A k \in DOMAIN w : k \in Keys /\ Views[t][k] = w[k]
      /\ Override(committed, w) =
           [k \in Keys |-> IF k \in Written[t] THEN Views[t][k] ELSE committed[k]]
  BY <1>1, NoConflict
<1> HIDE DEF w
<1>7. ASSUME NEW k \in Keys
      PROVE  /\ \A s \in Nat : s <= commit_ts => Shown(versions'[k], s) = Shown(versions[k], s)
             /\ \A s \in Nat : s <= commit_ts =>
                  (Changed(versions'[k]) > s <=> Changed(versions[k]) > s \/ k \in Changes(t))
  <2>1. Chain(versions[k], commit_ts) /\ Shown(versions[k], commit_ts) = committed[k]
    BY <1>5 DEF TypeInv, OpenInv
  <2>2. CASE k \notin DOMAIN w
    <3>1. versions'[k] = versions[k]
      BY <1>1, <2>2, ApplyIs
    <3>2. k \notin Changes(t)
      BY <1>6, <2>2 DEF Changes
    <3>. QED  BY <3>1, <3>2
  <2>3. CASE k \in DOMAIN w
    <3>1. versions'[k] = Applied(versions[k], w[k], commit_ts + 1) /\ w[k] \in Cell
      BY <1>1, <1>4, <2>3, ApplyIs, SMTT(30)
    <3>2. \A s \in Nat : s <= commit_ts => Shown(versions'[k], s) = Shown(versions[k], s)
      BY <1>3, <2>1, <3>1, ShownBefore, SMTT(30)
    <3>3. Changed(versions'[k]) = IF w[k] # None \/ committed[k] # None THEN commit_ts + 1
                                                                      ELSE Changed(versions[k])
      BY <1>3, <2>1, <3>1, ChangedAfter, SMTT(30)
    <3>4. k \in Changes(t) <=> w[k] # None \/ committed[k] # None
      BY <1>6, <2>3 DEF Changes
    <3>5. \A s \in Nat : s <= commit_ts => commit_ts + 1 > s
      BY <1>3
    <3>. QED  BY <3>2, <3>3, <3>4, <3>5
  <2>. QED  BY <2>2, <2>3
<1>8. \A u \in DOMAIN txns : txns[u].snapshot \in Nat /\ txns[u].snapshot <= commit_ts
  BY HandleIs
<1>9. ASSUME NEW u \in DOMAIN txns
      PROVE  /\ ViewOf(txns[u], versions') = ViewOf(txns[u], versions)
             /\ StaleOf(txns[u], versions') = StaleOf(txns[u], versions) \cup Changes(t)
  <2>1. \A k \in Keys : Shown(versions'[k], txns[u].snapshot) = Shown(versions[k], txns[u].snapshot)
    BY <1>7, <1>8
  <2>2. \A k \in Keys : Changed(versions'[k]) > txns[u].snapshot
                          <=> Changed(versions[k]) > txns[u].snapshot \/ k \in Changes(t)
    BY <1>7, <1>8
  <2>3. Changes(t) \subseteq Keys
    BY <1>4, <1>6 DEF Changes
  <2>4. ViewOf(txns[u], versions') = ViewOf(txns[u], versions)
    BY <2>1 DEF ViewOf
  <2>5. StaleOf(txns[u], versions') = StaleOf(txns[u], versions) \cup Changes(t)
    BY <2>2, <2>3 DEF StaleOf
  <2>. QED  BY <2>4, <2>5
<1>10. Views' = Without(Views, t)
  BY <1>2, <1>9, ViewsAre DEF Without
<1>11. Written' = Without(Written, t)
  BY <1>2, WrittenIs DEF Without
<1>12. Stale' = [u \in DOMAIN Stale \ {t} |-> Stale[u] \cup Changes(t)]
  BY <1>2, <1>9, StaleIs
<1>. QED  BY <1>1, <1>6, <1>10, <1>11, <1>12, CommitsAs

\* A crash ends all transactions and may keep the commit that it catches.
LEMMA CrashImplements ==
  ASSUME TypeInv, Crash
  PROVE  SI!Crash
<1>1. PICK whole : CrashFinds(whole) \/ CrashLoses \/ CrashKeeps(whole)
  BY CrashIs
<1>2. Views' = <<>> /\ Written' = <<>> /\ Stale' = <<>>
  BY NoTxns DEF Crash
<1>3. CASE CrashFinds(whole)
  <2>1. PICK t \in DOMAIN txns : /\ ~conflicts(t) /\ settled' = committed
                                 /\ committed' = Override(committed, txns[t].writes)
    BY <1>3 DEF CrashFinds
  <2>2. /\ t \in DOMAIN Views /\ Written[t] \cap Stale[t] = {}
        /\ committed' = [k \in Keys |-> IF k \in Written[t] THEN Views[t][k] ELSE committed[k]]
    BY <2>1, NoConflict
  <2>. QED  BY <1>2, <2>1, <2>2, CrashesAs
<1>4. CASE CrashLoses \/ CrashKeeps(whole)
  BY <1>2, <1>4, CrashesAs DEF CrashLoses, CrashKeeps
<1>. QED  BY <1>1, <1>3, <1>4

-----------------------------------------------------------------------------
\* An empty store is an empty database.
LEMMA InitImplements == Init => SI!Init
<1> SUFFICES ASSUME Init PROVE SI!Init
  OBVIOUS
<1>1. Views = <<>> /\ Written = <<>> /\ Stale = <<>>
  BY NoTxns DEF Init
<1>2. committed = [k \in Keys |-> None] /\ settled = committed
  BY DEF Init
<1>. QED  BY <1>1, <1>2 DEF SI!Init, Views, Written, Stale

\* Every step is one of SnapshotIsolation or shows nothing.
LEMMA StepImplements ==
  ASSUME SetFacts, TypeInv, seen = {} => QuietInv, Next, seen' = {}
  PROVE  SI!Next \/ UNCHANGED SI!vars
<1>0. QuietInv
  BY SeenGrows
<1>1. UNCHANGED bound /\ \A t \in DOMAIN txns : t \in Ids
  BY BoundIs DEF Next, TypeInv
<1>2. CASE ReplayRecord \/ ReplayFails \/ FinishOpen \/ BeginSyncFails \/ gc
  BY <1>2, ReplayStutters, BeginSyncFailsStutters, GcStutters
<1>3. CASE begin
  BY <1>0, <1>3, BeginImplements DEF SI!Next
<1>4. ASSUME NEW t \in DOMAIN txns, \E k \in Keys, value \in Cell : set(t, k, value)
      PROVE  SI!Next
  BY <1>1, <1>4, SetImplements DEF SI!Next, SI!Cell, Cell
<1>5. ASSUME NEW t \in DOMAIN txns, commit(t) \/ abort(t) \/ AbortSyncFails(t) \/ drop(t)
      PROVE  SI!Next
  BY <1>0, <1>1, <1>5, CommitImplements, AbortImplements, SMTT(30) DEF SI!Next
<1>6. CASE (\E t \in DOMAIN txns : CommitSyncFails(t)) \/ AppendFails
  BY <1>6 DEF CommitSyncFails, AppendFails, Error
<1>7. CASE Crash
  BY <1>7, CrashImplements DEF SI!Next
<1>. QED  BY <1>2, <1>3, <1>4, <1>5, <1>6, <1>7, SMTT(30) DEF Next

-----------------------------------------------------------------------------
\* From here on the library's theorems are in scope.
INSTANCE FiniteSetTheorems
INSTANCE WellFoundedInduction

\* The hypotheses of the lemmas, from the library.
LEMMA SetFactsHold == SetFacts
<1>1. ASSUME NEW T \in SUBSET Nat, T # {} PROVE \E x \in T : \A y \in T : x <= y
  <2> DEFINE R == OpToRel(<, Nat)
  <2>1. PICK x \in T : \A y \in T : ~(<<y, x>> \in R)
    BY <1>1, NatLessThanWellFounded, WFMin, Zenon
  <2>2. \A y \in T : ~(y < x)
    BY <2>1, Zenon DEF OpToRel
  <2> HIDE DEF R
  <2>. QED  BY <2>2
<1>2. \A m, n \in Int : Cardinality(m..n) = IF m > n THEN 0 ELSE n - m + 1
  BY FS_Interval, Zenon
<1>. QED  BY <1>1, <1>2, Zenon DEF SetFacts

\* The types hold always.
LEMMA TypeHolds == Spec => []TypeInv
<1>1. Init => TypeInv
  BY InitType
<1>2. TypeInv /\ [Next]_vars => TypeInv'
  BY NextType, SetFactsHold
<1>. QED  BY <1>1, <1>2, PTL DEF Spec

\* The inductive invariant holds always.
LEMMA Holds == Spec => []IInv
<1>1. IInv /\ [Next]_vars => IInv'
  BY NextKeeps, SetFactsHold
<1>. QED  BY <1>1, InitQuiet, PTL DEF Spec

\* Whatever the disk and the clients do, the versions of a key are ordered by
\* disjoint lifetimes that end no later than the last commit, and only the
\* newest is live (version.rs, apply_versions and gc of txn.rs).
THEOREM ChainsOrdered == Spec => []TypeOK
<1>1. TypeInv => TypeOK
  BY TypeInvIsTypeOK, SMTT(30)
<1>. QED  BY <1>1, TypeHolds, PTL

\* A snapshot is registered exactly while its transaction's handle exists
\* (begin, commit, abort and Drop of txn.rs, also when they fail).
THEOREM OpenIsRegistered == Spec => []ActiveIsOpen
<1>1. TypeInv => ActiveIsOpen
  BY SMTT(30) DEF TypeInv, ActiveIsOpen
<1>. QED  BY <1>1, TypeHolds, PTL

\* An open store shows to a new transaction what has been committed, through
\* any crashes, recoveries and garbage collections, for every set of keys and
\* values (begin, commit, gc and MvccStore::open of txn.rs).
THEOREM OpenShowsCommitted == Spec => []ShowsCommitted
<1>1. IInv => ShowsCommitted
  BY VisibleIs, SMTT(30) DEF IInv, QuietInv, OpenInv, ShowsCommitted
<1>. QED  BY <1>1, Holds, PTL

\* Recovery rejects no log that crashes can leave, wherever they come between
\* an append and its fsync (the replay loop of MvccStore::open).
THEOREM CrashesRecover == Spec => []HandledFaultsRecover
<1>1. IInv => HandledFaultsRecover
  BY NotRejected, SetFactsHold DEF IInv, HandledFaultsRecover
<1>. QED  BY <1>1, Holds, PTL

\* No id that begin has returned is handed out again, in this process or
\* after any recovery (MvccStore::begin and the max_txn of MvccStore::open).
THEOREM NoIdTwice == Spec => []IdsNotReused
<1>1. ASSUME IInv PROVE IdsNotReused
  <2> SUFFICES ASSUME phase = "up", seen = {}, NEW t \in used PROVE t < next_txn
    BY DEF IdsNotReused
  <2>1. TypeInv /\ OpenInv /\ DurableInv
    BY <1>1 DEF IInv, QuietInv
  <2>2. Begins(log, Len(log), t)
    BY <2>1, UsedBegins
  <2>. QED  BY <2>1, <2>2, SMTT(30) DEF OpenInv, Begins
<1>. QED  BY <1>1, Holds, PTL

\* The transaction layer implements snapshot isolation for every set of keys
\* and values and any number of transactions, crashes and handled I/O errors:
\* MvccStore::begin, Transaction::get, set, delete, commit, abort, Drop, gc and
\* MvccStore::open of txn.rs, with the versions of version.rs.
THEOREM SnapshotsIsolated == Spec => ImplementsSI
<1>1. Init => IInv /\ SI!Init
  BY InitQuiet, InitImplements, SMTT(30)
<1>2. IInv /\ [Next]_vars => IInv' /\ [SI!Next \/ seen' # {}]_(SI!vars)
  <2> SUFFICES ASSUME IInv, [Next]_vars
               PROVE  IInv' /\ ((SI!Next \/ seen' # {}) \/ UNCHANGED SI!vars)
    OBVIOUS
  <2>1. IInv'
    BY NextKeeps, SetFactsHold
  <2>2. CASE Next
    <3>1. TypeInv /\ (seen = {} => QuietInv)
      BY DEF IInv
    <3>. QED  BY <2>1, <2>2, <3>1, StepImplements, SetFactsHold, SMTT(30)
  <2>3. CASE UNCHANGED vars
    <3>1. UNCHANGED <<txns, versions, committed, settled>>
      BY <2>3 DEF vars
    <3>2. Views' = Views /\ Written' = Written /\ Stale' = Stale
      BY <3>1, ViewsAre, WrittenIs, StaleIs, SMTT(30)
    <3>. QED  BY <2>1, <3>1, <3>2, StuttersAs, SMTT(30)
  <2>. QED  BY <2>1, <2>2, <2>3, SMTT(30)
<1>. QED  BY <1>1, <1>2, PTL DEF Spec, ImplementsSI

=============================================================================
