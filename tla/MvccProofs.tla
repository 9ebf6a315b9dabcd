----------------------------- MODULE MvccProofs -----------------------------
(***************************************************************************)
(* The transaction layer's version chains, for any keys, values and bounds *)
(* and whatever the disk does: the types, the order of the versions, what  *)
(* a snapshot sees in a chain after a commit and after garbage collection, *)
(* and the registration of open transactions.  Then what a log says of its *)
(* transactions.  The theorems are at the end of MvccIsolationProofs.      *)
(***************************************************************************)
EXTENDS Mvcc, Integers, TLAPS

\* The buffered writes of a transaction, and a transaction's handle.
Writes == UNION {[D -> Cell] : D \in SUBSET Keys}

Handle == [snapshot : Nat, writes : Writes]

VersionOf == [value : Values, created : Nat, deleted : Nat]

Record ==
  [tag : {"begin"}, txn : Nat, snapshot : Nat]
  \cup [tag : {"write"}, txn : Nat, key : Keys, value : Cell]
  \cup [tag : {"commit"}, txn : Nat, ts : Nat]
  \cup [tag : {"abort"}, txn : Nat]
  \cup {Torn}

\* A chain of versions up to timestamp ts: their lifetimes follow one another
\* and do not overlap.
Chain(c, ts) ==
  /\ c \in Seq(VersionOf)
  /\ \A i \in 1..Len(c) :
       /\ c[i].created \in 1..ts
       /\ c[i].deleted = Live \/ c[i].deleted \in (c[i].created + 1)..ts
  /\ \A i, j \in 1..Len(c) :
       i < j => c[i].deleted # Live /\ c[i].deleted <= c[j].created

TypeInv ==
  /\ bound \in Bounds
  /\ log \in Seq(Record)
  /\ synced \in 0..Len(log)
  /\ phase \in {"replay", "up", "failed"}
  /\ pos \in Nat \ {0}
  /\ next_txn \in Nat \ {0}
  /\ commit_ts \in Nat
  /\ \A k \in Keys : Chain(versions[k], commit_ts)
  /\ pending \in [DOMAIN pending -> Writes]
  /\ txns \in [DOMAIN txns -> Handle]
  /\ active \in [DOMAIN txns -> Nat]
  /\ \A t \in DOMAIN txns : /\ t \in 1..bound.txn
                            /\ active[t] = txns[t].snapshot
                            /\ active[t] <= commit_ts
  /\ phase # "up" => txns = <<>>
  /\ committed \in [Keys -> Cell]
  /\ settled \in [Keys -> Cell]

-----------------------------------------------------------------------------
\* Chains.

\* What a snapshot sees in a chain, and when the chain last changed.
Shown(c, s) ==
  LET seenBy == {i \in DOMAIN c : visible_at(c[i], s)}
  IN  IF seenBy = {} THEN None
      ELSE c[CHOOSE i \in seenBy : \A j \in seenBy : j <= i].value

Changed(c) == IF c = <<>> THEN 0 ELSE last_modified(c[Len(c)])

\* The chain c with its current version closed at ts.
Closed(c, ts) ==
  [i \in DOMAIN c |-> IF i = Len(c) /\ c[i].deleted = Live
                        THEN [c[i] EXCEPT !.deleted = ts] ELSE c[i]]

\* What apply_versions does to one chain when v is written.
Applied(c, v, ts) ==
  IF v = None THEN Closed(c, ts) ELSE Append(Closed(c, ts), Version(v, ts))

\* Buffered writes are partial functions from the keys.
LEMMA WritesAreFunctions ==
  ASSUME NEW w
  PROVE  w \in Writes <=> w \in [DOMAIN w -> Cell] /\ DOMAIN w \subseteq Keys
<1>1. ASSUME w \in Writes PROVE w \in [DOMAIN w -> Cell] /\ DOMAIN w \subseteq Keys
  <2>1. PICK D \in SUBSET Keys : w \in [D -> Cell]
    BY <1>1 DEF Writes
  <2>. QED  BY <2>1
<1>2. ASSUME w \in [DOMAIN w -> Cell], DOMAIN w \subseteq Keys PROVE w \in Writes
  <2>1. DOMAIN w \in SUBSET Keys
    BY <1>2
  <2>. QED  BY <1>2, <2>1 DEF Writes
<1>. QED  BY <1>1, <1>2

\* A transaction that has just begun has written nothing.
LEMMA NoWrites ==
  /\ DOMAIN <<>> = {} /\ <<>> \in Writes
  /\ \A S : <<>> \in [DOMAIN <<>> -> S]
<1>1. DOMAIN <<>> = {}
  OBVIOUS
<1>2. \A S : <<>> \in [{} -> S]
  OBVIOUS
<1>. QED  BY <1>1, <1>2, WritesAreFunctions, Zenon

\* The types of a version's fields, and its lifetime within the chain's time.
LEMMA VersionFields ==
  ASSUME NEW c, NEW ts \in Nat, Chain(c, ts), NEW i \in 1..Len(c)
  PROVE  /\ c[i] \in VersionOf /\ c[i].value \in Values
         /\ c[i].created \in Nat /\ c[i].deleted \in Nat
         /\ c[i].created > 0 /\ c[i].created <= ts /\ c[i].deleted <= ts
         /\ c[i].deleted # Live => c[i].deleted > c[i].created
<1>1. c[i] \in VersionOf
  BY DEF Chain
<1>2. c[i].value \in Values /\ c[i].created \in Nat /\ c[i].deleted \in Nat
  BY <1>1 DEF VersionOf
<1>. QED  BY <1>1, <1>2 DEF Chain, Live

\* A chain is a sequence.
LEMMA ChainLength ==
  ASSUME NEW c, NEW ts, Chain(c, ts)
  PROVE  Len(c) \in Nat /\ DOMAIN c = 1..Len(c) /\ (c = <<>> <=> Len(c) = 0)
BY DEF Chain

\* A snapshot sees at most one version of a chain.
LEMMA OneVisible ==
  ASSUME NEW c, NEW ts \in Nat, Chain(c, ts), NEW s \in Nat,
         NEW i \in 1..Len(c), NEW j \in 1..Len(c),
         visible_at(c[i], s), visible_at(c[j], s)
  PROVE  i = j
<1>1. ASSUME NEW a \in 1..Len(c), NEW b \in 1..Len(c), a < b,
             visible_at(c[a], s), visible_at(c[b], s)
      PROVE  FALSE
  <2>1. c[a].deleted # Live /\ c[a].deleted <= c[b].created
    BY <1>1 DEF Chain
  <2>2. c[a].deleted > s /\ c[b].created <= s
    BY <1>1, <2>1 DEF visible_at
  <2>. QED  BY <2>1, <2>2, VersionFields
<1>2. i \in Nat /\ j \in Nat
  BY ChainLength
<1>. QED  BY <1>1, <1>2

\* A snapshot sees the one version whose lifetime it is in, or nothing.
LEMMA ShownIs ==
  ASSUME NEW c, NEW ts \in Nat, Chain(c, ts), NEW s \in Nat
  PROVE  /\ \A i \in 1..Len(c) : visible_at(c[i], s) => Shown(c, s) = c[i].value
         /\ (\A i \in 1..Len(c) : ~visible_at(c[i], s)) => Shown(c, s) = None
         /\ Shown(c, s) \in Cell
<1> DEFINE seenBy == {i \in DOMAIN c : visible_at(c[i], s)}
<1>0. DOMAIN c = 1..Len(c) /\ Len(c) \in Nat
  BY ChainLength
<1>1. ASSUME NEW i \in 1..Len(c), visible_at(c[i], s)
      PROVE  Shown(c, s) = c[i].value
  <2>1. seenBy = {i}
    BY <1>0, <1>1, OneVisible
  <2>2. i <= i
    BY <1>0
  <2>3. (CHOOSE x \in seenBy : \A j \in seenBy : j <= x) = i
    BY <2>1, <2>2
  <2>4. seenBy # {}
    BY <2>1
  <2>5. Shown(c, s) = IF seenBy = {} THEN None
                      ELSE c[CHOOSE x \in seenBy : \A j \in seenBy : j <= x].value
    BY DEF Shown
  <2>. QED  BY <2>3, <2>4, <2>5, Zenon
<1>2. ASSUME \A i \in 1..Len(c) : ~visible_at(c[i], s)
      PROVE  Shown(c, s) = None
  <2>1. seenBy = {}
    BY <1>0, <1>2
  <2>. QED  BY <2>1 DEF Shown
<1>3. Shown(c, s) \in Cell
  BY <1>1, <1>2, VersionFields DEF Cell
<1>. QED  BY <1>1, <1>2, <1>3

\* A chain remains one as time goes on.
LEMMA ChainLater ==
  ASSUME NEW c, NEW ts \in Nat, Chain(c, ts), NEW ts2 \in Nat, ts <= ts2
  PROVE  Chain(c, ts2)
<1>1. \A i \in 1..Len(c) : c[i].created \in Nat /\ c[i].deleted \in Nat
  BY VersionFields
<1>. QED  BY <1>1 DEF Chain

\* A key that was never written shows nothing to anyone.
LEMMA EmptyChain ==
  ASSUME NEW ts \in Nat
  PROVE  /\ Chain(<<>>, ts) /\ Changed(<<>>) = 0
         /\ \A s \in Nat : Shown(<<>>, s) = None
<1>1. Chain(<<>>, ts)
  BY DEF Chain
<1>. QED  BY <1>1, ShownIs DEF Changed

\* After the last commit nothing more changes for later snapshots.
LEMMA ShownLater ==
  ASSUME NEW c, NEW ts \in Nat, Chain(c, ts), NEW s \in Nat, ts <= s
  PROVE  Shown(c, s) = Shown(c, ts)
<1>1. \A i \in 1..Len(c) : visible_at(c[i], s) <=> visible_at(c[i], ts)
  BY VersionFields DEF visible_at
<1>2. CASE \E i \in 1..Len(c) : visible_at(c[i], ts)
  BY <1>1, <1>2, ShownIs
<1>3. CASE \A i \in 1..Len(c) : ~visible_at(c[i], ts)
  BY <1>1, <1>3, ShownIs
<1>. QED  BY <1>2, <1>3

\* Only the newest version of a key is live.
LEMMA LiveIsLast ==
  ASSUME NEW c, NEW ts, Chain(c, ts), NEW i \in 1..Len(c), c[i].deleted = Live
  PROVE  i = Len(c)
<1>1. Len(c) \in Nat
  BY ChainLength
<1>2. ~(i < Len(c))
  BY <1>1 DEF Chain
<1>. QED  BY <1>1, <1>2

\* The last commit is seen where the newest version is live.
LEMMA ShownNow ==
  ASSUME NEW c, NEW ts \in Nat, Chain(c, ts)
  PROVE  Shown(c, ts) # None <=> c # <<>> /\ c[Len(c)].deleted = Live
<1>1. \A i \in 1..Len(c) : visible_at(c[i], ts) <=> c[i].deleted = Live
  BY VersionFields DEF visible_at, Live
<1>2. \A i \in 1..Len(c) : c[i].deleted = Live => i = Len(c)
  BY LiveIsLast
<1>3. \A i \in 1..Len(c) : c[i].value # None
  BY VersionFields, MvccAssumption
<1>4. CASE c # <<>> /\ c[Len(c)].deleted = Live
  <2>1. Len(c) \in 1..Len(c)
    BY <1>4, ChainLength
  <2>. QED  BY <1>1, <1>3, <1>4, <2>1, ShownIs
<1>5. CASE ~(c # <<>> /\ c[Len(c)].deleted = Live)
  <2>1. \A i \in 1..Len(c) : ~visible_at(c[i], ts)
    BY <1>1, <1>2, <1>5, ChainLength
  <2>. QED  BY <1>5, <2>1, ShownIs
<1>. QED  BY <1>4, <1>5

\* latest_change is no later than the last commit.
LEMMA ChangedBound ==
  ASSUME NEW c, NEW ts \in Nat, Chain(c, ts)
  PROVE  Changed(c) \in Nat /\ Changed(c) <= ts
<1>1. CASE c = <<>>
  BY <1>1 DEF Changed
<1>2. CASE c # <<>>
  <2>1. Len(c) \in 1..Len(c)
    BY <1>2, ChainLength
  <2>. QED  BY <1>2, <2>1, VersionFields DEF Changed, last_modified
<1>. QED  BY <1>1, <1>2

\* Closing the live version changes only when it was deleted.
LEMMA ClosedIs ==
  ASSUME NEW c, NEW ts \in Nat, Chain(c, ts), NEW ts2 \in Nat, ts < ts2
  PROVE  /\ Chain(Closed(c, ts2), ts2) /\ Len(Closed(c, ts2)) = Len(c)
         /\ \A i \in 1..Len(c) :
              /\ Closed(c, ts2)[i].value = c[i].value
              /\ Closed(c, ts2)[i].created = c[i].created
              /\ Closed(c, ts2)[i].deleted = IF c[i].deleted = Live THEN ts2 ELSE c[i].deleted
              /\ Closed(c, ts2)[i].deleted \in Nat /\ Closed(c, ts2)[i].deleted > c[i].created
<1> DEFINE d == Closed(c, ts2)
<1>0. Len(c) \in Nat /\ DOMAIN c = 1..Len(c)
  BY ChainLength
<1>1. \A i \in 1..Len(c) : c[i].deleted = Live => i = Len(c)
  BY LiveIsLast
<1>2. ASSUME NEW i \in 1..Len(c)
      PROVE  /\ d[i] \in VersionOf /\ d[i].value = c[i].value /\ d[i].created = c[i].created
             /\ d[i].deleted = IF c[i].deleted = Live THEN ts2 ELSE c[i].deleted
  <2>1. c[i] \in VersionOf
    BY VersionFields
  <2>2. d[i] = IF c[i].deleted = Live THEN [c[i] EXCEPT !.deleted = ts2] ELSE c[i]
    BY <1>0, <1>1 DEF Closed
  <2>. QED  BY <2>1, <2>2 DEF VersionOf
<1>3. d \in Seq(VersionOf) /\ Len(d) = Len(c)
  <2>1. d = [i \in 1..Len(c) |-> d[i]]
    BY <1>0 DEF Closed
  <2> HIDE DEF d
  <2>2. d \in [1..Len(c) -> VersionOf]
    BY <1>2, <2>1
  <2>. QED  BY <1>0, <2>2
<1> HIDE DEF d
<1>4. \A i \in 1..Len(c) : d[i].deleted \in Nat /\ d[i].deleted > c[i].created /\ d[i].deleted <= ts2
  BY <1>2, VersionFields
<1>5. \A i \in 1..Len(c) : d[i].created \in 1..ts2 /\ d[i].deleted \in (d[i].created + 1)..ts2
  BY <1>2, <1>4, VersionFields
<1>6. \A i, j \in 1..Len(c) : i < j => d[i].deleted # Live /\ d[i].deleted <= d[j].created
  BY <1>2 DEF Chain
<1>7. Chain(d, ts2)
  BY <1>3, <1>5, <1>6 DEF Chain
<1>. QED  BY <1>2, <1>3, <1>4, <1>7 DEF d

\* What Append does to a sequence.
LEMMA AppendIs ==
  ASSUME NEW S, NEW s \in Seq(S), NEW x
  PROVE  /\ Len(Append(s, x)) = Len(s) + 1
         /\ \A i \in 1..Len(s) : Append(s, x)[i] = s[i]
         /\ Append(s, x)[Len(s) + 1] = x
         /\ x \in S => Append(s, x) \in Seq(S)
OBVIOUS

\* apply_versions at a later timestamp leaves a chain.
LEMMA AppliedChain ==
  ASSUME NEW c, NEW ts \in Nat, Chain(c, ts), NEW ts2 \in Nat, ts < ts2, NEW v \in Cell
  PROVE  Chain(Applied(c, v, ts2), ts2)
<1> DEFINE d == Closed(c, ts2)
<1>1. Chain(d, ts2) /\ Len(d) = Len(c) /\ \A i \in 1..Len(c) : d[i].deleted # Live
  BY ClosedIs DEF Live
<1>2. CASE v = None
  BY <1>1, <1>2 DEF Applied
<1>3. CASE v # None
  <2> DEFINE e == Append(d, Version(v, ts2))
  <2>1. Version(v, ts2) \in VersionOf
    BY <1>3 DEF Version, VersionOf, Cell, Live
  <2>2. Version(v, ts2).created = ts2 /\ Version(v, ts2).deleted = Live
    BY DEF Version
  <2>3. d \in Seq(VersionOf) /\ Len(d) \in Nat
    BY <1>1, ChainLength DEF Chain
  <2> HIDE DEF d
  <2>4. /\ e \in Seq(VersionOf) /\ Len(e) = Len(d) + 1 /\ e[Len(d) + 1] = Version(v, ts2)
        /\ \A i \in 1..Len(d) : e[i] = d[i]
    BY <2>1, <2>3, AppendIs
  <2> HIDE DEF e
  <2>5. \A i \in 1..Len(e) : i \in 1..Len(d) \/ i = Len(d) + 1
    BY <2>3, <2>4
  <2>6. \A i \in 1..Len(e) : /\ e[i].created \in 1..ts2
                             /\ e[i].deleted = Live \/ e[i].deleted \in (e[i].created + 1)..ts2
    <3>1. ASSUME NEW i \in 1..Len(d)
          PROVE  /\ e[i].created \in 1..ts2
                 /\ e[i].deleted = Live \/ e[i].deleted \in (e[i].created + 1)..ts2
      <4>1. e[i] = d[i]
        BY <2>4
      <4>. QED  BY <1>1, <4>1 DEF Chain
    <3>2. ts2 \in 1..ts2
      OBVIOUS
    <3>3. /\ e[Len(d) + 1].created \in 1..ts2
          /\ e[Len(d) + 1].deleted = Live
      BY <2>2, <2>4, <3>2
    <3>. QED  BY <2>5, <3>1, <3>3
  <2>7. ASSUME NEW i \in 1..Len(e), NEW j \in 1..Len(e), i < j
        PROVE  e[i].deleted # Live /\ e[i].deleted <= e[j].created
    <3>1. i \in 1..Len(d)
      BY <2>3, <2>4, <2>5, <2>7
    <3>2. d[i].deleted # Live /\ d[i].deleted <= ts2
      BY <1>1, <3>1, VersionFields
    <3>3. CASE j \in 1..Len(d)
      BY <1>1, <2>4, <2>7, <3>1, <3>3 DEF Chain
    <3>. QED  BY <2>2, <2>4, <2>5, <3>1, <3>2, <3>3
  <2>8. Chain(e, ts2)
    BY <2>4, <2>6, <2>7, Zenon DEF Chain
  <2>. QED  BY <1>3, <2>8 DEF Applied, e, d
<1>. QED  BY <1>2, <1>3

\* Where the versions of an applied chain come from.
LEMMA AppliedIs ==
  ASSUME NEW c, NEW ts \in Nat, Chain(c, ts), NEW ts2 \in Nat, ts < ts2, NEW v \in Cell
  PROVE  /\ Len(Applied(c, v, ts2)) = IF v = None THEN Len(c) ELSE Len(c) + 1
         /\ \A i \in 1..Len(c) : Applied(c, v, ts2)[i] = Closed(c, ts2)[i]
         /\ v # None => Applied(c, v, ts2)[Len(c) + 1] = Version(v, ts2)
<1>1. Closed(c, ts2) \in Seq(VersionOf) /\ Len(Closed(c, ts2)) = Len(c)
  BY ClosedIs, Zenon DEF Chain
<1>2. CASE v = None
  BY <1>1, <1>2 DEF Applied
<1>3. CASE v # None
  BY <1>1, <1>3, AppendIs DEF Applied
<1>. QED  BY <1>2, <1>3

\* A commit does not change what the snapshots before it see.
LEMMA ShownBefore ==
  ASSUME NEW c, NEW ts \in Nat, Chain(c, ts), NEW ts2 \in Nat, ts < ts2, NEW v \in Cell,
         NEW s \in Nat, s <= ts
  PROVE  Shown(Applied(c, v, ts2), s) = Shown(c, s)
<1> DEFINE e == Applied(c, v, ts2)
<1>0. Chain(e, ts2) /\ Len(c) \in Nat /\ Len(e) \in Nat
  BY AppliedChain, ChainLength
<1>1. ASSUME NEW i \in 1..Len(c)
      PROVE  /\ i \in 1..Len(e) /\ e[i].value = c[i].value
             /\ visible_at(e[i], s) <=> visible_at(c[i], s)
  <2>1. i \in 1..Len(e) /\ e[i] = Closed(c, ts2)[i]
    BY <1>0, AppliedIs
  <2>2. /\ e[i].value = c[i].value /\ e[i].created = c[i].created
        /\ e[i].deleted = IF c[i].deleted = Live THEN ts2 ELSE c[i].deleted
    BY <2>1, ClosedIs
  <2>3. ts2 > s /\ ts2 # 0
    OBVIOUS
  <2>. QED  BY <2>1, <2>2, <2>3, VersionFields DEF visible_at, Live
<1>2. ASSUME NEW i \in 1..Len(e), i \notin 1..Len(c)
      PROVE  ~visible_at(e[i], s)
  <2>0. Len(e) = IF v = None THEN Len(c) ELSE Len(c) + 1
    BY AppliedIs, Zenon
  <2>1. v # None /\ i = Len(c) + 1
    BY <1>0, <1>2, <2>0
  <2>2. e[i] = Version(v, ts2)
    BY <2>1, AppliedIs
  <2>. QED  BY <2>2 DEF Version, visible_at
<1> HIDE DEF e
<1>3. CASE \E i \in 1..Len(c) : visible_at(c[i], s)
  <2>1. PICK i \in 1..Len(c) : visible_at(c[i], s)
    BY <1>3
  <2>2. Shown(c, s) = c[i].value
    BY <2>1, ShownIs
  <2>3. Shown(e, s) = e[i].value
    BY <1>0, <1>1, <2>1, ShownIs
  <2>. QED  BY <1>1, <2>2, <2>3 DEF e
<1>4. CASE \A i \in 1..Len(c) : ~visible_at(c[i], s)
  <2>1. Shown(c, s) = None
    BY <1>4, ShownIs
  <2>2. \A i \in 1..Len(e) : ~visible_at(e[i], s)
    BY <1>1, <1>2, <1>4
  <2>3. Shown(e, s) = None
    BY <1>0, <2>2, ShownIs
  <2>. QED  BY <2>1, <2>3 DEF e
<1>. QED  BY <1>3, <1>4

\* The commit's own timestamp sees what it wrote.
LEMMA ShownAfter ==
  ASSUME NEW c, NEW ts \in Nat, Chain(c, ts), NEW ts2 \in Nat, ts < ts2, NEW v \in Cell
  PROVE  Shown(Applied(c, v, ts2), ts2) = v
<1> DEFINE e == Applied(c, v, ts2)
<1>0. Chain(e, ts2) /\ Len(c) \in Nat
  BY AppliedChain, ChainLength
<1>1. CASE v = None
  <2>1. Len(e) = Len(c) /\ \A i \in 1..Len(c) : e[i] = Closed(c, ts2)[i]
    BY <1>1, AppliedIs
  <2>2. \A i \in 1..Len(e) : e[i].deleted # Live /\ e[i].deleted <= ts2
    BY <1>0, <2>1, ClosedIs, VersionFields DEF Live
  <2>3. \A i \in 1..Len(e) : ~visible_at(e[i], ts2)
    BY <1>0, <2>2, VersionFields DEF visible_at
  <2> HIDE DEF e
  <2>4. Shown(e, ts2) = None
    BY <1>0, <2>3, ShownIs
  <2>. QED  BY <1>1, <2>4 DEF e
<1>2. CASE v # None
  <2>1. Len(c) + 1 \in 1..Len(e) /\ e[Len(c) + 1] = Version(v, ts2)
    BY <1>0, <1>2, AppliedIs
  <2>2. visible_at(e[Len(c) + 1], ts2) /\ e[Len(c) + 1].value = v
    BY <2>1 DEF Version, visible_at
  <2> HIDE DEF e
  <2>3. Shown(e, ts2) = e[Len(c) + 1].value
    BY <1>0, <2>1, <2>2, ShownIs
  <2>. QED  BY <2>2, <2>3 DEF e
<1>. QED  BY <1>1, <1>2

\* A write changes the chain, unless it deletes what is not there.
LEMMA ChangedAfter ==
  ASSUME NEW c, NEW ts \in Nat, Chain(c, ts), NEW ts2 \in Nat, ts < ts2, NEW v \in Cell
  PROVE  Changed(Applied(c, v, ts2)) =
           IF v # None \/ Shown(c, ts) # None THEN ts2 ELSE Changed(c)
<1> DEFINE e == Applied(c, v, ts2)
           n == Len(e)
<1>0. /\ Chain(e, ts2) /\ Len(c) \in Nat /\ n \in Nat /\ (c = <<>> <=> Len(c) = 0)
      /\ (e = <<>> <=> n = 0)
  BY AppliedChain, ChainLength
<1>1. CASE v # None
  <2>1. n = Len(c) + 1 /\ e[n] = Version(v, ts2)
    BY <1>0, <1>1, AppliedIs
  <2>2. last_modified(e[n]) = ts2
    BY <2>1 DEF Version, last_modified, Live
  <2>3. e # <<>>
    BY <1>0, <2>1
  <2>. QED  BY <1>1, <2>2, <2>3 DEF Changed
<1>2. CASE v = None
  <2>1. n = Len(c)
    BY <1>2, AppliedIs
  <2>2. CASE c = <<>>
    BY <1>0, <1>2, <2>1, <2>2, ShownNow DEF Changed
  <2>3. CASE c # <<>>
    <3>1. n \in 1..Len(c) /\ e # <<>>
      BY <1>0, <2>1, <2>3
    <3>2. e[n] = Closed(c, ts2)[n]
      BY <3>1, AppliedIs
    <3>3. /\ e[n].created = c[n].created /\ e[n].deleted \in Nat
          /\ e[n].deleted = IF c[n].deleted = Live THEN ts2 ELSE c[n].deleted
          /\ e[n].deleted > c[n].created /\ c[n].created \in Nat
      BY <3>1, <3>2, ClosedIs, VersionFields
    <3>4. last_modified(e[n]) = IF c[n].deleted = Live THEN ts2 ELSE last_modified(c[n])
      BY <3>3 DEF last_modified
    <3>5. Shown(c, ts) # None <=> c[n].deleted = Live
      BY <2>1, <2>3, ShownNow
    <3>6. Changed(e) = last_modified(e[n]) /\ Changed(c) = last_modified(c[n])
      BY <2>1, <2>3, <3>1 DEF Changed
    <3> HIDE DEF e, n
    <3>7. Changed(e) = IF Shown(c, ts) # None THEN ts2 ELSE Changed(c)
      BY <3>4, <3>5, <3>6
    <3>. QED  BY <1>2, <3>7 DEF e
  <2>. QED  BY <2>2, <2>3
<1>. QED  BY <1>1, <1>2

-----------------------------------------------------------------------------
\* Garbage collection.

\* What the proofs use of the naturals and of the sizes of intervals.  The lemmas
\* take it as a hypothesis, and the theorems of MvccIsolationProofs discharge it
\* by SetFactsHold: so the library's theorems on finite sets are in scope only
\* where they are needed.
SetFacts ==
  /\ \A T \in SUBSET Nat : T # {} => \E x \in T : \A y \in T : x <= y
  /\ \A m, n \in Int : Cardinality(m..n) = IF m > n THEN 0 ELSE n - m + 1

\* The versions of a suffix of the indices, in their order.
LEMMA RetainSuffix ==
  ASSUME SetFacts, NEW S, NEW c \in Seq(S), NEW m \in 1..(Len(c) + 1)
  PROVE  /\ retain(c, m..Len(c)) \in Seq(S)
         /\ Len(retain(c, m..Len(c))) = Len(c) + 1 - m
         /\ \A x \in 1..(Len(c) + 1 - m) : retain(c, m..Len(c))[x] = c[m + x - 1]
<1> DEFINE n == Len(c)
           kept == m..n
           size == n + 1 - m
           nth(x) == CHOOSE i \in kept : Cardinality({j \in kept : j <= i}) = x
           r == [x \in 1..Cardinality(kept) |-> c[nth(x)]]
<1>0. n \in Nat /\ m \in Nat /\ m <= n + 1 /\ m > 0 /\ size \in Nat
  OBVIOUS
<1> HIDE DEF n
<1>1. Cardinality(kept) = size
  <2>1. m \in Int /\ n \in Int
    BY <1>0
  <2>2. Cardinality(m..n) = IF m > n THEN 0 ELSE n - m + 1
    BY <2>1, Zenon DEF SetFacts
  <2>. QED  BY <1>0, <2>2
<1>2. ASSUME NEW i \in kept PROVE Cardinality({j \in kept : j <= i}) = i - m + 1
  <2>1. {j \in kept : j <= i} = m..i
    BY <1>0
  <2>2. i \in Int /\ m \in Int /\ m <= i
    BY <1>0
  <2>3. Cardinality(m..i) = IF m > i THEN 0 ELSE i - m + 1
    BY <2>2, Zenon DEF SetFacts
  <2>4. Cardinality({j \in kept : j <= i}) = Cardinality(m..i)
    BY <2>1, Zenon
  <2> HIDE DEF kept
  <2>. QED  BY <2>2, <2>3, <2>4
<1>3. ASSUME NEW x \in 1..size PROVE nth(x) = m + x - 1
  <2>1. m + x - 1 \in kept /\ (m + x - 1) - m + 1 = x
    BY <1>0
  <2>2. \A i \in kept : Cardinality({j \in kept : j <= i}) = x <=> i = m + x - 1
    BY <1>0, <1>2
  <2>. QED  BY <2>1, <2>2
<1>4. retain(c, kept) = r
  BY DEF retain
<1>5. \A x \in 1..size : r[x] = c[m + x - 1]
  BY <1>1, <1>3, Zenon
<1>6. \A x \in 1..size : m + x - 1 \in 1..n
  BY <1>0
<1>7. r = [x \in 1..size |-> r[x]]
  BY <1>1
<1> HIDE DEF r, size
<1>8. \A x \in 1..size : r[x] \in S
  <2>1. \A i \in 1..n : c[i] \in S
    BY DEF n
  <2>. QED  BY <1>5, <1>6, <2>1
<1>9. r \in [1..size -> S]
  BY <1>7, <1>8
<1>10. r \in Seq(S) /\ Len(r) = size
  BY <1>0, <1>9
<1>. QED  BY <1>4, <1>5, <1>10 DEF size, n

\* A set of naturals that is not empty has a least element.
LEMMA LeastNat ==
  ASSUME SetFacts, NEW T, T \subseteq Nat, T # {}
  PROVE  \E x \in T : \A y \in T : x <= y
<1>1. T \in SUBSET Nat
  OBVIOUS
<1>. QED  BY <1>1, Zenon DEF SetFacts

\* What garbage collection leaves of a chain.
Reclaimed(c, w) ==
  retain(c, {i \in DOMAIN c : c[i].deleted = Live \/ c[i].deleted >= w})

\* It drops a prefix of the chain, of versions closed before the watermark.
LEMMA ReclaimedIs ==
  ASSUME SetFacts, NEW c, NEW ts \in Nat, Chain(c, ts), NEW w \in Nat
  PROVE  \E m \in 1..(Len(c) + 1) :
           /\ Reclaimed(c, w) = retain(c, m..Len(c))
           /\ \A i \in 1..Len(c) : i < m => c[i].deleted # Live /\ c[i].deleted < w
<1> DEFINE n == Len(c)
           K == {i \in DOMAIN c : c[i].deleted = Live \/ c[i].deleted >= w}
<1>0. n \in Nat /\ DOMAIN c = 1..n
  BY ChainLength
<1>1. Reclaimed(c, w) = retain(c, K)
  BY DEF Reclaimed
<1>2. \A i \in 1..n : i \notin K => c[i].deleted # Live /\ c[i].deleted < w
  BY <1>0, VersionFields
<1>3. CASE K = {}
  <2>1. n + 1 \in 1..(n + 1) /\ (n + 1)..n = {}
    BY <1>0
  <2>. QED  BY <1>1, <1>2, <1>3, <2>1, Zenon
<1>4. CASE K # {}
  <2>1. K \subseteq 1..n /\ K \subseteq Nat
    BY <1>0
  <2> HIDE DEF K
  <2>2. PICK m \in K : \A y \in K : m <= y
    BY <1>4, <2>1, LeastNat, Zenon
  <2>3. m \in 1..n /\ m \in 1..(n + 1)
    BY <1>0, <2>1
  <2>4. ASSUME NEW i \in 1..n, m < i PROVE i \in K
    <3>1. c[m].deleted # Live /\ c[m].deleted <= c[i].created
      BY <2>3, <2>4 DEF Chain
    <3>2. c[m].deleted >= w
      BY <3>1 DEF K
    <3>3. c[i].deleted = Live \/ c[i].deleted >= w
      BY <2>3, <3>1, <3>2, VersionFields
    <3>. QED  BY <1>0, <3>3 DEF K
  <2>5. K = m..n
    <3>1. \A i \in K : i \in m..n
      BY <1>0, <2>1, <2>2, <2>3
    <3>2. \A i \in m..n : i \in 1..n /\ (i = m \/ m < i)
      BY <1>0, <2>3
    <3>. QED  BY <2>4, <3>1, <3>2, Zenon
  <2>6. \A i \in 1..n : i < m => i \notin K
    BY <1>0, <2>2, <2>3
  <2>. QED  BY <1>1, <1>2, <2>3, <2>5, <2>6
<1>. QED  BY <1>3, <1>4

\* gc leaves a chain, whatever the watermark.
LEMMA ReclaimedChain ==
  ASSUME SetFacts, NEW c, NEW ts \in Nat, Chain(c, ts), NEW w \in Nat
  PROVE  Chain(Reclaimed(c, w), ts)
<1> DEFINE r == Reclaimed(c, w)
<1>1. PICK m \in 1..(Len(c) + 1) : r = retain(c, m..Len(c))
  BY ReclaimedIs
<1>2. c \in Seq(VersionOf) /\ Len(c) \in Nat
  BY ChainLength DEF Chain
<1>3. /\ r \in Seq(VersionOf) /\ Len(r) = Len(c) + 1 - m
      /\ \A x \in 1..(Len(c) + 1 - m) : r[x] = c[m + x - 1]
  BY <1>1, <1>2, RetainSuffix
<1> HIDE DEF r
<1>4. \A x \in 1..Len(r) : r[x] = c[m + x - 1] /\ m + x - 1 \in 1..Len(c)
  BY <1>2, <1>3
<1>5. \A x \in 1..Len(r) : /\ r[x].created \in 1..ts
                           /\ r[x].deleted = Live \/ r[x].deleted \in (r[x].created + 1)..ts
  BY <1>4, Zenon DEF Chain
<1>6. ASSUME NEW x \in 1..Len(r), NEW y \in 1..Len(r), x < y
      PROVE  r[x].deleted # Live /\ r[x].deleted <= r[y].created
  <2>1. m + x - 1 < m + y - 1
    BY <1>2, <1>3, <1>6
  <2>. QED  BY <1>4, <2>1, Zenon DEF Chain
<1>. QED  BY <1>3, <1>5, <1>6 DEF Chain, r

\* Neither a read nor a conflict check at a snapshot from just before the
\* watermark on can tell that versions were reclaimed.
LEMMA ReclaimedSame ==
  ASSUME SetFacts, NEW c, NEW ts \in Nat, Chain(c, ts), NEW w \in Nat,
         NEW s \in Nat, w <= s + 1
  PROVE  /\ Shown(Reclaimed(c, w), s) = Shown(c, s)
         /\ Changed(Reclaimed(c, w)) > s <=> Changed(c) > s
<1> DEFINE r == Reclaimed(c, w)
<1>1. PICK m \in 1..(Len(c) + 1) :
        /\ r = retain(c, m..Len(c))
        /\ \A i \in 1..Len(c) : i < m => c[i].deleted # Live /\ c[i].deleted < w
  BY ReclaimedIs, Zenon
<1>2. c \in Seq(VersionOf) /\ Len(c) \in Nat /\ Chain(r, ts) /\ (c = <<>> <=> Len(c) = 0)
  BY ChainLength, ReclaimedChain, Zenon DEF Chain
<1> HIDE DEF r
<1>3. /\ Len(r) = Len(c) + 1 - m
      /\ \A x \in 1..(Len(c) + 1 - m) : r[x] = c[m + x - 1]
  <2>1. r = retain(c, m..Len(c)) /\ c \in Seq(VersionOf)
    BY <1>1, <1>2
  <2>. QED  BY <2>1, RetainSuffix
<1>4. \A x \in 1..Len(r) : r[x] = c[m + x - 1] /\ m + x - 1 \in 1..Len(c)
  BY <1>2, <1>3
<1>5. \A i \in 1..Len(c) : i < m => c[i].deleted # Live /\ c[i].deleted <= s
  BY <1>1, VersionFields
<1>6. \A i \in 1..Len(c) : i < m => ~visible_at(c[i], s)
  BY <1>5, VersionFields DEF visible_at
<1>7. Shown(r, s) = Shown(c, s)
  <2>1. CASE \E i \in 1..Len(c) : visible_at(c[i], s)
    <3>1. PICK i \in 1..Len(c) : visible_at(c[i], s)
      BY <2>1
    <3>2. i - m + 1 \in 1..Len(r) /\ r[i - m + 1] = c[i]
      <4>1. ~(i < m) /\ i - m + 1 \in 1..Len(r) /\ m + (i - m + 1) - 1 = i
        BY <1>2, <1>3, <1>6, <3>1
      <4>. QED  BY <1>4, <4>1
    <3>3. Shown(r, s) = r[i - m + 1].value /\ Shown(c, s) = c[i].value
      BY <1>2, <3>1, <3>2, ShownIs
    <3>. QED  BY <3>2, <3>3
  <2>2. CASE \A i \in 1..Len(c) : ~visible_at(c[i], s)
    <3>1. \A x \in 1..Len(r) : ~visible_at(r[x], s)
      BY <1>4, <2>2
    <3>. QED  BY <1>2, <2>2, <3>1, ShownIs
  <2>. QED  BY <2>1, <2>2
<1>8. Changed(r) > s <=> Changed(c) > s
  <2>1. CASE Len(r) # 0
    <3>1. r # <<>> /\ c # <<>> /\ r[Len(r)] = c[Len(c)]
      <4>1. Len(r) \in 1..Len(r) /\ m + Len(r) - 1 = Len(c) /\ Len(c) # 0
        BY <1>2, <1>3, <2>1
      <4>. QED  BY <1>2, <1>4, <4>1, <2>1
    <3>. QED  BY <3>1 DEF Changed
  <2>2. CASE Len(r) = 0
    <3>1. r = <<>>
      BY <1>2, <2>2, ChainLength
    <3>2. CASE c = <<>>
      BY <3>1, <3>2
    <3>3. CASE c # <<>>
      <4>1. Len(c) \in 1..Len(c) /\ Len(c) < m
        BY <1>2, <1>3, <2>2, <3>3
      <4>2. last_modified(c[Len(c)]) = c[Len(c)].deleted
        BY <1>5, <4>1, VersionFields DEF last_modified
      <4>3. Changed(c) \in Nat /\ Changed(c) <= s /\ Changed(r) = 0
        BY <1>5, <3>1, <3>3, <4>1, <4>2, ChangedBound DEF Changed
      <4>. QED  BY <4>3
    <3>. QED  BY <3>2, <3>3
  <2>. QED  BY <2>1, <2>2
<1>. QED  BY <1>7, <1>8 DEF r

\* It is no later than any open transaction's snapshot.
LEMMA WatermarkIs ==
  ASSUME SetFacts, TypeInv
  PROVE  /\ watermark \in Nat /\ watermark <= commit_ts + 1
         /\ \A t \in DOMAIN txns : watermark <= txns[t].snapshot
<1>0. /\ active \in [DOMAIN txns -> Nat] /\ commit_ts \in Nat
      /\ \A t \in DOMAIN txns : active[t] = txns[t].snapshot /\ active[t] <= commit_ts
  BY DEF TypeInv
<1>1. CASE active = <<>>
  <2>1. DOMAIN txns = {}
    BY <1>0, <1>1, NoWrites
  <2>. QED  BY <1>0, <1>1, <2>1 DEF watermark
<1>2. CASE active # <<>>
  <2> DEFINE T == {active[t] : t \in DOMAIN active}
  <2>1. DOMAIN active = DOMAIN txns /\ DOMAIN txns # {}
    <3>1. DOMAIN active = DOMAIN txns
      BY <1>0
    <3>2. ASSUME DOMAIN active = {} PROVE FALSE
      <4>1. active = <<>>
        BY <1>0, <3>1, <3>2
      <4>. QED  BY <1>2, <4>1
    <3>. QED  BY <3>1, <3>2
  <2>2. T \subseteq Nat /\ T # {}
    BY <1>0, <2>1
  <2>3. PICK x \in T : \A y \in T : x <= y
    BY <2>2, LeastNat, Zenon
  <2>4. \A t \in DOMAIN active : x <= active[t]
    BY <2>3
  <2>5. watermark \in T /\ \A t \in DOMAIN active : watermark <= active[t]
    BY <1>2, <2>3, <2>4 DEF watermark
  <2>6. PICK t \in DOMAIN txns : watermark = active[t]
    BY <2>1, <2>5
  <2>7. watermark <= commit_ts + 1
    BY <1>0, <2>6
  <2>. QED  BY <1>0, <2>1, <2>2, <2>5, <2>7
<1>. QED  BY <1>1, <1>2

-----------------------------------------------------------------------------
\* What the operators of the model compute.

\* visible_value and latest_change are Shown and Changed of the key's chain.
LEMMA VisibleIs ==
  /\ \A k, s : visible_value(k, s) = Shown(versions[k], s)
  /\ \A k : latest_change(k) = Changed(versions[k])
BY DEF visible_value, latest_change, Shown, Changed

\* apply_versions changes the chains of the written keys and no others.
LEMMA ApplyIs ==
  ASSUME NEW w, NEW ts, NEW k \in Keys
  PROVE  apply_versions(w, ts)[k] = IF k \in DOMAIN w THEN Applied(versions[k], w[k], ts)
                                                      ELSE versions[k]
BY DEF apply_versions, Applied, Closed

\* The types of a record's fields.
LEMMA RecordFields ==
  ASSUME NEW r \in Record
  PROVE  /\ r.tag \in {"begin", "write", "commit", "abort", "torn"}
         /\ r.tag # "torn" => r.txn \in Nat
         /\ r.tag = "write" => r.key \in Keys /\ r.value \in Cell
         /\ r.tag = "commit" => r.ts \in Nat
BY DEF Record, Torn

\* The records that begin, commit and set append.
LEMMA RecordsAre ==
  ASSUME NEW t \in Nat, NEW ts \in Nat, NEW k \in Keys, NEW v \in Cell
  PROVE  /\ BeginRecord(t, ts) \in Record /\ CommitRecord(t, ts) \in Record
         /\ WriteRecord(t, k, v) \in Record
BY DEF Record, BeginRecord, CommitRecord, WriteRecord

\* The records without a value.
LEMMA ShortRecordsAre ==
  ASSUME NEW t \in Nat, NEW ts \in Nat
  PROVE  /\ BeginRecord(t, ts) \in Record /\ CommitRecord(t, ts) \in Record
         /\ AbortRecord(t) \in Record /\ Torn \in Record
BY DEF Record, BeginRecord, CommitRecord, AbortRecord

\* The log up to its first damaged record.
LEMMA ValidLenIs ==
  ASSUME SetFacts, NEW l \in Seq(Record)
  PROVE  /\ ValidLen(l) \in 0..Len(l)
         /\ \A i \in 1..ValidLen(l) : l[i].tag # "torn"
         /\ (\A i \in 1..Len(l) : l[i].tag # "torn") => ValidLen(l) = Len(l)
<1> DEFINE T == {n \in 0..Len(l) : n < Len(l) => l[n + 1].tag = "torn"}
           Ok(n) == /\ \A i \in 1..n : l[i].tag # "torn"
                    /\ n < Len(l) => l[n + 1].tag = "torn"
<1>0. Len(l) \in Nat
  OBVIOUS
<1>1. T \subseteq Nat /\ Len(l) \in T
  BY <1>0
<1>2. PICK x \in T : \A y \in T : x <= y
  <2> HIDE DEF T
  <2>. QED  BY <1>1, LeastNat, Zenon
<1>3. x \in 0..Len(l) /\ (x < Len(l) => l[x + 1].tag = "torn")
  OBVIOUS
<1>4. ASSUME NEW i \in 1..x PROVE l[i].tag # "torn"
  <2>1. i - 1 \in 0..Len(l) /\ i - 1 < Len(l) /\ (i - 1) + 1 = i /\ ~(x <= i - 1)
    BY <1>0, <1>3
  <2>2. i - 1 \notin T
    BY <1>2, <2>1
  <2>. QED  BY <2>1, <2>2
<1>5. Ok(x)
  BY <1>3, <1>4
<1>6. ValidLen(l) = CHOOSE n \in 0..Len(l) : Ok(n)
  BY DEF ValidLen
<1> HIDE DEF Ok
<1>7. ValidLen(l) \in 0..Len(l) /\ Ok(ValidLen(l))
  BY <1>3, <1>5, <1>6
<1>8. ASSUME \A i \in 1..Len(l) : l[i].tag # "torn" PROVE ValidLen(l) = Len(l)
  <2>1. ASSUME ValidLen(l) < Len(l) PROVE FALSE
    <3>1. l[ValidLen(l) + 1].tag = "torn"
      BY <1>7, <2>1 DEF Ok
    <3>2. ValidLen(l) + 1 \in 1..Len(l)
      BY <1>0, <1>7, <2>1
    <3>. QED  BY <1>8, <3>1, <3>2
  <2>. QED  BY <1>0, <1>7, <2>1
<1>. QED  BY <1>7, <1>8 DEF Ok

\* Transaction ids within the bound are ids.
LEMMA BoundIs ==
  ASSUME TypeInv
  PROVE  bound.txn \in Nat /\ 1..bound.txn \subseteq Ids
<1>1. bound \in Bounds /\ bound \in [txn : Nat, writes : Nat, errors : Nat, crashes : Nat]
  BY MvccAssumption DEF TypeInv
<1>. QED  BY <1>1 DEF Ids

\* An open transaction.
LEMMA HandleIs ==
  ASSUME TypeInv, NEW t \in DOMAIN txns
  PROVE  /\ t \in Nat /\ txns[t] \in Handle /\ txns[t].writes \in Writes
         /\ txns[t].snapshot \in Nat /\ txns[t].snapshot <= commit_ts
         /\ active[t] = txns[t].snapshot
         /\ phase = "up"
<1>1. txns[t] \in Handle /\ active[t] = txns[t].snapshot /\ active[t] <= commit_ts
  BY DEF TypeInv
<1>2. txns # <<>>
  BY NoWrites
<1>3. phase = "up"
  BY <1>2 DEF TypeInv
<1>4. t \in Nat
  BY DEF TypeInv
<1>. QED  BY <1>1, <1>3, <1>4 DEF Handle

\* A transaction's handle goes: the other transactions stay as they are.
LEMMA FinishIs ==
  ASSUME TypeInv, NEW t \in DOMAIN txns, Finish(t), UNCHANGED <<bound, phase, commit_ts>>
  PROVE  /\ DOMAIN txns' = DOMAIN txns \ {t}
         /\ \A u \in DOMAIN txns' : txns'[u] = txns[u] /\ active'[u] = active[u]
         /\ txns' \in [DOMAIN txns' -> Handle] /\ active' \in [DOMAIN txns' -> Nat]
         /\ \A u \in DOMAIN txns' : /\ u \in 1..bound'.txn
                                    /\ active'[u] = txns'[u].snapshot
                                    /\ active'[u] <= commit_ts'
<1>1. /\ txns' = [u \in DOMAIN txns \ {t} |-> txns[u]]
      /\ active' = [u \in DOMAIN active \ {t} |-> active[u]]
  BY DEF Finish, Without
<1>2. txns \in [DOMAIN txns -> Handle] /\ active \in [DOMAIN txns -> Nat]
  BY DEF TypeInv
<1>3. DOMAIN txns' = DOMAIN txns \ {t} /\ DOMAIN active = DOMAIN txns
  BY <1>1, <1>2
<1>4. \A u \in DOMAIN txns' : txns'[u] = txns[u] /\ active'[u] = active[u]
  BY <1>1, <1>3
<1>5. txns' \in [DOMAIN txns' -> Handle] /\ active' \in [DOMAIN txns' -> Nat]
  BY <1>1, <1>2, <1>3
<1>. QED  BY <1>3, <1>4, <1>5 DEF TypeInv

\* Ending a transaction unregisters its snapshot and removes its handle.
LEMMA FinishType ==
  ASSUME TypeInv, NEW t \in DOMAIN txns, Finish(t), NEW r \in Record, WalAppend(r),
         synced' = synced \/ synced' = Len(log'),
         UNCHANGED <<bound, phase, replay, versions, next_txn, commit_ts, committed, settled>>
  PROVE  TypeInv'
<1>1. log' \in Seq(Record) /\ Len(log') = Len(log) + 1 /\ Len(log) \in Nat
  BY AppendIs DEF TypeInv, WalAppend
<1>2. synced' \in 0..Len(log')
  BY <1>1 DEF TypeInv
<1>3. phase = "up"
  BY HandleIs
<1>4. /\ pos' = pos /\ pending' = pending /\ bound' = bound /\ commit_ts' = commit_ts
      /\ phase' = phase
  BY DEF replay
<1>. QED  BY <1>1, <1>2, <1>3, <1>4, FinishIs, Zenon DEF TypeInv

-----------------------------------------------------------------------------
\* Every step keeps the types and the order of the versions.

\* The types hold for an empty store.
LEMMA InitType == Init => TypeInv
<1> SUFFICES ASSUME Init PROVE TypeInv
  OBVIOUS
<1>1. log \in Seq(Record) /\ synced \in 0..Len(log)
  BY DEF Init
<1>2. \A k \in Keys : Chain(versions[k], commit_ts)
  BY EmptyChain DEF Init
<1>3. /\ pending \in [DOMAIN pending -> Writes] /\ txns \in [DOMAIN txns -> Handle]
      /\ active \in [DOMAIN txns -> Nat] /\ DOMAIN txns = {}
  BY NoWrites DEF Init
<1>4. committed \in [Keys -> Cell] /\ settled \in [Keys -> Cell]
  BY DEF Init, Cell
<1>. QED  BY <1>1, <1>2, <1>3, <1>4 DEF Init, TypeInv

\* Buffering one more write.
LEMMA WithWrites ==
  ASSUME NEW w \in Writes, NEW k \in Keys, NEW v \in Cell
  PROVE  With(w, k, v) \in Writes
<1>1. w \in [DOMAIN w -> Cell] /\ DOMAIN w \subseteq Keys
  BY WritesAreFunctions
<1> DEFINE u == With(w, k, v)
<1>2. DOMAIN u = DOMAIN w \cup {k} /\ u \in [DOMAIN w \cup {k} -> Cell]
  BY <1>1 DEF With
<1> HIDE DEF u
<1>3. u \in [DOMAIN u -> Cell] /\ DOMAIN u \subseteq Keys
  BY <1>1, <1>2
<1>4. u \in Writes
  BY <1>3, WritesAreFunctions
<1>. QED  BY <1>4 DEF u

\* A commit at a new timestamp keeps all chains ordered.
LEMMA ApplyChains ==
  ASSUME TypeInv, NEW w \in Writes, NEW ts \in Nat, commit_ts < ts, NEW k \in Keys
  PROVE  Chain(apply_versions(w, ts)[k], ts)
<1>1. Chain(versions[k], commit_ts) /\ commit_ts \in Nat
  BY DEF TypeInv
<1>2. CASE k \in DOMAIN w
  <2>1. w[k] \in Cell
    BY <1>2, WritesAreFunctions
  <2>. QED  BY <1>1, <1>2, <2>1, ApplyIs, AppliedChain
<1>3. CASE k \notin DOMAIN w
  BY <1>1, <1>3, ApplyIs, ChainLater
<1>. QED  BY <1>2, <1>3

\* Adding and removing an argument of a partial function.
LEMMA FunctionStep ==
  ASSUME NEW S, NEW f, f \in [DOMAIN f -> S], NEW x, NEW v \in S
  PROVE  /\ Without(f, x) \in [DOMAIN Without(f, x) -> S]
         /\ With(f, x, v) \in [DOMAIN With(f, x, v) -> S]
BY SMTT(30) DEF With, Without

\* What replaying a record does.
LEMMA ReplayRecordIs ==
  ASSUME SetFacts, TypeInv, ReplayRecord
  PROVE  /\ phase = "replay" /\ pos \in 1..Len(log) /\ log[pos] \in Record
         /\ log[pos].tag # "torn" /\ log[pos].txn \in Nat /\ ~Rejected(log[pos])
         /\ pos' = pos + 1
         /\ UNCHANGED <<log, synced, phase, active, txns, committed, settled, used, errors,
                        crashes, seen>>
         /\ \/ /\ log[pos].tag = "begin"
               /\ next_txn' = IF log[pos].txn >= next_txn THEN log[pos].txn + 1 ELSE next_txn
               /\ pending' = IF log[pos].txn \in DOMAIN pending THEN pending
                             ELSE With(pending, log[pos].txn, <<>>)
               /\ UNCHANGED <<versions, commit_ts>>
            \/ /\ log[pos].tag = "write" /\ log[pos].txn \in DOMAIN pending
               /\ pending' = With(pending, log[pos].txn,
                                  With(pending[log[pos].txn], log[pos].key, log[pos].value))
               /\ UNCHANGED <<versions, next_txn, commit_ts>>
            \/ /\ log[pos].tag = "commit" /\ log[pos].txn \in DOMAIN pending
               /\ log[pos].ts \in Nat /\ commit_ts < log[pos].ts
               /\ versions' = apply_versions(pending[log[pos].txn], log[pos].ts)
               /\ commit_ts' = log[pos].ts
               /\ pending' = Without(pending, log[pos].txn)
               /\ UNCHANGED next_txn
            \/ /\ log[pos].tag = "abort"
               /\ pending' = Without(pending, log[pos].txn)
               /\ UNCHANGED <<versions, next_txn, commit_ts>>
<1>1. log \in Seq(Record) /\ pos \in Nat /\ pos > 0 /\ commit_ts \in Nat
  BY DEF TypeInv
<1>2. pos \in 1..ValidLen(log) /\ pos \in 1..Len(log)
  BY <1>1, ValidLenIs DEF ReplayRecord
<1>3. log[pos] \in Record /\ log[pos].tag # "torn"
  BY <1>1, <1>2, ValidLenIs
<1> DEFINE r == log[pos]
<1>4. /\ r.tag \in {"begin", "write", "commit", "abort"} /\ r.txn \in Nat
      /\ r.tag = "commit" => r.ts \in Nat
  BY <1>3, RecordFields
<1>5. /\ r.tag \in {"write", "commit"} => r.txn \in DOMAIN pending
      /\ r.tag = "commit" => commit_ts < r.ts
  BY <1>1, <1>4 DEF ReplayRecord, Rejected
<1>6. /\ phase = "replay" /\ pos' = pos + 1 /\ ~Rejected(r)
      /\ UNCHANGED <<log, synced, phase, active, txns, committed, settled, used, errors,
                     crashes, seen>>
  BY DEF ReplayRecord, disk, history
<1>7. CASE r.tag = "begin"
  BY <1>2, <1>3, <1>4, <1>6, <1>7 DEF ReplayRecord
<1>8. CASE r.tag = "write"
  BY <1>2, <1>3, <1>4, <1>5, <1>6, <1>8 DEF ReplayRecord
<1>9. CASE r.tag = "commit"
  BY <1>2, <1>3, <1>4, <1>5, <1>6, <1>9 DEF ReplayRecord
<1>10. CASE r.tag = "abort"
  BY <1>2, <1>3, <1>4, <1>6, <1>10 DEF ReplayRecord
<1>. QED  BY <1>4, <1>7, <1>8, <1>9, <1>10, Zenon

\* Replaying a record keeps the types and the order of the chains.
LEMMA ReplayRecordType ==
  ASSUME SetFacts, TypeInv, ReplayRecord, UNCHANGED bound
  PROVE  TypeInv'
<1> DEFINE r == log[pos]
<1>1. /\ phase' = "replay" /\ pos' = pos + 1 /\ r \in Record /\ r.txn \in Nat
      /\ UNCHANGED <<bound, log, synced, active, txns, committed, settled>>
  BY ReplayRecordIs
<1>2. txns = <<>> /\ pending \in [DOMAIN pending -> Writes] /\ pos' \in Nat \ {0}
  BY <1>1, ReplayRecordIs DEF TypeInv
<1>3. /\ next_txn' \in Nat \ {0} /\ commit_ts' \in Nat
      /\ pending' \in [DOMAIN pending' -> Writes]
      /\ \A k \in Keys : Chain(versions'[k], commit_ts')
  <2>1. CASE /\ r.tag = "begin"
             /\ next_txn' = IF r.txn >= next_txn THEN r.txn + 1 ELSE next_txn
             /\ pending' = IF r.txn \in DOMAIN pending THEN pending
                           ELSE With(pending, r.txn, <<>>)
             /\ UNCHANGED <<versions, commit_ts>>
    <3>1. pending' \in [DOMAIN pending' -> Writes]
      BY <1>2, <2>1, NoWrites, FunctionStep, Zenon
    <3>2. next_txn' \in Nat \ {0}
      BY <1>1, <2>1 DEF TypeInv
    <3>. QED  BY <2>1, <3>1, <3>2 DEF TypeInv
  <2>2. CASE /\ r.tag = "write" /\ r.txn \in DOMAIN pending
             /\ pending' = With(pending, r.txn, With(pending[r.txn], r.key, r.value))
             /\ UNCHANGED <<versions, next_txn, commit_ts>>
    <3>1. With(pending[r.txn], r.key, r.value) \in Writes
      BY <1>1, <1>2, <2>2, RecordFields, WithWrites
    <3>2. pending' \in [DOMAIN pending' -> Writes]
      BY <1>2, <2>2, <3>1, FunctionStep, Zenon
    <3>. QED  BY <2>2, <3>2 DEF TypeInv
  <2>3. CASE /\ r.tag = "commit" /\ r.txn \in DOMAIN pending
             /\ r.ts \in Nat /\ commit_ts < r.ts
             /\ versions' = apply_versions(pending[r.txn], r.ts)
             /\ commit_ts' = r.ts
             /\ pending' = Without(pending, r.txn)
             /\ UNCHANGED next_txn
    <3>1. pending[r.txn] \in Writes
      BY <1>2, <2>3
    <3>2. pending' \in [DOMAIN pending' -> Writes]
      BY <1>2, <2>3, <3>1, FunctionStep, Zenon
    <3>3. \A k \in Keys : Chain(versions'[k], commit_ts')
      BY <2>3, <3>1, ApplyChains
    <3>. QED  BY <2>3, <3>2, <3>3 DEF TypeInv
  <2>4. CASE /\ r.tag = "abort"
             /\ pending' = Without(pending, r.txn)
             /\ UNCHANGED <<versions, next_txn, commit_ts>>
    <3>1. pending' \in [DOMAIN pending' -> Writes]
      BY <1>2, <2>4, NoWrites, FunctionStep, Zenon
    <3>. QED  BY <2>4, <3>1 DEF TypeInv
  <2>. QED  BY <2>1, <2>2, <2>3, <2>4, ReplayRecordIs
<1>4. DOMAIN txns' = {}
  BY <1>1, <1>2, NoWrites
<1>. QED  BY <1>1, <1>2, <1>3, <1>4 DEF TypeInv

\* What the end of open does: the log is cut to its whole records.
LEMMA FinishOpenIs ==
  ASSUME SetFacts, TypeInv, FinishOpen
  PROVE  /\ phase = "replay" /\ phase' = "up" /\ pos > ValidLen(log)
         /\ log' = SubSeq(log, 1, ValidLen(log)) /\ Len(log') = ValidLen(log)
         /\ log' \in Seq(Record)
         /\ synced' = IF log' = log THEN synced ELSE Len(log')
         /\ UNCHANGED <<versions, active, next_txn, commit_ts, txns, committed, settled, used,
                        errors, crashes, seen>>
<1>1. log \in Seq(Record) /\ ValidLen(log) \in 0..Len(log)
  BY ValidLenIs DEF TypeInv
<1>2. log' = SubSeq(log, 1, ValidLen(log))
  BY DEF FinishOpen
<1>3. Len(log') = ValidLen(log) /\ log' \in Seq(Record)
  BY <1>1, <1>2
<1>. QED  BY <1>2, <1>3 DEF FinishOpen, inner, history

\* The end of open keeps the types.
LEMMA FinishOpenType ==
  ASSUME SetFacts, TypeInv, FinishOpen, UNCHANGED bound
  PROVE  TypeInv'
<1>1. txns = <<>> /\ pos' = 1 /\ pending' = <<>>
  BY DEF FinishOpen, TypeInv
<1>2. synced' \in 0..Len(log')
  <2>1. Len(log') \in Nat
    BY FinishOpenIs
  <2>. QED  BY <2>1, FinishOpenIs DEF TypeInv
<1>3. DOMAIN txns' = {} /\ pending' \in [DOMAIN pending' -> Writes]
  BY <1>1, NoWrites, FinishOpenIs
<1>4. /\ log' \in Seq(Record) /\ phase' = "up" /\ commit_ts' = commit_ts
      /\ next_txn' = next_txn /\ versions' = versions /\ active' = active /\ txns' = txns
      /\ committed' = committed /\ settled' = settled
  BY FinishOpenIs
<1>5. \A k \in Keys : Chain(versions'[k], commit_ts')
  BY <1>4 DEF TypeInv
<1>. QED  BY <1>1, <1>2, <1>3, <1>4, <1>5 DEF TypeInv

\* A new transaction sees the last commit.
LEMMA BeginIs ==
  ASSUME TypeInv, begin
  PROVE  /\ phase = "up" /\ next_txn \in 1..bound.txn /\ next_txn \in Nat
         /\ log' = Append(log, BeginRecord(next_txn, commit_ts))
         /\ BeginRecord(next_txn, commit_ts) \in Record
         /\ synced' = Len(log')
         /\ DOMAIN txns' = DOMAIN txns \cup {next_txn}
         /\ txns'[next_txn] = [snapshot |-> commit_ts, writes |-> <<>>]
         /\ active'[next_txn] = commit_ts
         /\ \A u \in DOMAIN txns : u # next_txn => txns'[u] = txns[u] /\ active'[u] = active[u]
         /\ txns' \in [DOMAIN txns' -> Handle] /\ active' \in [DOMAIN txns' -> Nat]
         /\ settled' = committed /\ used' = used \cup {next_txn} /\ next_txn' = next_txn + 1
         /\ UNCHANGED <<phase, pos, pending, versions, commit_ts, committed, seen>>
<1>1. /\ txns \in [DOMAIN txns -> Handle] /\ active \in [DOMAIN txns -> Nat]
      /\ next_txn \in Nat \ {0} /\ commit_ts \in Nat
  BY DEF TypeInv
<1> DEFINE h == [snapshot |-> commit_ts, writes |-> <<>>]
<1>2. h \in Handle
  BY <1>1, NoWrites DEF Handle
<1> HIDE DEF h
<1>3. txns' = With(txns, next_txn, h) /\ active' = With(active, next_txn, commit_ts)
  BY DEF begin, h
<1>4. /\ DOMAIN txns' = DOMAIN txns \cup {next_txn} /\ DOMAIN active' = DOMAIN txns'
      /\ txns'[next_txn] = h /\ active'[next_txn] = commit_ts
      /\ \A u \in DOMAIN txns : u # next_txn => txns'[u] = txns[u] /\ active'[u] = active[u]
  BY <1>1, <1>3 DEF With
<1>5. txns' \in [DOMAIN txns' -> Handle] /\ active' \in [DOMAIN txns' -> Nat]
  <2>1. txns' \in [DOMAIN txns' -> Handle] /\ active' \in [DOMAIN active' -> Nat]
    BY <1>1, <1>2, <1>3, FunctionStep, Zenon
  <2>. QED  BY <1>4, <2>1
<1>6. next_txn \in 1..bound.txn
  BY <1>1, BoundIs DEF begin
<1>7. BeginRecord(next_txn, commit_ts) \in Record
  BY <1>1, ShortRecordsAre
<1>. QED  BY <1>1, <1>4, <1>5, <1>6, <1>7 DEF begin, WalAppend, WalSync, replay, h

\* begin registers the snapshot of the handle it returns.
LEMMA BeginType ==
  ASSUME TypeInv, begin, UNCHANGED bound
  PROVE  TypeInv'
<1>1. log' \in Seq(Record) /\ synced' \in 0..Len(log')
  <2>1. log \in Seq(Record) /\ Len(log) \in Nat
    BY DEF TypeInv
  <2>2. log' \in Seq(Record) /\ Len(log') \in Nat
    <3>1. log' = Append(log, BeginRecord(next_txn, commit_ts)) /\ BeginRecord(next_txn, commit_ts) \in Record
      BY BeginIs
    <3>. QED  BY <2>1, <3>1, AppendIs
  <2>. QED  BY <2>2, BeginIs
<1>2. ASSUME NEW t \in DOMAIN txns'
      PROVE  t \in 1..bound'.txn /\ active'[t] = txns'[t].snapshot /\ active'[t] <= commit_ts'
  <2>1. CASE t = next_txn
    <3>1. txns'[t].snapshot = commit_ts /\ active'[t] = commit_ts
      BY <2>1, BeginIs
    <3>. QED  BY <2>1, <3>1, BeginIs DEF TypeInv
  <2>2. CASE t # next_txn
    <3>1. t \in DOMAIN txns /\ txns'[t] = txns[t] /\ active'[t] = active[t]
      BY <2>2, BeginIs
    <3>. QED  BY <3>1, BeginIs DEF TypeInv
  <2>. QED  BY <2>1, <2>2
<1>3. next_txn' \in Nat \ {0} /\ phase' = "up"
  BY BeginIs
<1>4. txns' \in [DOMAIN txns' -> Handle] /\ active' \in [DOMAIN txns' -> Nat]
  BY BeginIs
<1>5. /\ settled' = committed /\ committed' = committed /\ commit_ts' = commit_ts
      /\ versions' = versions /\ pos' = pos /\ pending' = pending
  BY BeginIs
<1>. QED  BY <1>1, <1>2, <1>3, <1>4, <1>5 DEF TypeInv

\* A begin whose fsync fails registers nothing.
LEMMA BeginSyncFailsType ==
  ASSUME TypeInv, BeginSyncFails, UNCHANGED bound
  PROVE  TypeInv'
<1>1. /\ log' = Append(log, BeginRecord(next_txn, commit_ts)) /\ synced' = synced
      /\ next_txn' = next_txn + 1
      /\ UNCHANGED <<phase, pos, pending, versions, active, commit_ts, txns, committed, settled>>
  BY DEF BeginSyncFails, WalAppend, replay
<1>2. BeginRecord(next_txn, commit_ts) \in Record /\ next_txn' \in Nat \ {0}
  BY <1>1, ShortRecordsAre DEF TypeInv
<1>3. log' \in Seq(Record) /\ synced' \in 0..Len(log')
  BY <1>1, <1>2, AppendIs DEF TypeInv
<1>. QED  BY <1>1, <1>2, <1>3 DEF TypeInv

\* A write is logged and buffered.
LEMMA SetIs ==
  ASSUME TypeInv, NEW t \in DOMAIN txns, NEW k \in Keys, NEW value \in Cell, set(t, k, value)
  PROVE  /\ phase = "up"
         /\ log' = Append(log, WriteRecord(t, k, value)) /\ WriteRecord(t, k, value) \in Record
         /\ DOMAIN txns' = DOMAIN txns
         /\ txns' \in [DOMAIN txns -> Handle]
         /\ \A u \in DOMAIN txns : u # t => txns'[u] = txns[u]
         /\ txns'[t].snapshot = txns[t].snapshot
         /\ txns'[t].writes = With(txns[t].writes, k, value)
         /\ UNCHANGED <<synced, phase, pos, pending, versions, active, next_txn, commit_ts,
                        committed, settled, used, seen>>
<1>1. txns \in [DOMAIN txns -> Handle] /\ txns[t] \in Handle /\ t \in Nat
  BY HandleIs, SMTT(30) DEF TypeInv
<1> DEFINE w == With(txns[t].writes, k, value)
           h == [txns[t] EXCEPT !.writes = w]
<1>2. w \in Writes
  BY HandleIs, WithWrites
<1>3. txns' = [txns EXCEPT ![t] = h]
  BY DEF set
<1> HIDE DEF w
<1>4. h \in Handle /\ h.snapshot = txns[t].snapshot /\ h.writes = w
  BY <1>1, <1>2 DEF Handle
<1> HIDE DEF h
<1>5. /\ txns' \in [DOMAIN txns -> Handle] /\ DOMAIN txns' = DOMAIN txns /\ txns'[t] = h
      /\ \A u \in DOMAIN txns : u # t => txns'[u] = txns[u]
  BY <1>1, <1>3, <1>4
<1>6. WriteRecord(t, k, value) \in Record
  <2>1. commit_ts \in Nat
    BY DEF TypeInv
  <2>. QED  BY <1>1, <2>1, RecordsAre
<1>. QED  BY <1>4, <1>5, <1>6 DEF set, WalAppend, replay, inner, history, w

\* set and delete keep the types.
LEMMA SetType ==
  ASSUME TypeInv, NEW t \in DOMAIN txns, NEW k \in Keys, NEW value \in Cell, set(t, k, value),
         UNCHANGED bound
  PROVE  TypeInv'
<1>1. log' \in Seq(Record) /\ synced' \in 0..Len(log')
  <2>1. log \in Seq(Record) /\ synced \in 0..Len(log)
    BY DEF TypeInv
  <2>2. log' \in Seq(Record) /\ Len(log') = Len(log) + 1
    <3>1. log' = Append(log, WriteRecord(t, k, value)) /\ WriteRecord(t, k, value) \in Record
      BY SetIs
    <3>. QED  BY <2>1, <3>1, AppendIs
  <2>. QED  BY <2>1, <2>2, SetIs
<1>2. \A u \in DOMAIN txns : txns'[u].snapshot = txns[u].snapshot
  BY SetIs
<1>3. /\ DOMAIN txns' = DOMAIN txns /\ txns' \in [DOMAIN txns' -> Handle] /\ phase' = "up"
      /\ UNCHANGED <<bound, pos, pending, versions, active, next_txn, commit_ts, committed, settled>>
  BY SetIs
<1>. QED  BY <1>1, <1>2, <1>3, Zenon DEF TypeInv

\* The database with a transaction's writes over it.
LEMMA OverrideType ==
  ASSUME NEW f \in [Keys -> Cell], NEW w \in Writes
  PROVE  /\ Override(f, w) \in [Keys -> Cell]
         /\ \A k \in Keys : Override(f, w)[k] = IF k \in DOMAIN w THEN w[k] ELSE f[k]
BY WritesAreFunctions DEF Override

\* commit applies its writes at a new timestamp and ends the transaction.
LEMMA CommitType ==
  ASSUME TypeInv, NEW t \in DOMAIN txns, commit(t), UNCHANGED bound
  PROVE  TypeInv'
<1>1. /\ commit_ts \in Nat /\ commit_ts' = commit_ts + 1 /\ txns[t].writes \in Writes /\ t \in Nat
      /\ committed \in [Keys -> Cell]
  BY HandleIs DEF TypeInv, commit
<1>2. \A k \in Keys : Chain(versions'[k], commit_ts')
  BY <1>1, ApplyChains DEF commit
<1>3. log' \in Seq(Record) /\ synced' \in 0..Len(log')
  <2>1. log \in Seq(Record) /\ Len(log) \in Nat
    BY DEF TypeInv
  <2>2. log' = Append(log, CommitRecord(t, commit_ts + 1)) /\ synced' = Len(log')
    BY DEF commit, WalAppend, WalSync
  <2>3. CommitRecord(t, commit_ts + 1) \in Record
    BY <1>1, ShortRecordsAre
  <2>4. log' \in Seq(Record) /\ Len(log') \in Nat
    BY <2>1, <2>2, <2>3, AppendIs
  <2>. QED  BY <2>2, <2>4
<1>4. committed' \in [Keys -> Cell] /\ settled' \in [Keys -> Cell]
  BY <1>1, OverrideType DEF commit
<1>5. /\ txns' = Without(txns, t) /\ active' = Without(active, t)
      /\ UNCHANGED <<phase, pos, pending, next_txn>> /\ phase = "up"
  BY DEF commit, Finish, replay
<1>6. /\ DOMAIN txns' = DOMAIN txns \ {t} /\ txns' \in [DOMAIN txns' -> Handle]
      /\ active' \in [DOMAIN txns' -> Nat]
      /\ \A u \in DOMAIN txns' : txns'[u] = txns[u] /\ active'[u] = active[u]
  <2>1. txns \in [DOMAIN txns -> Handle] /\ active \in [DOMAIN txns -> Nat]
    BY DEF TypeInv
  <2>. QED  BY <1>5, <2>1 DEF Without
<1>7. \A u \in DOMAIN txns' : /\ u \in 1..bound'.txn
                              /\ active'[u] = txns'[u].snapshot
                              /\ active'[u] <= commit_ts'
  <2>1. \A u \in DOMAIN txns : /\ u \in 1..bound.txn /\ active[u] = txns[u].snapshot
                               /\ active[u] <= commit_ts /\ active[u] \in Nat
    BY DEF TypeInv
  <2>. QED  BY <1>1, <1>6, <2>1
<1>. QED  BY <1>1, <1>2, <1>3, <1>4, <1>5, <1>6, <1>7 DEF TypeInv

\* A failing commit and an abort, failing or not, end the transaction.
LEMMA OutcomeType ==
  ASSUME TypeInv, NEW t \in DOMAIN txns,
         CommitSyncFails(t) \/ abort(t) \/ AbortSyncFails(t), UNCHANGED bound
  PROVE  TypeInv'
<1>1. t \in Nat /\ commit_ts \in Nat
  BY HandleIs DEF TypeInv
<1>2. CommitRecord(t, commit_ts + 1) \in Record /\ AbortRecord(t) \in Record
  BY <1>1, ShortRecordsAre
<1>3. CASE CommitSyncFails(t)
  <2>1. Finish(t) /\ WalAppend(CommitRecord(t, commit_ts + 1)) /\ synced' = synced
    BY <1>3 DEF CommitSyncFails
  <2>2. UNCHANGED <<bound, phase, replay, versions, next_txn, commit_ts, committed, settled>>
    BY <1>3 DEF CommitSyncFails
  <2>. QED  BY <1>2, <2>1, <2>2, FinishType
<1>4. CASE abort(t)
  <2>1. Finish(t) /\ WalAppend(AbortRecord(t)) /\ synced' = Len(log')
    BY <1>4 DEF abort, WalSync
  <2>2. UNCHANGED <<bound, phase, replay, versions, next_txn, commit_ts, committed, settled>>
    BY <1>4 DEF abort, history
  <2>. QED  BY <1>2, <2>1, <2>2, FinishType
<1>5. CASE AbortSyncFails(t)
  <2>1. Finish(t) /\ WalAppend(AbortRecord(t)) /\ synced' = synced
    BY <1>5 DEF AbortSyncFails
  <2>2. UNCHANGED <<bound, phase, replay, versions, next_txn, commit_ts, committed, settled>>
    BY <1>5 DEF AbortSyncFails
  <2>. QED  BY <1>2, <2>1, <2>2, FinishType
<1>. QED  BY <1>3, <1>4, <1>5

\* Dropping the handle ends the transaction.
LEMMA DropType ==
  ASSUME TypeInv, NEW t \in DOMAIN txns, drop(t), UNCHANGED bound
  PROVE  TypeInv'
<1>1. /\ Finish(t) /\ phase = "up"
      /\ UNCHANGED <<bound, log, synced, phase, pos, pending, versions, next_txn, commit_ts,
                     committed, settled>>
  BY DEF drop, disk, replay, history
<1>. QED  BY <1>1, FinishIs, Zenon DEF TypeInv

\* An append that stops part-way, in any operation, keeps the types.
LEMMA AppendFailsType ==
  ASSUME TypeInv, AppendFails, UNCHANGED bound
  PROVE  TypeInv'
<1>1. /\ WalAppend(Torn) /\ synced' = synced /\ phase = "up"
      /\ UNCHANGED <<phase, replay, versions, commit_ts, committed, settled>>
  BY DEF AppendFails
<1>2. Torn \in Record
  BY DEF Record
<1>3. CASE next_txn' = next_txn + 1 /\ UNCHANGED <<active, txns>>
  <2>1. log' \in Seq(Record) /\ synced' \in 0..Len(log')
    BY <1>1, <1>2, AppendIs DEF TypeInv, WalAppend
  <2>2. next_txn' \in Nat \ {0} /\ pos' = pos /\ pending' = pending
    BY <1>1, <1>3 DEF TypeInv, replay
  <2>. QED  BY <1>1, <1>3, <2>1, <2>2 DEF TypeInv
<1>4. CASE UNCHANGED <<active, txns, next_txn>>
  <2>1. log' \in Seq(Record) /\ synced' \in 0..Len(log')
    BY <1>1, <1>2, AppendIs DEF TypeInv, WalAppend
  <2>2. pos' = pos /\ pending' = pending
    BY <1>1 DEF replay
  <2>. QED  BY <1>1, <1>4, <2>1, <2>2 DEF TypeInv
<1>5. CASE \E t \in DOMAIN txns : Finish(t) /\ UNCHANGED next_txn
  <2>1. PICK t \in DOMAIN txns : Finish(t) /\ UNCHANGED next_txn
    BY <1>5
  <2>2. UNCHANGED <<bound, phase, replay, versions, next_txn, commit_ts, committed, settled>>
    BY <1>1, <2>1
  <2>. QED  BY <1>1, <1>2, <2>1, <2>2, FinishType
<1>. QED  BY <1>3, <1>4, <1>5 DEF AppendFails

\* What gc does to each chain.
LEMMA GcIs ==
  ASSUME gc
  PROVE  /\ phase = "up"
         /\ \A k \in Keys : versions'[k] = Reclaimed(versions[k], watermark)
         /\ UNCHANGED <<log, synced, phase, pos, pending, active, next_txn, commit_ts, txns,
                        committed, settled, used, errors, crashes, seen>>
<1>1. \A k \in Keys : versions'[k] = Reclaimed(versions[k], watermark)
  BY DEF gc, Reclaimed
<1>. QED  BY <1>1 DEF gc, disk, replay, history

\* gc keeps the chains ordered.
LEMMA GcType ==
  ASSUME SetFacts, TypeInv, gc, UNCHANGED bound
  PROVE  TypeInv'
<1>1. ASSUME NEW k \in Keys PROVE Chain(versions'[k], commit_ts)
  <2>1. Chain(versions[k], commit_ts) /\ commit_ts \in Nat /\ watermark \in Nat
    BY WatermarkIs DEF TypeInv
  <2>2. Chain(Reclaimed(versions[k], watermark), commit_ts)
    BY <2>1, ReclaimedChain
  <2>. QED  BY <2>2, GcIs
<1>. QED  BY <1>1, GcIs DEF TypeInv

\* The records in flight, and what a crash leaves of the log and of the
\* history.
LEMMA InFlightIs ==
  ASSUME TypeInv, NEW r \in InFlight
  PROVE  /\ r \in Record /\ phase = "up"
         /\ \/ r = BeginRecord(next_txn, commit_ts)
            \/ \E t \in DOMAIN txns : r = CommitRecord(t, commit_ts + 1) /\ ~conflicts(t)
            \/ \E t \in DOMAIN txns : r = AbortRecord(t)
<1>1. phase = "up"
  BY DEF InFlight
<1>2. \/ r = BeginRecord(next_txn, commit_ts)
      \/ \E t \in DOMAIN txns : r = CommitRecord(t, commit_ts + 1) /\ ~conflicts(t)
      \/ \E t \in DOMAIN txns : r = AbortRecord(t)
  BY <1>1 DEF InFlight
<1>3. next_txn \in Nat /\ commit_ts \in Nat /\ commit_ts + 1 \in Nat
  BY DEF TypeInv
<1>4. r \in Record
  BY <1>2, <1>3, HandleIs, ShortRecordsAre
<1>. QED  BY <1>1, <1>2, <1>4

CrashedLog(whole) ==
  /\ whole \in Seq(Record)
  /\ whole = log \/ \E r \in InFlight : whole = Append(log, r)
  /\ log' \in Seq(Record) /\ Len(log') \in synced..Len(whole)
  /\ \A i \in 1..Len(log') : log'[i] = whole[i]
  /\ synced' = synced \/ synced' = Len(log')

\* The commit in flight reaches the log; a commit is lost; or neither.
CrashFinds(whole) ==
  \E t \in DOMAIN txns :
    /\ ~conflicts(t)
    /\ whole = Append(log, CommitRecord(t, commit_ts + 1)) /\ Len(log') = Len(log) + 1
    /\ committed' = Override(committed, txns[t].writes) /\ settled' = committed

CrashLoses ==
  /\ \E c \in (Len(log') + 1)..Len(log) : log[c].tag = "commit"
  /\ committed' = settled /\ settled' = settled

CrashKeeps(whole) ==
  /\ \A i \in (Len(log') + 1)..Len(log) : log[i].tag # "commit"
  /\ \A i \in (Len(log) + 1)..Len(log') : whole[i].tag # "commit"
  /\ committed' = committed /\ settled' = settled

\* The three ways in which a crash leaves the log.
LEMMA CrashIs ==
  ASSUME TypeInv, Crash
  PROVE  \E whole : CrashedLog(whole) /\ (CrashFinds(whole) \/ CrashLoses \/ CrashKeeps(whole))
<1> DEFINE Cut(w) == \/ log' = log \o w /\ synced' = synced
                     \/ \E n \in synced..Len(log \o w) :
                          log' = SubSeq(log \o w, 1, n) /\ synced' = n
           found(w) == {i \in (Len(log) + 1)..Len(log') : (log \o w)[i].tag = "commit"}
           lost(w) == {i \in (Len(log') + 1)..Len(log) : (log \o w)[i].tag = "commit"}
           After(w) == /\ committed' = IF found(w) # {} THEN Override(committed, txns[w[1].txn].writes)
                                       ELSE IF lost(w) # {} THEN settled ELSE committed
                       /\ settled' = IF found(w) # {} THEN committed ELSE settled
<1>1. PICK w \in {<<>>} \cup {<<r>> : r \in InFlight} : Cut(w) /\ After(w)
  BY Zenon DEF Crash
<1>2. log \in Seq(Record) /\ Len(log) \in Nat /\ synced \in 0..Len(log)
  BY DEF TypeInv
<1> DEFINE whole == log \o w
<1>3. /\ whole \in Seq(Record) /\ Len(whole) \in Nat /\ Len(log) <= Len(whole)
      /\ whole = log \/ \E r \in InFlight : whole = Append(log, r)
      /\ \A i \in 1..Len(log) : whole[i] = log[i]
  <2>1. CASE w = <<>>
    <3>1. whole = log
      BY <1>2, <2>1
    <3> HIDE DEF whole
    <3>. QED  BY <1>2, <3>1
  <2>2. CASE \E r \in InFlight : w = <<r>>
    <3>1. PICK r \in InFlight : w = <<r>>
      BY <2>2
    <3>2. r \in Record
      BY InFlightIs
    <3>3. whole = Append(log, r)
      BY <1>2, <3>1, <3>2
    <3> HIDE DEF whole
    <3>. QED  BY <1>2, <3>2, <3>3, AppendIs
  <2>. QED  BY <2>1, <2>2
<1>4. CrashedLog(whole)
  <2>1. CASE log' = whole /\ synced' = synced
    <3> HIDE DEF whole
    <3>1. Len(log') \in synced..Len(whole)
      BY <1>2, <1>3, <2>1
    <3>. QED  BY <1>3, <2>1, <3>1 DEF CrashedLog
  <2>2. CASE \E n \in synced..Len(whole) : log' = SubSeq(whole, 1, n) /\ synced' = n
    <3> HIDE DEF whole
    <3>1. PICK n \in synced..Len(whole) : log' = SubSeq(whole, 1, n) /\ synced' = n
      BY <2>2
    <3>2. n \in 0..Len(whole)
      BY <1>2, <1>3
    <3>3. Len(log') = n /\ log' \in Seq(Record) /\ \A i \in 1..n : log'[i] = whole[i]
      BY <1>3, <3>1, <3>2
    <3>. QED  BY <1>3, <3>1, <3>3 DEF CrashedLog
  <2>. QED  BY <1>1, <2>1, <2>2
<1>5. Len(log') \in Nat /\ Len(log') <= Len(whole)
  BY <1>2, <1>3, <1>4 DEF CrashedLog
<1>6. CASE found(w) # {}
  <2>1. PICK i \in (Len(log) + 1)..Len(log') : whole[i].tag = "commit"
    BY <1>6, Zenon
  <2>2. w # <<>>
    <3>1. ASSUME w = <<>> PROVE Len(whole) = Len(log)
      BY <1>2, <3>1
    <3>. QED  BY <1>2, <1>5, <2>1, <3>1
  <2>3. PICK r \in InFlight : w = <<r>>
    BY <1>1, <2>2
  <2>4. r \in Record /\ whole = Append(log, r)
    BY <1>2, <2>3, InFlightIs
  <2>5. Len(whole) = Len(log) + 1 /\ whole[Len(log) + 1] = r
    BY <1>2, <2>4, AppendIs
  <2>6. i = Len(log) + 1 /\ Len(log') = Len(log) + 1
    BY <1>2, <1>5, <2>1, <2>5
  <2>7. r.tag = "commit"
    BY <2>1, <2>5, <2>6
  <2>8. PICK t \in DOMAIN txns : r = CommitRecord(t, commit_ts + 1) /\ ~conflicts(t)
    BY <2>7, InFlightIs DEF BeginRecord, AbortRecord
  <2>9. w[1].txn = t
    BY <2>3, <2>8 DEF CommitRecord
  <2>10. committed' = Override(committed, txns[t].writes) /\ settled' = committed
    BY <1>1, <1>6, <2>9
  <2>11. CrashFinds(whole)
    BY <2>4, <2>6, <2>8, <2>10 DEF CrashFinds
  <2>. QED  BY <1>4, <2>11
<1>7. CASE found(w) = {} /\ lost(w) # {}
  <2>1. committed' = settled /\ settled' = settled
    BY <1>1, <1>7
  <2>2. PICK i \in (Len(log') + 1)..Len(log) : whole[i].tag = "commit"
    BY <1>7
  <2>3. i \in 1..Len(log)
    BY <1>2, <1>5
  <2>4. log[i].tag = "commit"
    BY <1>3, <2>2, <2>3
  <2>5. CrashLoses
    BY <2>1, <2>4 DEF CrashLoses
  <2>. QED  BY <1>4, <2>5
<1>8. CASE found(w) = {} /\ lost(w) = {}
  <2>1. committed' = committed /\ settled' = settled
    BY <1>1, <1>8
  <2>2. \A i \in (Len(log) + 1)..Len(log') : whole[i].tag # "commit"
    BY <1>8, Zenon
  <2>3. \A i \in (Len(log') + 1)..Len(log) : whole[i].tag # "commit" /\ i \in 1..Len(log)
    BY <1>2, <1>5, <1>8
  <2>4. \A i \in (Len(log') + 1)..Len(log) : log[i].tag # "commit"
    BY <1>3, <2>3
  <2>5. CrashKeeps(whole)
    BY <2>1, <2>2, <2>4, Zenon DEF CrashKeeps
  <2>. QED  BY <1>4, <2>5
<1>. QED  BY <1>6, <1>7, <1>8, Zenon

\* A crash leaves no transaction open and nothing in memory.
LEMMA CrashType ==
  ASSUME TypeInv, Crash, UNCHANGED bound
  PROVE  TypeInv'
<1>1. PICK whole : CrashedLog(whole) /\ (CrashFinds(whole) \/ CrashLoses \/ CrashKeeps(whole))
  BY CrashIs
<1>2. log' \in Seq(Record) /\ synced' \in 0..Len(log')
  <2>1. synced \in 0..Len(log) /\ whole \in Seq(Record) /\ Len(whole) \in Nat
    BY <1>1 DEF TypeInv, CrashedLog
  <2>. QED  BY <1>1, <2>1 DEF CrashedLog
<1>3. committed' \in [Keys -> Cell] /\ settled' \in [Keys -> Cell]
  <2>1. committed \in [Keys -> Cell] /\ settled \in [Keys -> Cell]
    BY DEF TypeInv
  <2>2. CASE CrashFinds(whole)
    BY <2>1, <2>2, HandleIs, OverrideType DEF CrashFinds
  <2>. QED  BY <1>1, <2>1, <2>2 DEF CrashLoses, CrashKeeps
<1>4. /\ phase' = "replay" /\ pos' = 1 /\ pending' = <<>> /\ active' = <<>> /\ next_txn' = 1
      /\ commit_ts' = 0 /\ txns' = <<>> /\ \A k \in Keys : versions'[k] = <<>>
  BY DEF Crash, StartOpen
<1>5. \A k \in Keys : Chain(versions'[k], commit_ts')
  BY <1>4, EmptyChain
<1>6. /\ pending' \in [DOMAIN pending' -> Writes] /\ txns' \in [DOMAIN txns' -> Handle]
      /\ active' \in [DOMAIN txns' -> Nat] /\ DOMAIN txns' = {}
  BY <1>4, NoWrites
<1>. QED  BY <1>2, <1>3, <1>4, <1>5, <1>6 DEF TypeInv

\* Every step keeps the types and the order of the chains.
LEMMA NextType ==
  ASSUME SetFacts, TypeInv, [Next]_vars
  PROVE  TypeInv'
<1>1. CASE Next
  <2>1. UNCHANGED bound
    BY <1>1 DEF Next
  <2>2. CASE ReplayFails
    BY <2>1, <2>2 DEF ReplayFails, disk, inner, replay, history, TypeInv
  <2>3. CASE \E t \in DOMAIN txns : \E k \in Keys, value \in Cell : set(t, k, value)
    BY <2>1, <2>3, SetType
  <2>4. CASE \E t \in DOMAIN txns : commit(t) \/ CommitSyncFails(t) \/ abort(t)
                                    \/ AbortSyncFails(t) \/ drop(t)
    BY <2>1, <2>4, CommitType, OutcomeType, DropType
  <2>. QED
    BY <1>1, <2>1, <2>2, <2>3, <2>4, ReplayRecordType, FinishOpenType, BeginType,
       BeginSyncFailsType, AppendFailsType, GcType, CrashType DEF Next
<1>2. CASE UNCHANGED vars
  BY <1>2, SMTT(30) DEF vars, TypeInv
<1>. QED  BY <1>1, <1>2

\* The invariant gives the type invariant of Mvcc.
LEMMA TypeInvIsTypeOK == TypeInv => TypeOK
<1> SUFFICES ASSUME TypeInv PROVE TypeOK
  OBVIOUS
<1>0. commit_ts \in Nat
  BY SMTT(30) DEF TypeInv
<1>1. ASSUME NEW k \in Keys, NEW i \in DOMAIN versions[k]
      PROVE  LET v == versions[k][i]
             IN  /\ v.value \in Values /\ v.created \in 1..commit_ts
                 /\ v.deleted = Live => i = Len(versions[k])
                 /\ v.deleted # Live => v.deleted \in (v.created + 1)..commit_ts
                 /\ i > 1 => versions[k][i - 1].deleted <= v.created
  <2>1. Chain(versions[k], commit_ts)
    BY DEF TypeInv
  <2>2. i \in 1..Len(versions[k]) /\ Len(versions[k]) \in Nat
    BY <2>1, ChainLength
  <2>3. versions[k][i].deleted = Live => i = Len(versions[k])
    BY <2>1, <2>2, LiveIsLast
  <2>4. ASSUME i > 1 PROVE versions[k][i - 1].deleted <= versions[k][i].created
    <3>1. i - 1 \in 1..Len(versions[k]) /\ i - 1 < i
      BY <2>2, <2>4
    <3>. QED  BY <2>1, <2>2, <3>1 DEF Chain
  <2>5. /\ versions[k][i].value \in Values /\ versions[k][i].created \in 1..commit_ts
        /\ versions[k][i].deleted # Live =>
             versions[k][i].deleted \in (versions[k][i].created + 1)..commit_ts
    BY <1>0, <2>1, <2>2, VersionFields, Zenon DEF Chain
  <2>. QED  BY <2>3, <2>4, <2>5, Zenon
<1>2. \A t \in DOMAIN txns : t \in Ids /\ txns[t].snapshot \in 0..commit_ts
  <2>1. \A t \in DOMAIN txns : t \in Ids
    BY BoundIs DEF TypeInv
  <2>. QED  BY <1>0, <2>1, HandleIs
<1>3. /\ synced \in 0..Len(log) /\ phase \in {"replay", "up", "failed"}
      /\ committed \in [Keys -> Cell] /\ settled \in [Keys -> Cell]
  BY DEF TypeInv
<1>. QED  BY <1>1, <1>2, <1>3 DEF TypeOK

-----------------------------------------------------------------------------
\* What a log says.

\* Among the first n records of log l: t has begun, t has an outcome, t has
\* written k, and v is the last value that t has written to k.
Begins(l, n, t) == \E i \in 1..n : l[i].tag = "begin" /\ l[i].txn = t

Outcome(r) == r.tag \in {"commit", "abort"}

Ends(l, n, t) == \E i \in 1..n : Outcome(l[i]) /\ l[i].txn = t

IsWrite(r, t, k) == r.tag = "write" /\ r.txn = t /\ r.key = k

Wrote(l, n, t, k) == \E i \in 1..n : IsWrite(l[i], t, k)

LastWrite(l, n, t, k, v) ==
  \E i \in 1..n : /\ IsWrite(l[i], t, k) /\ l[i].value = v
                  /\ \A j \in (i + 1)..n : ~IsWrite(l[j], t, k)

\* The record at c commits a transaction that has written k.
CommitsKey(l, c, k) == l[c].tag = "commit" /\ Wrote(l, c, l[c].txn, k)

\* v is the value of k after the commits among the first n records.
ValueIs(l, n, k, v) ==
  \/ \E c \in 1..n : /\ l[c].tag = "commit" /\ LastWrite(l, c, l[c].txn, k, v)
                     /\ \A d \in (c + 1)..n : ~CommitsKey(l, d, k)
  \/ v = None /\ \A c \in 1..n : ~CommitsKey(l, c, k)

\* The first n records hold the buffered writes w of t.
WritesAre(l, n, t, w) ==
  \A k \in Keys : /\ k \in DOMAIN w => LastWrite(l, n, t, k, w[k])
                  /\ k \notin DOMAIN w => ~Wrote(l, n, t, k)

\* A log without damage: a transaction's records begin with its begin record
\* and end with its outcome, and the timestamps of commits increase.
LogInv(l) ==
  /\ \A i \in 1..Len(l) :
       /\ l[i].tag # "torn"
       /\ l[i].tag # "begin" => Begins(l, i - 1, l[i].txn)
       /\ l[i].tag = "commit" => l[i].ts > 0
       /\ Outcome(l[i]) => \A j \in (i + 1)..Len(l) : l[j].txn # l[i].txn
  /\ \A i, j \in 1..Len(l) :
       i < j /\ l[i].tag = "commit" /\ l[j].tag = "commit" => l[i].ts < l[j].ts

\* Two logs that agree on their first n records.
Agree(l, m, n) == \A i \in 1..n : l[i] = m[i]

\* Logs that agree say the same of a transaction.
LEMMA AgreeFacts ==
  ASSUME NEW l, NEW m, NEW n \in Nat, Agree(l, m, n), NEW t, NEW k, NEW v
  PROVE  /\ Begins(l, n, t) <=> Begins(m, n, t)
         /\ Ends(l, n, t) <=> Ends(m, n, t)
         /\ Wrote(l, n, t, k) <=> Wrote(m, n, t, k)
         /\ LastWrite(l, n, t, k, v) <=> LastWrite(m, n, t, k, v)
<1>1. /\ Begins(l, n, t) <=> Begins(m, n, t)
      /\ Ends(l, n, t) <=> Ends(m, n, t)
      /\ Wrote(l, n, t, k) <=> Wrote(m, n, t, k)
  BY DEF Agree, Begins, Ends, Wrote
<1>2. \A i \in 1..n : \A j \in (i + 1)..n : j \in 1..n
  OBVIOUS
<1>3. LastWrite(l, n, t, k, v) <=> LastWrite(m, n, t, k, v)
  BY <1>2 DEF Agree, LastWrite
<1>. QED  BY <1>1, <1>3

\* Logs that agree give a key the same value.
LEMMA AgreeValue ==
  ASSUME NEW l, NEW m, NEW n \in Nat, Agree(l, m, n), NEW k, NEW v
  PROVE  ValueIs(l, n, k, v) <=> ValueIs(m, n, k, v)
<1>1. ASSUME NEW c \in 1..n
      PROVE  /\ l[c] = m[c]
             /\ CommitsKey(l, c, k) <=> CommitsKey(m, c, k)
             /\ \A t : LastWrite(l, c, t, k, v) <=> LastWrite(m, c, t, k, v)
  <2>1. Agree(l, m, c) /\ c \in Nat
    BY DEF Agree
  <2>2. l[c] = m[c]
    BY DEF Agree
  <2>. QED  BY <2>1, <2>2, AgreeFacts DEF CommitsKey
<1>2. \A c \in 1..n : \A d \in (c + 1)..n : d \in 1..n
  OBVIOUS
<1>. QED  BY <1>1, <1>2, SMTT(30) DEF ValueIs

\* A transaction's last write of a key has one value.
LEMMA LastWriteUnique ==
  ASSUME NEW l, NEW n \in Nat, NEW t, NEW k, NEW v, NEW u,
         LastWrite(l, n, t, k, v), LastWrite(l, n, t, k, u)
  PROVE  v = u /\ Wrote(l, n, t, k)
<1>1. PICK i \in 1..n : /\ IsWrite(l[i], t, k) /\ l[i].value = v
                        /\ \A j \in (i + 1)..n : ~IsWrite(l[j], t, k)
  BY DEF LastWrite
<1>2. PICK i2 \in 1..n : /\ IsWrite(l[i2], t, k) /\ l[i2].value = u
                         /\ \A j \in (i2 + 1)..n : ~IsWrite(l[j], t, k)
  BY DEF LastWrite
<1>3. i2 \notin (i + 1)..n /\ i \notin (i2 + 1)..n
  BY <1>1, <1>2
<1>4. i = i2
  BY <1>3
<1>. QED  BY <1>1, <1>2, <1>4 DEF Wrote

\* A log gives a key one value.
LEMMA ValueUnique ==
  ASSUME NEW l, NEW n \in Nat, NEW k, NEW v, NEW u, ValueIs(l, n, k, v), ValueIs(l, n, k, u)
  PROVE  v = u
<1> DEFINE From(c, x) == /\ l[c].tag = "commit" /\ LastWrite(l, c, l[c].txn, k, x)
                         /\ \A d \in (c + 1)..n : ~CommitsKey(l, d, k)
           Nothing == \A c \in 1..n : ~CommitsKey(l, c, k)
<1>1. /\ (\E c \in 1..n : From(c, v)) \/ (v = None /\ Nothing)
      /\ (\E c \in 1..n : From(c, u)) \/ (u = None /\ Nothing)
  BY SMTT(30) DEF ValueIs
<1>2. ASSUME NEW c \in 1..n, NEW x, From(c, x) PROVE CommitsKey(l, c, k)
  <2>1. c \in Nat /\ LastWrite(l, c, l[c].txn, k, x)
    BY <1>2
  <2>. QED  BY <1>2, <2>1, LastWriteUnique DEF CommitsKey
<1>3. ASSUME NEW c \in 1..n, NEW d \in 1..n, From(c, v), From(d, u) PROVE v = u
  <2>1. CommitsKey(l, c, k) /\ CommitsKey(l, d, k)
    BY <1>2, <1>3, SMTT(30)
  <2>2. c \notin (d + 1)..n /\ d \notin (c + 1)..n
    BY <1>3, <2>1
  <2>3. c = d /\ c \in Nat
    BY <2>2
  <2>. QED  BY <1>3, <2>3, LastWriteUnique
<1> HIDE DEF From
<1>. QED  BY <1>1, <1>2, <1>3

\* Records that are not commits change no value.
LEMMA ValueKeeps ==
  ASSUME NEW l, NEW n \in Nat, NEW m \in Nat, n <= m,
         \A i \in (n + 1)..m : l[i].tag # "commit", NEW k, NEW v
  PROVE  ValueIs(l, n, k, v) <=> ValueIs(l, m, k, v)
<1>1. \A i \in (n + 1)..m : ~CommitsKey(l, i, k)
  BY DEF CommitsKey
<1>2. \A c \in 1..m : c \in 1..n \/ c \in (n + 1)..m
  OBVIOUS
<1>3. \A c \in 1..n : /\ c \in 1..m
                      /\ \A d \in (c + 1)..m : d \in (c + 1)..n \/ d \in (n + 1)..m
                      /\ \A d \in (c + 1)..n : d \in (c + 1)..m
  OBVIOUS
<1>4. ASSUME ValueIs(l, n, k, v) PROVE ValueIs(l, m, k, v)
  BY <1>1, <1>2, <1>3, <1>4 DEF ValueIs
<1>5. ASSUME ValueIs(l, m, k, v) PROVE ValueIs(l, n, k, v)
  BY <1>1, <1>2, <1>3, <1>5, SMTT(30) DEF ValueIs
<1>. QED  BY <1>4, <1>5

\* A commit gives each key its transaction's last write, if there is one.
LEMMA ValueCommit ==
  ASSUME NEW l, NEW n \in Nat, NEW k, NEW v, l[n + 1].tag = "commit",
         \/ LastWrite(l, n, l[n + 1].txn, k, v)
         \/ ValueIs(l, n, k, v) /\ ~Wrote(l, n, l[n + 1].txn, k)
  PROVE  ValueIs(l, n + 1, k, v)
<1> DEFINE t == l[n + 1].txn
<1>0. ~IsWrite(l[n + 1], t, k)
  BY DEF IsWrite
<1>1. CASE LastWrite(l, n, t, k, v)
  <2>1. PICK i \in 1..n : /\ IsWrite(l[i], t, k) /\ l[i].value = v
                          /\ \A j \in (i + 1)..n : ~IsWrite(l[j], t, k)
    BY <1>1 DEF LastWrite
  <2>2. i \in 1..(n + 1) /\ \A j \in (i + 1)..(n + 1) : j \in (i + 1)..n \/ j = n + 1
    OBVIOUS
  <2>3. LastWrite(l, n + 1, t, k, v)
    BY <1>0, <2>1, <2>2 DEF LastWrite
  <2>4. n + 1 \in 1..(n + 1) /\ (n + 1 + 1)..(n + 1) = {}
    BY SMTT(30)
  <2>. QED  BY <2>3, <2>4 DEF ValueIs
<1>2. CASE ValueIs(l, n, k, v) /\ ~Wrote(l, n, t, k)
  <2>1. \A i \in 1..(n + 1) : i \in 1..n \/ i = n + 1
    BY SMTT(30)
  <2>2. ~CommitsKey(l, n + 1, k)
    BY <1>0, <1>2, <2>1 DEF CommitsKey, Wrote
  <2>3. \A c \in 1..n : /\ c \in 1..(n + 1)
                        /\ \A d \in (c + 1)..(n + 1) : d \in (c + 1)..n \/ d = n + 1
    OBVIOUS
  <2>. QED  BY <1>2, <2>1, <2>2, <2>3 DEF ValueIs
<1>. QED  BY <1>1, <1>2

-----------------------------------------------------------------------------
\* One more record.

\* What one more record says of begins and outcomes.
LEMMA GrowFacts ==
  ASSUME NEW l, NEW n \in Nat, NEW t
  PROVE  /\ Begins(l, n + 1, t) <=> \/ Begins(l, n, t)
                                    \/ l[n + 1].tag = "begin" /\ l[n + 1].txn = t
         /\ Ends(l, n + 1, t) <=> \/ Ends(l, n, t)
                                  \/ Outcome(l[n + 1]) /\ l[n + 1].txn = t
<1>1. \A i : i \in 1..(n + 1) <=> i \in 1..n \/ i = n + 1
  OBVIOUS
<1>. QED  BY <1>1 DEF Begins, Ends

\* What one more record says of writes.
LEMMA GrowWrites ==
  ASSUME NEW l, NEW n \in Nat, NEW t, NEW k
  PROVE  /\ Wrote(l, n + 1, t, k) <=> Wrote(l, n, t, k) \/ IsWrite(l[n + 1], t, k)
         /\ ~IsWrite(l[n + 1], t, k) =>
              \A v : LastWrite(l, n, t, k, v) => LastWrite(l, n + 1, t, k, v)
         /\ IsWrite(l[n + 1], t, k) => LastWrite(l, n + 1, t, k, l[n + 1].value)
<1>1. \A i : i \in 1..(n + 1) <=> i \in 1..n \/ i = n + 1
  OBVIOUS
<1>2. Wrote(l, n + 1, t, k) <=> Wrote(l, n, t, k) \/ IsWrite(l[n + 1], t, k)
  BY <1>1 DEF Wrote
<1>3. \A i \in 1..n : \A j \in (i + 1)..(n + 1) : j \in (i + 1)..n \/ j = n + 1
  OBVIOUS
<1>4. ASSUME ~IsWrite(l[n + 1], t, k), NEW v, LastWrite(l, n, t, k, v)
      PROVE  LastWrite(l, n + 1, t, k, v)
  BY <1>1, <1>3, <1>4 DEF LastWrite
<1>5. n + 1 \in 1..(n + 1) /\ ((n + 1) + 1)..(n + 1) = {}
  OBVIOUS
<1>6. IsWrite(l[n + 1], t, k) => LastWrite(l, n + 1, t, k, l[n + 1].value)
  BY <1>5 DEF LastWrite
<1>. QED  BY <1>2, <1>4, <1>6

\* A record that is not t's write leaves t's writes as they are.
LEMMA WritesSkip ==
  ASSUME NEW l, NEW n \in Nat, NEW t, NEW w, WritesAre(l, n, t, w),
         l[n + 1].tag # "write" \/ l[n + 1].txn # t
  PROVE  WritesAre(l, n + 1, t, w)
<1>1. \A k \in Keys : ~IsWrite(l[n + 1], t, k)
  BY DEF IsWrite
<1>. QED  BY <1>1, GrowWrites, Zenon DEF WritesAre

\* A write of t replaces t's value of its key.
LEMMA WritesAdd ==
  ASSUME NEW l, NEW n \in Nat, NEW t, NEW w, WritesAre(l, n, t, w), NEW k \in Keys,
         IsWrite(l[n + 1], t, k)
  PROVE  WritesAre(l, n + 1, t, With(w, k, l[n + 1].value))
<1> DEFINE u == With(w, k, l[n + 1].value)
<1>1. /\ DOMAIN u = DOMAIN w \cup {k} /\ u[k] = l[n + 1].value
      /\ \A j \in DOMAIN w : j # k => u[j] = w[j]
  BY DEF With
<1> HIDE DEF u
<1>2. LastWrite(l, n + 1, t, k, u[k])
  BY <1>1, GrowWrites, Zenon
<1>3. ASSUME NEW j \in Keys, j # k
      PROVE  /\ j \in DOMAIN u => LastWrite(l, n + 1, t, j, u[j])
             /\ j \notin DOMAIN u => ~Wrote(l, n + 1, t, j)
  <2>1. ~IsWrite(l[n + 1], t, j)
    BY <1>3 DEF IsWrite
  <2>2. /\ j \in DOMAIN w => LastWrite(l, n, t, j, w[j])
        /\ j \notin DOMAIN w => ~Wrote(l, n, t, j)
    BY DEF WritesAre
  <2>3. CASE j \in DOMAIN w
    <3>1. LastWrite(l, n, t, j, u[j]) /\ j \in DOMAIN u
      BY <1>1, <1>3, <2>2, <2>3, SMTT(30)
    <3>. QED  BY <2>1, <3>1, GrowWrites, Zenon
  <2>4. CASE j \notin DOMAIN w
    BY <1>1, <1>3, <2>1, <2>2, <2>4, GrowWrites, SMTT(30)
  <2>. QED  BY <2>3, <2>4
<1>4. WritesAre(l, n + 1, t, u)
  BY <1>1, <1>2, <1>3 DEF WritesAre
<1>. QED  BY <1>4 DEF u

\* Logs that agree hold the same writes of a transaction.
LEMMA WritesAgree ==
  ASSUME NEW l, NEW m, NEW n \in Nat, Agree(l, m, n), NEW t, NEW w
  PROVE  WritesAre(l, n, t, w) <=> WritesAre(m, n, t, w)
BY AgreeFacts DEF WritesAre

\* A transaction without records has no writes.
LEMMA WritesNone ==
  ASSUME NEW l, NEW n \in Nat, NEW t, \A i \in 1..n : l[i].tag = "write" => l[i].txn # t
  PROVE  WritesAre(l, n, t, <<>>)
<1>1. \A k \in Keys : ~Wrote(l, n, t, k)
  BY DEF Wrote, IsWrite
<1>. QED  BY <1>1, NoWrites DEF WritesAre

\* What an earlier part of the log says of begins and outcomes still holds.
LEMMA Earlier ==
  ASSUME NEW l, NEW n \in Nat, NEW m \in Nat, n <= m, NEW t
  PROVE  /\ Begins(l, n, t) => Begins(l, m, t)
         /\ Ends(l, n, t) => Ends(l, m, t)
<1>1. \A i \in 1..n : i \in 1..m
  BY SMTT(30)
<1>. QED  BY <1>1 DEF Begins, Ends

\* A prefix of an undamaged log is one.
LEMMA LogPrefix ==
  ASSUME NEW l \in Seq(Record), NEW m \in Seq(Record), LogInv(l), Len(m) <= Len(l),
         Agree(l, m, Len(m))
  PROVE  LogInv(m)
<1>0. Len(m) \in Nat /\ Len(l) \in Nat
  OBVIOUS
<1>1. \A i \in 1..Len(m) : i \in 1..Len(l) /\ m[i] = l[i]
  BY <1>0 DEF Agree
<1>2. ASSUME NEW i \in 1..Len(m)
      PROVE  /\ m[i].tag # "torn"
             /\ m[i].tag # "begin" => Begins(m, i - 1, m[i].txn)
             /\ m[i].tag = "commit" => m[i].ts > 0
             /\ Outcome(m[i]) => \A j \in (i + 1)..Len(m) : m[j].txn # m[i].txn
  <2>1. i - 1 \in Nat /\ Agree(l, m, i - 1)
    BY <1>0 DEF Agree
  <2>2. \A t : Begins(l, i - 1, t) <=> Begins(m, i - 1, t)
    BY <2>1, AgreeFacts
  <2>3. m[i] = l[i] /\ i \in 1..Len(l)
    BY <1>1
  <2>4. \A j \in (i + 1)..Len(m) : j \in (i + 1)..Len(l) /\ m[j] = l[j]
    BY <1>0, <1>1
  <2>5. /\ l[i].tag # "torn"
        /\ l[i].tag # "begin" => Begins(l, i - 1, l[i].txn)
        /\ l[i].tag = "commit" => l[i].ts > 0
        /\ Outcome(l[i]) => \A j \in (i + 1)..Len(l) : l[j].txn # l[i].txn
    BY <2>3, SMTT(30) DEF LogInv
  <2>. QED  BY <2>2, <2>3, <2>4, <2>5
<1>3. \A i, j \in 1..Len(m) :
        i < j /\ m[i].tag = "commit" /\ m[j].tag = "commit" => m[i].ts < m[j].ts
  BY <1>1 DEF LogInv
<1>. QED  BY <1>2, <1>3 DEF LogInv

=============================================================================
