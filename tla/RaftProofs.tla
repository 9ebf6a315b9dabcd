----------------------------- MODULE RaftProofs -----------------------------
(***************************************************************************)
(* The Raft cluster for any set of nodes and commands and any bounds, with *)
(* crashes of the process and persist() calls that fail: a term has one    *)
(* leader, and logs that share an entry of a term agree up to it.  The     *)
(* theorems are at the end of RaftCommitProofs.                            *)
(***************************************************************************)
EXTENDS RaftCluster, Integers, TLAPS

Node ==
  [term : Nat, vote : Nodes \union {Nobody}, log : Seq(Entry), commit : Nat,
   applied : Nat, role : {"follower", "candidate", "leader"}]

VoteReq ==
  [term : Nat \ {0}, candidate : Nodes, last_log_index : Nat, last_log_term : Nat]

AppendReq == [term : Nat, prev : Nat, prevTerm : Nat, entries : Seq(Entry), commit : Nat]

ElectOp ==
  [call : {"elect"}, id : Nodes, request : VoteReq, left : SUBSET Nodes, votes : Nat]

ObserveOp == [call : {"observe"}, id : Nodes, term : Nat]

SendOp ==
  [call : {"send"}, id : Nodes, term : Nat, log : Seq(Entry), commit : Nat,
   peers : SUBSET Nodes, left : SUBSET Nodes, prev : Nat,
   matched : UNION {[D -> Nat] : D \in SUBSET Nodes}]

PublishOp ==
  [call : {"publish"}, id : Nodes, term : Nat, log : Seq(Entry), commit : Nat,
   left : SUBSET Nodes]

Quorum == {Q \in SUBSET Nodes : Majority(Cardinality(Q))}

\* The state b (of a node in memory or on disk) comes after a: its term is
\* higher, or its vote in the same term has not changed.
Evolved(a, b) == b.term > a.term \/ (b.term = a.term /\ a.vote \in {Nobody, b.vote})

-----------------------------------------------------------------------------
\* Sets of nodes.

\* What the proofs use of the naturals and of finite sets.  The lemmas take it as
\* a hypothesis, and the theorems of RaftCommitProofs discharge it by SetFactsHold:
\* so the library's theorems on finite sets are in scope only where they are needed.
SetFacts ==
  /\ \A T \in SUBSET Nat : T # {} => \E x \in T : \A y \in T : x <= y
  /\ \A S \in SUBSET Nodes : Cardinality(S) \in Nat
  /\ \A S, T \in SUBSET Nodes : S \subseteq T => Cardinality(S) <= Cardinality(T)
  /\ \A S, T \in SUBSET Nodes :
       Cardinality(S) + Cardinality(T) > Cardinality(Nodes) => S \cap T # {}
  /\ \A S \in SUBSET Nodes : \A n \in Nodes \ S : Cardinality(S \union {n}) = Cardinality(S) + 1
  /\ Cardinality(Nodes) # 0 /\ \A n \in Nodes : Cardinality({n}) = 1

\* Parts of logs, their concatenation and their equality.
LEMMA PartIs ==
  ASSUME NEW l \in Seq(Entry), NEW m \in Nat \ {0}, NEW n \in Nat, n <= Len(l)
  PROVE  /\ SubSeq(l, m, n) \in Seq(Entry)
         /\ Len(SubSeq(l, m, n)) = IF m <= n THEN n - m + 1 ELSE 0
         /\ \A i \in 1..(n - m + 1) : SubSeq(l, m, n)[i] = l[m + i - 1]
<1>1. SubSeq(l, m, n) \in Seq(Entry)
  OBVIOUS
<1>2. Len(SubSeq(l, m, n)) = IF m <= n THEN n - m + 1 ELSE 0
  OBVIOUS
<1>3. \A i \in 1..(n - m + 1) : SubSeq(l, m, n)[i] = l[m + i - 1]
  OBVIOUS
<1>. QED  BY <1>1, <1>2, <1>3

\* Concatenation of logs.
LEMMA JoinIs ==
  ASSUME NEW l \in Seq(Entry), NEW m \in Seq(Entry)
  PROVE  /\ l \o m \in Seq(Entry) /\ Len(l \o m) = Len(l) + Len(m)
         /\ \A i \in 1..(Len(l) + Len(m)) : (l \o m)[i] = IF i <= Len(l) THEN l[i] ELSE m[i - Len(l)]
<1>1. l \o m \in Seq(Entry) /\ Len(l \o m) = Len(l) + Len(m)
  OBVIOUS
<1>2. \A i \in 1..(Len(l) + Len(m)) : (l \o m)[i] = IF i <= Len(l) THEN l[i] ELSE m[i - Len(l)]
  OBVIOUS
<1>. QED  BY <1>1, <1>2

\* Logs with the same entries are equal.
LEMMA SameLog ==
  ASSUME NEW l \in Seq(Entry), NEW m \in Seq(Entry), Len(l) = Len(m),
         \A i \in 1..Len(l) : l[i] = m[i]
  PROVE  l = m
OBVIOUS

\* A bounded set of naturals has a a greatest.
LEMMA GreatestOf ==
  ASSUME SetFacts, NEW n \in Nat, NEW S, S \subseteq 0..n, S # {}
  PROVE  \E x \in S : \A y \in S : y <= x
<1>1. PICK T : T = {n - x : x \in S}
  BY Zenon
<1>2. \A x \in S : x \in Nat /\ x <= n /\ n - x \in Nat
  OBVIOUS
<1>3. T \in SUBSET Nat /\ T # {}
  BY <1>1, <1>2, Zenon
<1>4. PICK d \in T : \A e \in T : d <= e
  BY <1>3, Zenon DEF SetFacts
<1>5. PICK x \in S : d = n - x
  BY <1>1
<1>6. \A y \in S : n - y \in T /\ n - x <= n - y
  BY <1>1, <1>4, <1>5
<1>. QED  BY <1>2, <1>6

\* The node that a call turns to next is one of those left.
LEMMA FirstIsIn ==
  ASSUME SetFacts, NEW ids, ids \subseteq Nodes, ids # {}
  PROVE  First(ids) \in ids
<1>1. ids \in SUBSET Nat
  BY RaftAssumption
<1>2. \E i \in ids : \A j \in ids : i <= j
  BY <1>1, Zenon DEF SetFacts
<1>. QED  BY <1>2 DEF First

\* Two quorums have a node in common.
LEMMA QuorumsMeet ==
  ASSUME SetFacts, NEW Q \in Quorum, NEW R \in Quorum
  PROVE  \E v \in Nodes : v \in Q /\ v \in R
<1>1. Q \in SUBSET Nodes /\ R \in SUBSET Nodes /\ Nodes \in SUBSET Nodes
  BY DEF Quorum
<1>2. Cardinality(Nodes) \in Nat /\ Cardinality(Q) \in Nat /\ Cardinality(R) \in Nat
  BY <1>1, Zenon DEF SetFacts
<1>3. 2 * Cardinality(Q) > Cardinality(Nodes) /\ 2 * Cardinality(R) > Cardinality(Nodes)
  BY DEF Quorum, Majority
<1>4. Cardinality(Q) + Cardinality(R) > Cardinality(Nodes)
  BY <1>2, <1>3
<1>5. Q \cap R # {}
  BY <1>1, <1>4, Zenon DEF SetFacts
<1>. QED  BY <1>1, <1>5

\* A set of nodes that contains a quorum is one.
LEMMA LargerQuorum ==
  ASSUME SetFacts, NEW Q \in Quorum, NEW R \in SUBSET Nodes, Q \subseteq R
  PROVE  R \in Quorum
<1>1. Q \in SUBSET Nodes /\ Nodes \in SUBSET Nodes
  BY DEF Quorum
<1>2. /\ Cardinality(Q) <= Cardinality(R) /\ Cardinality(R) \in Nat /\ Cardinality(Q) \in Nat
      /\ Cardinality(Nodes) \in Nat
  BY <1>1, Zenon DEF SetFacts
<1>3. 2 * Cardinality(Q) > Cardinality(Nodes)
  BY DEF Quorum, Majority
<1>. QED  BY <1>2, <1>3 DEF Quorum, Majority

\* All nodes are a quorum.
LEMMA AllNodes ==
  ASSUME SetFacts
  PROVE  Nodes \in Quorum
<1>1. Nodes \in SUBSET Nodes
  OBVIOUS
<1>2. Cardinality(Nodes) \in Nat /\ Cardinality(Nodes) # 0
  BY <1>1, Zenon DEF SetFacts
<1>. QED  BY <1>2 DEF Quorum, Majority

\* Arithmetic.
LEMMA NotGreater ==
  ASSUME NEW x \in Nat, NEW y \in Nat, x >= y, ~(x > y)
  PROVE  x = y
OBVIOUS

\* A node id is a number and never the missing vote.
LEMMA NobodyIsNoNode == Nobody \notin Nodes /\ Nodes \subseteq Nat
BY RaftAssumption DEF Nobody

-----------------------------------------------------------------------------
\* What the handlers of a node do.

\* The types of a node's fields.
LEMMA NodeFields ==
  ASSUME NEW n \in Node
  PROVE  /\ n.term \in Nat /\ n.vote \in Nodes \union {Nobody} /\ n.log \in Seq(Entry)
         /\ n.commit \in Nat /\ n.applied \in Nat
         /\ n.role \in {"follower", "candidate", "leader"}
         /\ Len(n.log) \in Nat /\ last_log_term(n) \in Nat
<1>1. /\ n.term \in Nat /\ n.vote \in Nodes \union {Nobody} /\ n.log \in Seq(Entry)
      /\ n.commit \in Nat /\ n.applied \in Nat
      /\ n.role \in {"follower", "candidate", "leader"}
  BY DEF Node
<1>2. Len(n.log) \in Nat /\ (n.log # <<>> => n.log[Len(n.log)] \in Entry)
  BY <1>1
<1>. QED  BY <1>1, <1>2 DEF last_log_term, Entry

\* What persist() writes of a node.
LEMMA PersistentIs ==
  ASSUME NEW n \in Node
  PROVE  /\ Persistent(n) \in State /\ Persistent(n).term = n.term /\ Persistent(n).vote = n.vote
         /\ Persistent(n).log = n.log
BY NodeFields DEF Persistent, State

\* A reopened node has its disk's term, vote and log and starts as a follower.
LEMMA ReopenedIs ==
  ASSUME NEW s \in State
  PROVE  /\ Reopened(s) \in Node /\ Reopened(s).term = s.term /\ Reopened(s).vote = s.vote
         /\ Reopened(s).log = s.log /\ Reopened(s).commit = 0 /\ Reopened(s).applied = 0
         /\ Reopened(s).role = "follower" /\ Persistent(Reopened(s)) = s
<1>1. /\ s.term \in Nat /\ s.vote \in Nodes \union {Nobody} /\ s.log \in Seq(Entry)
      /\ s = [term |-> s.term, vote |-> s.vote, log |-> s.log]
  BY DEF State
<1>. QED  BY <1>1 DEF Reopened, Node, Persistent

\* start_election: the next term and a vote for oneself.
LEMMA StartElectionIs ==
  ASSUME NEW n \in Node, NEW id \in Nodes
  PROVE  LET m == start_election(n, id)
         IN  /\ m \in Node /\ m.term = n.term + 1 /\ m.vote = id /\ m.log = n.log
             /\ m.commit = n.commit /\ m.applied = n.applied /\ m.role = "candidate"
<1>1. n.term + 1 \in Nat /\ id \in Nodes \union {Nobody}
  BY NodeFields
<1>2. start_election(n, id) = [n EXCEPT !.term = n.term + 1, !.role = "candidate", !.vote = id]
  BY DEF start_election, Node
<1>. QED  BY <1>1, <1>2, Zenon DEF Node

\* observe_term: the higher term, without a vote, as a follower.
LEMMA ObserveTermIs ==
  ASSUME NEW n \in Node, NEW term \in Nat
  PROVE  LET m == observe_term(n, term)
         IN  /\ m \in Node /\ m.term = term /\ m.vote = Nobody /\ m.log = n.log
             /\ m.commit = n.commit /\ m.applied = n.applied /\ m.role = "follower"
BY Zenon DEF observe_term, Node

\* append_as_leader: one more entry of the leader's term.
LEMMA AppendAsLeaderIs ==
  ASSUME NEW n \in Node, NEW command \in Commands, n.term > 0
  PROVE  LET m == append_as_leader(n, command)
             e == [term |-> n.term, command |-> command]
         IN  /\ e \in Entry /\ m \in Node /\ m.term = n.term /\ m.vote = n.vote
             /\ m.log = Append(n.log, e)
             /\ m.commit = n.commit /\ m.applied = n.applied /\ m.role = n.role
<1> DEFINE e == [term |-> n.term, command |-> command]
<1>1. e \in Entry
  BY NodeFields DEF Entry
<1>2. Append(n.log, e) \in Seq(Entry)
  BY <1>1, NodeFields
<1> HIDE DEF e
<1>3. [n EXCEPT !.log = Append(@, e)] = [n EXCEPT !.log = Append(n.log, e)]
  BY DEF Node
<1>. QED  BY <1>1, <1>2, <1>3, Zenon DEF append_as_leader, Node, e

\* The vote: it is given once in a term, and never when the term is old.
VoteAnswer(n, r, a) ==
  /\ a.node \in Node /\ a.node.log = n.log /\ a.node.commit = n.commit
  /\ a.node.applied = n.applied
  /\ a.term = a.node.term /\ a.term >= r.term /\ Evolved(n, a.node)
  /\ a.node.role = "leader" => n.role = "leader" /\ a.node.term = n.term
  /\ \/ a.node.vote = n.vote /\ a.node.term = n.term
     \/ a.node.vote = Nobody
     \/ a.node.vote = r.candidate /\ a.node.term = r.term
  /\ a.granted \in BOOLEAN
  /\ a.granted => a.node.term = r.term /\ a.node.vote = r.candidate /\ UpToDate(r, n)
  /\ a.persists <=> Persistent(a.node) # Persistent(n)

\* What request_vote answers and changes.
LEMMA RequestVoteIs ==
  ASSUME NEW n \in Node, NEW r \in VoteReq
  PROVE  VoteAnswer(n, r, request_vote(n, r))
<1> DEFINE m == IF r.term > n.term THEN observe_term(n, r.term) ELSE n
           granted == /\ r.term >= n.term /\ m.vote \in {Nobody, r.candidate}
                      /\ UpToDate(r, m)
           after == IF granted THEN [m EXCEPT !.vote = r.candidate] ELSE m
<1>1. /\ r.term \in Nat /\ r.candidate \in Nodes /\ n.term \in Nat
      /\ n.vote \in Nodes \union {Nobody}
  BY NodeFields DEF VoteReq
<1>2. /\ m \in Node /\ m.log = n.log /\ m.commit = n.commit /\ m.applied = n.applied
      /\ m.term \in Nat /\ m.term >= n.term /\ m.term >= r.term
      /\ m.term > r.term => m = n
      /\ m.role = "leader" => n.role = "leader" /\ m.term = n.term
      /\ (m.vote = n.vote /\ m.term = n.term) \/ m.vote = Nobody
      /\ Evolved(n, m)
      /\ m.term > n.term => m.term = r.term
      /\ r.term >= n.term => m.term = r.term
  <2>1. CASE r.term > n.term
    <3>1. m = observe_term(n, r.term)
      BY <2>1
    <3> HIDE DEF m
    <3>2. /\ m \in Node /\ m.term = r.term /\ m.vote = Nobody /\ m.log = n.log
          /\ m.commit = n.commit /\ m.applied = n.applied /\ m.role = "follower"
      BY <1>1, <3>1, ObserveTermIs
    <3>. QED  BY <1>1, <2>1, <3>2 DEF Evolved
  <2>2. CASE ~(r.term > n.term)
    BY <1>1, <2>2, NodeFields DEF Evolved
  <2>. QED  BY <2>1, <2>2
<1>3. UpToDate(r, m) <=> UpToDate(r, n)
  BY <1>2 DEF UpToDate, last_log_term
<1> HIDE DEF m
<1>4. /\ [m EXCEPT !.vote = r.candidate] \in Node
      /\ [m EXCEPT !.vote = r.candidate].vote = r.candidate
      /\ [m EXCEPT !.vote = r.candidate].term = m.term
      /\ [m EXCEPT !.vote = r.candidate].log = m.log
      /\ [m EXCEPT !.vote = r.candidate].commit = m.commit
      /\ [m EXCEPT !.vote = r.candidate].applied = m.applied
      /\ [m EXCEPT !.vote = r.candidate].role = m.role
  BY <1>1, <1>2 DEF Node
<1>5. request_vote(n, r) = [node |-> after, persists |-> Persistent(after) # Persistent(n),
                            term |-> after.term, granted |-> granted]
  BY DEF request_vote, m
<1>6. /\ after \in Node /\ after.log = n.log /\ after.commit = n.commit
      /\ after.applied = n.applied /\ after.term = m.term /\ after.role = m.role
      /\ after.vote = IF granted THEN r.candidate ELSE m.vote
      /\ granted \in BOOLEAN
  BY <1>2, <1>4
<1>7. granted => m.term = r.term /\ m.vote \in {Nobody, r.candidate} /\ UpToDate(r, n)
  BY <1>1, <1>2, <1>3
<1> HIDE DEF granted, after
<1>8. Evolved(n, after)
  BY <1>1, <1>2, <1>6, <1>7, NobodyIsNoNode DEF Evolved
<1>9. \/ after.vote = n.vote /\ after.term = n.term
      \/ after.vote = Nobody
      \/ after.vote = r.candidate /\ after.term = r.term
  BY <1>2, <1>6, <1>7
<1> DEFINE a == request_vote(n, r)
<1>10. /\ a.node = after /\ a.term = after.term /\ a.granted = granted
       /\ a.persists = (Persistent(after) # Persistent(n))
  BY <1>5
<1> HIDE DEF a
<1>11. a.persists <=> Persistent(a.node) # Persistent(n)
  BY <1>10, Zenon
<1>12. /\ a.granted \in BOOLEAN
       /\ a.granted => a.node.term = r.term /\ a.node.vote = r.candidate /\ UpToDate(r, n)
  BY <1>6, <1>7, <1>10
<1>13. VoteAnswer(n, r, a)
  BY <1>2, <1>6, <1>8, <1>9, <1>10, <1>11, <1>12 DEF VoteAnswer
<1>. QED  BY <1>13 DEF a

\* What append_entries answers to a request of an older term.
Refuses(n, a) == a.node = n /\ ~a.persists /\ a.term = n.term /\ ~a.success

\* What it answers to others.
Accepts(n, q, a) ==
  /\ a.node \in Node /\ a.node.term = q.term /\ a.term = q.term /\ a.node.role = "follower"
  /\ a.node.applied = n.applied
  /\ a.node.vote = IF q.term > n.term THEN Nobody ELSE n.vote
  /\ a.success \in BOOLEAN /\ (a.success <=> Matches(n.log, q.prev, q.prevTerm))
  /\ a.node.log = IF a.success THEN Merged(n.log, q.prev, q.entries) ELSE n.log
  /\ a.node.commit = IF a.success /\ q.commit > n.commit
                       THEN IF q.commit < Len(a.node.log) THEN q.commit ELSE Len(a.node.log)
                       ELSE n.commit
  /\ a.persists <=> a.node.term # n.term \/ a.node.log # n.log

\* The log that append_entries leaves: its own up to prev, then the leader's.
LEMMA MergedIs ==
  ASSUME NEW l \in Seq(Entry), NEW prev \in Nat, NEW es \in Seq(Entry), prev <= Len(l)
  PROVE  /\ Merged(l, prev, es) \in Seq(Entry) /\ Len(Merged(l, prev, es)) = prev + Len(es)
         /\ \A j \in 1..prev : Merged(l, prev, es)[j] = l[j]
         /\ \A j \in (prev + 1)..(prev + Len(es)) : Merged(l, prev, es)[j] = es[j - prev]
<1>1. \A i \in 1..prev : l[i] \in Entry
  OBVIOUS
<1>2. /\ SubSeq(l, 1, prev) \in Seq(Entry) /\ Len(SubSeq(l, 1, prev)) = prev
      /\ \A i \in 1..prev : SubSeq(l, 1, prev)[i] = l[i]
  BY <1>1, PartIs
<1> DEFINE h == SubSeq(l, 1, prev)
<1> HIDE DEF h
<1>3. h \in Seq(Entry) /\ Len(h) = prev /\ \A i \in 1..prev : h[i] = l[i]
  BY <1>2 DEF h
<1>4. /\ h \o es \in Seq(Entry) /\ Len(h \o es) = prev + Len(es)
      /\ \A i \in 1..(prev + Len(es)) : (h \o es)[i] = IF i <= prev THEN h[i] ELSE es[i - prev]
  BY <1>3, JoinIs, Zenon
<1>5. Merged(l, prev, es) = h \o es
  BY DEF Merged, h
<1>6. Len(es) \in Nat
  OBVIOUS
<1>. QED  BY <1>3, <1>4, <1>5, <1>6

\* append_entries refuses an older term and otherwise follows it.
LEMMA AppendEntriesIs ==
  ASSUME NEW n \in Node, NEW q \in AppendReq
  PROVE  IF q.term < n.term THEN Refuses(n, append_entries(n, q))
                            ELSE Accepts(n, q, append_entries(n, q))
<1>1. q.term \in Nat /\ q.prev \in Nat /\ q.entries \in Seq(Entry) /\ q.commit \in Nat
  BY DEF AppendReq
<1>2. CASE q.term < n.term
  BY <1>2 DEF append_entries, Refuses
<1>3. CASE ~(q.term < n.term)
  <2> DEFINE m == IF q.term > n.term THEN observe_term(n, q.term) ELSE [n EXCEPT !.role = "follower"]
             success == Matches(n.log, q.prev, q.prevTerm)
             l == IF success THEN Merged(n.log, q.prev, q.entries) ELSE n.log
             c == IF success /\ q.commit > n.commit
                    THEN IF q.commit < Len(l) THEN q.commit ELSE Len(l) ELSE n.commit
  <2>1. /\ m \in Node /\ m.term = q.term /\ m.role = "follower" /\ m.applied = n.applied
        /\ m.vote = IF q.term > n.term THEN Nobody ELSE n.vote
    <3>1. CASE q.term > n.term
      BY <1>1, <3>1, ObserveTermIs
    <3>2. CASE ~(q.term > n.term)
      BY <1>1, <1>3, <3>2, NodeFields DEF Node
    <3>. QED  BY <3>1, <3>2
  <2>2. l \in Seq(Entry)
    BY <1>1, NodeFields, MergedIs, Zenon DEF Matches
  <2>3. c \in Nat
    BY <1>1, <2>2, NodeFields
  <2>4. append_entries(n, q) =
          [node |-> [m EXCEPT !.log = l, !.commit = c],
           persists |-> m.term # n.term \/ l # n.log, term |-> m.term, success |-> success]
    BY <1>3 DEF append_entries
  <2>5. success \in BOOLEAN
    BY DEF Matches
  <2> HIDE DEF m, l, c, success
  <2>6. /\ [m EXCEPT !.log = l, !.commit = c] \in Node
        /\ [m EXCEPT !.log = l, !.commit = c].log = l
        /\ [m EXCEPT !.log = l, !.commit = c].commit = c
        /\ [m EXCEPT !.log = l, !.commit = c].term = m.term
        /\ [m EXCEPT !.log = l, !.commit = c].vote = m.vote
        /\ [m EXCEPT !.log = l, !.commit = c].role = m.role
        /\ [m EXCEPT !.log = l, !.commit = c].applied = m.applied
    BY <2>1, <2>2, <2>3, Zenon DEF Node
  <2> DEFINE a == append_entries(n, q)
  <2>7. /\ a.node = [m EXCEPT !.log = l, !.commit = c] /\ a.term = m.term /\ a.success = success
        /\ a.persists = (m.term # n.term \/ l # n.log)
    BY <2>4
  <2> HIDE DEF a
  <2>8. l = IF success THEN Merged(n.log, q.prev, q.entries) ELSE n.log
    BY DEF l
  <2>9. c = IF success /\ q.commit > n.commit
              THEN IF q.commit < Len(l) THEN q.commit ELSE Len(l) ELSE n.commit
    BY DEF c
  <2>10. success <=> Matches(n.log, q.prev, q.prevTerm)
    BY DEF success
  <2>11. /\ a.node.log = l /\ a.node.commit = c /\ a.node.term = q.term
         /\ a.node.role = "follower" /\ a.node.applied = n.applied /\ a.node \in Node
         /\ a.node.vote = IF q.term > n.term THEN Nobody ELSE n.vote
         /\ a.term = q.term
    BY <2>1, <2>6, <2>7
  <2>12. a.persists <=> a.node.term # n.term \/ a.node.log # n.log
    BY <2>1, <2>7, <2>11, Zenon
  <2>13. a.success \in BOOLEAN /\ (a.success <=> Matches(n.log, q.prev, q.prevTerm))
    BY <2>5, <2>7, <2>10
  <2>14. a.node.log = IF a.success THEN Merged(n.log, q.prev, q.entries) ELSE n.log
    BY <2>7, <2>8, <2>11
  <2>15. a.node.commit = IF a.success /\ q.commit > n.commit
                           THEN IF q.commit < Len(a.node.log) THEN q.commit ELSE Len(a.node.log)
                           ELSE n.commit
    BY <2>7, <2>9, <2>11
  <2>16. Accepts(n, q, a)
    BY <2>11, <2>12, <2>13, <2>14, <2>15 DEF Accepts
  <2>. QED  BY <1>3, <2>16 DEF a
<1>. QED  BY <1>2, <1>3

-----------------------------------------------------------------------------
\* The invariant of the nodes and their disks.

Logs == {nodes[i].log : i \in Nodes} \union {disk[i].log : i \in Nodes}

TypeInv ==
  /\ nodes \in [Nodes -> Node] /\ disk \in [Nodes -> State]
  /\ leaders \subseteq (Nat \ {0}) \X Nodes /\ failed \in BOOLEAN

\* A node in memory is at least as far as on its disk.
OrderInv ==
  \A i \in Nodes : /\ Evolved(disk[i], nodes[i])
                   /\ ~failed => disk[i] = Persistent(nodes[i])

\* A node that has another's vote has the vote's term on its disk.
VoteInv ==
  \A v, c \in Nodes : v # c => /\ nodes[v].vote = c => nodes[v].term <= disk[c].term
                               /\ disk[v].vote = c => disk[v].term <= disk[c].term

\* The votes that made a leader are on the voters' disks, or superseded.
HasVoted(v, term, id) ==
  disk[v].term > term \/ (disk[v].term = term /\ disk[v].vote = id)

LeaderInv ==
  /\ \A a \in leaders : /\ a[1] <= disk[a[2]].term
                        /\ \E Q \in Quorum : \A v \in Q : HasVoted(v, a[1], a[2])
  /\ \A i \in Nodes : nodes[i].role = "leader" => <<nodes[i].term, i>> \in leaders
  /\ ElectionSafety

TermsAscend(x) == \A k, m \in 1..Len(x) : k <= m => x[k].term <= x[m].term

\* If y's entry at m is of the term of x's at k, m not before k, then y has all
\* that x has up to k.
Matching(x, y) ==
  \A k \in 1..Len(x), m \in 1..Len(y) :
    k <= m /\ x[k].term = y[m].term => \A j \in 1..k : x[j] = y[j]

FromLeaders(x) == \A k \in 1..Len(x) : \E l \in Nodes : <<x[k].term, l>> \in leaders

LogInv ==
  \A x \in Logs : TermsAscend(x) /\ FromLeaders(x) /\ \A y \in Logs : Matching(x, y)

TermsBelow(x, term) == \A k \in 1..Len(x) : x[k].term <= term

TermInv ==
  \A i \in Nodes : /\ TermsBelow(nodes[i].log, nodes[i].term)
                   /\ TermsBelow(disk[i].log, disk[i].term)

\* A leader's log has every entry of its term.
Owns(n, x) ==
  \A k \in 1..Len(x) : x[k].term = n.term => k <= Len(n.log) /\ n.log[k].term = n.term

OwnInv ==
  \A i \in Nodes : nodes[i].role = "leader" => \A x \in Logs : Owns(nodes[i], x)

StateInv == TypeInv /\ OrderInv /\ VoteInv /\ LeaderInv /\ LogInv /\ TermInv /\ OwnInv

-----------------------------------------------------------------------------
\* Node i becomes n, and unless a persist() has failed its disk follows.
Update(i, n) ==
  /\ nodes' = [nodes EXCEPT ![i] = n]
  /\ \/ disk' = [disk EXCEPT ![i] = Persistent(n)]
     \/ disk' = disk /\ (failed' = TRUE \/ Persistent(n) = Persistent(nodes[i]))
  /\ failed' = failed \/ failed' = TRUE

\* A handler that succeeds updates one node and its disk.
LEMMA BecomesIs ==
  ASSUME NEW i, NEW n, NEW persists, Becomes(i, n, persists),
         ~persists => Persistent(n) = Persistent(nodes[i])
  PROVE  Update(i, n) /\ failed' = failed
BY DEF Becomes, Update

\* A persist() that fails updates the node and ends the call.
LEMMA FailsIs ==
  ASSUME NEW i, NEW n, PersistFails(i, n)
  PROVE  Update(i, n) /\ op' = Idle /\ failed' = TRUE
BY DEF PersistFails, Update

\* Terms that only grow, with votes kept within a term, do so over two steps.
LEMMA EvolvedThen ==
  ASSUME NEW a, NEW b, NEW c, a.term \in Nat, b.term \in Nat, c.term \in Nat,
         Evolved(a, b), Evolved(b, c)
  PROVE  Evolved(a, c)
BY DEF Evolved

\* The same term and vote are no step back.
LEMMA EvolvedSame ==
  ASSUME NEW a, NEW b, a.term = b.term, a.vote = b.vote
  PROVE  Evolved(a, b)
BY DEF Evolved

\* The types of a node and of its disk.
LEMMA StateIs ==
  ASSUME TypeInv, NEW i \in Nodes
  PROVE  /\ nodes[i] \in Node /\ disk[i] \in State
         /\ nodes[i].term \in Nat /\ nodes[i].log \in Seq(Entry) /\ Len(nodes[i].log) \in Nat
         /\ nodes[i].vote \in Nodes \union {Nobody} /\ nodes[i].commit \in Nat
         /\ disk[i].term \in Nat /\ disk[i].log \in Seq(Entry) /\ Len(disk[i].log) \in Nat
         /\ disk[i].vote \in Nodes \union {Nobody}
         /\ nodes[i].log \in Logs /\ disk[i].log \in Logs
<1>1. nodes[i] \in Node /\ disk[i] \in State
  BY DEF TypeInv
<1>2. disk[i].term \in Nat /\ disk[i].log \in Seq(Entry) /\ disk[i].vote \in Nodes \union {Nobody}
  BY <1>1 DEF State
<1>3. nodes[i].log \in Logs /\ disk[i].log \in Logs
  BY DEF Logs
<1>. QED  BY <1>1, <1>2, <1>3, NodeFields

\* The types of the logs.
LEMMA LogsAre ==
  ASSUME TypeInv, NEW x \in Logs
  PROVE  /\ x \in Seq(Entry) /\ Len(x) \in Nat
         /\ \A k \in 1..Len(x) : x[k].term \in Nat /\ x[k].term > 0
<1>1. x \in Seq(Entry)
  BY StateIs DEF Logs
<1>2. \A k \in 1..Len(x) : x[k] \in Entry
  BY <1>1
<1>. QED  BY <1>1, <1>2 DEF Entry

\* What a handler leaves of the other nodes, and of the order of memory and
\* disk.
LEMMA UpdateIs ==
  ASSUME TypeInv, OrderInv, NEW i \in Nodes, NEW n \in Node, Update(i, n), Evolved(nodes[i], n)
  PROVE  /\ nodes' \in [Nodes -> Node] /\ nodes'[i] = n
         /\ \A j \in Nodes : j # i => nodes'[j] = nodes[j] /\ disk'[j] = disk[j]
         /\ disk' \in [Nodes -> State] /\ disk'[i] \in {Persistent(n), disk[i]}
         /\ failed' \in BOOLEAN
         /\ \A j \in Nodes : Evolved(disk[j], disk'[j])
         /\ OrderInv'
<1>1. nodes \in [Nodes -> Node] /\ disk \in [Nodes -> State] /\ failed \in BOOLEAN
  BY DEF TypeInv
<1>2. nodes' \in [Nodes -> Node] /\ nodes'[i] = n /\ \A j \in Nodes : j # i => nodes'[j] = nodes[j]
  BY <1>1 DEF Update
<1>3. Persistent(n) \in State /\ Persistent(n).term = n.term /\ Persistent(n).vote = n.vote
  BY PersistentIs
<1>4. /\ disk' \in [Nodes -> State] /\ disk'[i] \in {Persistent(n), disk[i]}
      /\ \A j \in Nodes : j # i => disk'[j] = disk[j]
  BY <1>1, <1>3 DEF Update
<1>5. failed' \in BOOLEAN
  BY <1>1, Zenon DEF Update
<1>6. /\ nodes[i].term \in Nat /\ disk[i].term \in Nat /\ n.term \in Nat
      /\ Evolved(disk[i], nodes[i])
  BY StateIs, NodeFields DEF OrderInv
<1>7. Evolved(disk[i], n)
  BY <1>6, EvolvedThen
<1>8. \A j \in Nodes : Evolved(disk[j], disk'[j])
  <2>1. Evolved(disk[i], disk'[i])
    BY <1>3, <1>4, <1>7, EvolvedSame DEF Evolved
  <2>2. \A j \in Nodes : j # i => Evolved(disk[j], disk'[j])
    BY <1>4, EvolvedSame
  <2>. QED  BY <2>1, <2>2
<1>9. ASSUME NEW j \in Nodes PROVE Evolved(disk'[j], nodes'[j])
  <2>1. CASE j = i
    BY <1>2, <1>3, <1>4, <1>7, <2>1, EvolvedSame
  <2>2. CASE j # i
    BY <1>2, <1>4, <2>2 DEF OrderInv
  <2>. QED  BY <2>1, <2>2
<1>10. ASSUME NEW j \in Nodes, ~failed' PROVE disk'[j] = Persistent(nodes'[j])
  <2>1. ~failed /\ disk[j] = Persistent(nodes[j])
    BY <1>1, <1>10 DEF Update, OrderInv
  <2>2. CASE j = i
    BY <1>1, <1>2, <1>10, <2>1, <2>2 DEF Update
  <2>3. CASE j # i
    BY <1>2, <1>4, <2>1, <2>3
  <2>. QED  BY <2>2, <2>3
<1>11. OrderInv'
  BY <1>9, <1>10 DEF OrderInv
<1>. QED  BY <1>2, <1>4, <1>5, <1>8, <1>11

-----------------------------------------------------------------------------
\* What a step of one node keeps.

\* Votes on disk stay there or are superseded.
LEMMA VotesStay ==
  ASSUME TypeInv, OrderInv, NEW i \in Nodes, NEW n \in Node, Update(i, n), Evolved(nodes[i], n),
         leaders' = leaders, NEW a \in leaders
  PROVE  /\ a[1] <= disk[a[2]].term => a[1] <= disk'[a[2]].term
         /\ \A v \in Nodes : HasVoted(v, a[1], a[2]) => HasVoted(v, a[1], a[2])'
<1>1. a[1] \in Nat /\ a[2] \in Nodes
  BY DEF TypeInv
<1>2. \A j \in Nodes : /\ disk[j].term \in Nat /\ disk'[j].term \in Nat
                       /\ Evolved(disk[j], disk'[j])
  <2>1. disk' \in [Nodes -> State] /\ \A j \in Nodes : Evolved(disk[j], disk'[j])
    BY UpdateIs
  <2>. QED  BY <2>1, StateIs DEF State
<1>3. ASSUME NEW v \in Nodes, HasVoted(v, a[1], a[2]) PROVE HasVoted(v, a[1], a[2])'
  <2>1. a' = a
    BY DEF TypeInv
  <2>2. disk'[v].term > a[1] \/ (disk'[v].term = a[1] /\ disk'[v].vote = a[2])
    BY <1>1, <1>2, <1>3, NobodyIsNoNode DEF HasVoted, Evolved
  <2>. QED  BY <2>1, <2>2 DEF HasVoted
<1>. QED  BY <1>1, <1>2, <1>3 DEF Evolved

\* A handler keeps VoteInv if the vote it casts is for a term that the
\* candidate has.
LEMMA KeepsVotes ==
  ASSUME TypeInv, OrderInv, VoteInv, NEW i \in Nodes, NEW n \in Node, Update(i, n),
         Evolved(nodes[i], n), \A c \in Nodes : c # i /\ n.vote = c => n.term <= disk[c].term
  PROVE  VoteInv'
<1>1. /\ nodes'[i] = n /\ \A j \in Nodes : j # i => nodes'[j] = nodes[j] /\ disk'[j] = disk[j]
      /\ disk'[i] \in {Persistent(n), disk[i]} /\ disk' \in [Nodes -> State]
      /\ \A j \in Nodes : Evolved(disk[j], disk'[j])
  BY UpdateIs
<1>2. Persistent(n).term = n.term /\ Persistent(n).vote = n.vote /\ n.term \in Nat
  BY PersistentIs, NodeFields
<1>3. \A j \in Nodes : /\ disk[j].term \in Nat /\ disk'[j].term \in Nat /\ nodes[j].term \in Nat
                       /\ disk[j].term <= disk'[j].term
  BY <1>1, StateIs DEF State, Evolved
<1>4. ASSUME NEW v \in Nodes, NEW c \in Nodes, v # c, nodes'[v].vote = c
      PROVE  nodes'[v].term <= disk'[c].term
  <2>1. nodes'[v].term <= disk[c].term
    BY <1>1, <1>4 DEF VoteInv
  <2>2. nodes'[v].term \in Nat
    BY <1>1, <1>2, <1>3
  <2>. QED  BY <1>3, <2>1, <2>2
<1>5. ASSUME NEW v \in Nodes, NEW c \in Nodes, v # c, disk'[v].vote = c
      PROVE  disk'[v].term <= disk'[c].term
  <2>1. disk'[v].term <= disk[c].term
    BY <1>1, <1>2, <1>5 DEF VoteInv
  <2>. QED  BY <1>3, <2>1
<1>. QED  BY <1>4, <1>5 DEF VoteInv

\* One of the logs that there are already becomes i's.
LEMMA KeepsLogs ==
  ASSUME StateInv, NEW i \in Nodes, NEW n \in Node, Update(i, n), Evolved(nodes[i], n),
         n.log \in Logs, TermsBelow(n.log, n.term), leaders' = leaders,
         n.role = "leader" => /\ nodes[i].role = "leader" /\ n.term = nodes[i].term
                              /\ n.log = nodes[i].log
  PROVE  LogInv' /\ TermInv' /\ OwnInv' /\ Logs' \subseteq Logs
<1>0. TypeInv /\ OrderInv /\ LogInv /\ TermInv /\ OwnInv
  BY DEF StateInv
<1>1. /\ nodes'[i] = n /\ \A j \in Nodes : j # i => nodes'[j] = nodes[j] /\ disk'[j] = disk[j]
      /\ disk'[i] \in {Persistent(n), disk[i]}
  BY <1>0, UpdateIs
<1>2. Persistent(n).log = n.log /\ Persistent(n).term = n.term
  BY PersistentIs
<1>3. Logs' \subseteq Logs
  <2>1. \A j \in Nodes : nodes'[j].log \in Logs /\ disk'[j].log \in Logs
    BY <1>0, <1>1, <1>2, StateIs
  <2>. QED  BY <2>1 DEF Logs
<1>4. LogInv'
  <2>1. \A x \in Logs : FromLeaders(x) => FromLeaders(x)'
    BY DEF FromLeaders
  <2>. QED  BY <1>0, <1>3, <2>1 DEF LogInv
<1>5. TermInv'
  BY <1>0, <1>1, <1>2 DEF TermInv
<1>6. ASSUME NEW j \in Nodes, nodes'[j].role = "leader", NEW x \in Logs'
      PROVE  Owns(nodes'[j], x)
  <2>1. nodes[j].role = "leader" /\ nodes'[j].term = nodes[j].term /\ nodes'[j].log = nodes[j].log
    BY <1>1, <1>6
  <2>2. Owns(nodes[j], x)
    BY <1>0, <1>3, <2>1 DEF OwnInv
  <2>. QED  BY <2>1, <2>2 DEF Owns
<1>7. OwnInv'
  BY <1>6 DEF OwnInv
<1>. QED  BY <1>3, <1>4, <1>5, <1>7

\* A handler that elects nobody keeps LeaderInv.
LEMMA KeepsLeaders ==
  ASSUME TypeInv, OrderInv, LeaderInv, NEW i \in Nodes, NEW n \in Node, Update(i, n),
         Evolved(nodes[i], n), leaders' = leaders,
         n.role = "leader" => nodes[i].role = "leader" /\ n.term = nodes[i].term
  PROVE  LeaderInv'
<1>1. nodes'[i] = n /\ \A j \in Nodes : j # i => nodes'[j] = nodes[j]
  BY UpdateIs
<1>2. ASSUME NEW a \in leaders
      PROVE  /\ a[1] <= disk'[a[2]].term
             /\ \E Q \in Quorum : \A v \in Q : HasVoted(v, a[1], a[2])'
  <2>1. PICK Q \in Quorum : \A v \in Q : HasVoted(v, a[1], a[2])
    BY DEF LeaderInv
  <2>2. \A v \in Q : v \in Nodes
    BY DEF Quorum
  <2>3. a[1] <= disk[a[2]].term
    BY DEF LeaderInv
  <2>. QED  BY <2>1, <2>2, <2>3, VotesStay
<1>3. \A j \in Nodes : nodes'[j].role = "leader" => <<nodes'[j].term, j>> \in leaders'
  BY <1>1 DEF LeaderInv
<1>4. ElectionSafety'
  BY DEF LeaderInv, ElectionSafety
<1>. QED  BY <1>2, <1>3, <1>4 DEF LeaderInv, HasVoted

\* A handler that takes over a log that exists keeps StateInv.
LEMMA KeepsState ==
  ASSUME StateInv, NEW i \in Nodes, NEW n \in Node, Update(i, n), Evolved(nodes[i], n),
         n.log \in Logs, TermsBelow(n.log, n.term), leaders' = leaders,
         n.role = "leader" => /\ nodes[i].role = "leader" /\ n.term = nodes[i].term
                              /\ n.log = nodes[i].log,
         \A c \in Nodes : c # i /\ n.vote = c => n.term <= disk[c].term
  PROVE  StateInv'
<1>1. TypeInv /\ OrderInv /\ VoteInv /\ LeaderInv
  BY DEF StateInv
<1>2. TypeInv' /\ OrderInv'
  <2>1. nodes' \in [Nodes -> Node] /\ disk' \in [Nodes -> State] /\ failed' \in BOOLEAN /\ OrderInv'
    BY <1>1, UpdateIs
  <2>. QED  BY <1>1, <2>1 DEF TypeInv
<1>3. VoteInv'
  BY <1>1, KeepsVotes
<1>4. LeaderInv'
  BY <1>1, KeepsLeaders
<1>5. LogInv' /\ TermInv' /\ OwnInv'
  BY KeepsLogs
<1>. QED  BY <1>2, <1>3, <1>4, <1>5 DEF StateInv

\* A step that changes nothing of terms, votes, logs, roles and disks.
LEMMA SameState ==
  ASSUME StateInv, nodes' \in [Nodes -> Node], disk' = disk, leaders' = leaders, failed' = failed,
         \A i \in Nodes : /\ nodes'[i].term = nodes[i].term /\ nodes'[i].vote = nodes[i].vote
                          /\ nodes'[i].log = nodes[i].log /\ nodes'[i].role = nodes[i].role
  PROVE  StateInv' /\ Logs' = Logs
<1>1. TypeInv' /\ OrderInv'
  BY DEF StateInv, TypeInv, OrderInv, Evolved, Persistent
<1>2. VoteInv'
  BY DEF StateInv, VoteInv
<1>3. LeaderInv'
  BY DEF StateInv, LeaderInv, HasVoted, ElectionSafety
<1>4. Logs' = Logs
  BY DEF Logs
<1>5. LogInv'
  BY <1>4, Zenon DEF StateInv, LogInv, FromLeaders
<1>6. TermInv'
  BY DEF StateInv, TermInv
<1>7. OwnInv'
  BY <1>4 DEF StateInv, OwnInv, Owns
<1>. QED  BY <1>1, <1>2, <1>3, <1>4, <1>5, <1>6, <1>7 DEF StateInv

-----------------------------------------------------------------------------
\* The invariant of the call in progress.

\* The votes that the candidate has been given are on disk, from nodes whose
\* logs are not newer.
Voters(Q) ==
  /\ Q \in SUBSET (Nodes \ op.left) /\ Cardinality(Q) = op.votes
  /\ \A v \in Q : /\ disk[v].term = op.request.term /\ disk[v].vote = op.id
                  /\ UpToDate(op.request, nodes[v])

Electing ==
  /\ op \in ElectOp /\ op.left \subseteq Nodes \ {op.id}
  /\ op.request.term = nodes[op.id].term /\ op.request.candidate = op.id
  /\ op.request.last_log_index = Len(nodes[op.id].log)
  /\ op.request.last_log_term = last_log_term(nodes[op.id])
  /\ disk[op.id].term = op.request.term
  /\ <<op.request.term, op.id>> \notin leaders
  /\ \A v \in op.left : ~(nodes[v].vote = op.id /\ nodes[v].term = op.request.term)
  /\ \E Q : Voters(Q)

Observing == op \in ObserveOp /\ op.term > nodes[op.id].term

\* The caller of the call is the leader it was at the beginning, and the
\* followers in S have its log and its term.
Leads(S) ==
  /\ op.term = nodes[op.id].term /\ op.log = nodes[op.id].log
  /\ op.commit = nodes[op.id].commit /\ nodes[op.id].role = "leader"
  /\ \A f \in S : nodes[f].log = op.log /\ nodes[f].term = op.term

Sends ==
  /\ op \in SendOp /\ op.peers \subseteq Nodes \ {op.id} /\ op.left \subseteq op.peers
  /\ op.prev <= Len(op.log) /\ op.matched \in [Nodes \ {op.id} -> Nat]
  /\ Leads(op.peers \ op.left)
  /\ \A f \in Nodes \ {op.id} : op.matched[f] > 0 => f \in op.peers \ op.left

Publishing == op \in PublishOp /\ op.left \subseteq Nodes \ {op.id} /\ Leads(op.left)

OpInv == op = Idle \/ Electing \/ Observing \/ Sends \/ Publishing

IInv == StateInv /\ OpInv

\* What the call in progress is.
LEMMA WhichCall ==
  ASSUME OpInv
  PROVE  /\ op.call = "elect" => Electing
         /\ op.call = "observe" => Observing
         /\ op.call = "send" => Sends
         /\ op.call = "publish" => Publishing
BY DEF OpInv, Idle, Electing, Observing, Sends, Publishing, ElectOp, ObserveOp, SendOp, PublishOp

-----------------------------------------------------------------------------
\* elect.

\* StartElection keeps the invariant.
LEMMA StartElectionKeeps ==
  ASSUME SetFacts, IInv, NEW c \in Nodes, NEW peers \in Reachable(c), StartElection(c, peers)
  PROVE  IInv'
<1>00. PICK n : n = start_election(nodes[c], c)
  OBVIOUS
<1>0. StateInv /\ TypeInv /\ OrderInv /\ VoteInv /\ LeaderInv /\ TermInv
  BY DEF IInv, StateInv
<1>1. nodes[c] \in Node /\ nodes[c].term \in Nat /\ disk[c].term \in Nat /\ nodes[c].log \in Logs
  BY <1>0, StateIs
<1>2. /\ n \in Node /\ n.term = nodes[c].term + 1 /\ n.vote = c /\ n.log = nodes[c].log
      /\ n.role = "candidate"
  BY <1>00, <1>1, StartElectionIs
<1>3. /\ leaders' = leaders
      /\ \/ /\ Becomes(c, n, TRUE)
            /\ op' = [call |-> "elect", id |-> c, request |-> VoteRequest(n, c),
                      left |-> peers, votes |-> 1]
         \/ PersistFails(c, n)
  BY <1>00, Zenon DEF StartElection
<1>4. Update(c, n) /\ Evolved(nodes[c], n)
  <2>1. Becomes(c, n, TRUE) => Update(c, n)
    BY BecomesIs, Zenon
  <2>2. Evolved(nodes[c], n)
    BY <1>1, <1>2 DEF Evolved
  <2>. QED  BY <1>3, <2>1, <2>2, FailsIs, Zenon
<1>5. TermsBelow(n.log, n.term)
  <2>1. \A k \in 1..Len(n.log) : n.log[k].term \in Nat /\ n.log[k].term <= nodes[c].term
    BY <1>0, <1>1, <1>2, LogsAre DEF TermInv, TermsBelow
  <2>. QED  BY <1>1, <1>2, <2>1 DEF TermsBelow
<1>6. StateInv'
  BY <1>0, <1>1, <1>2, <1>3, <1>4, <1>5, KeepsState
<1>7. CASE PersistFails(c, n)
  BY <1>6, <1>7, FailsIs, Zenon DEF IInv, OpInv
<1>8. CASE /\ Becomes(c, n, TRUE)
           /\ op' = [call |-> "elect", id |-> c, request |-> VoteRequest(n, c),
                     left |-> peers, votes |-> 1]
  <2>1. /\ op'.call = "elect" /\ op'.id = c /\ op'.request = VoteRequest(n, c)
        /\ op'.left = peers /\ op'.votes = 1
    BY <1>8
  <2>2. /\ op'.request.term = n.term /\ op'.request.candidate = c
        /\ op'.request.last_log_index = Len(n.log) /\ op'.request.last_log_term = last_log_term(n)
    BY <2>1 DEF VoteRequest
  <2>3. /\ nodes'[c] = n /\ disk'[c] = Persistent(n)
        /\ \A v \in Nodes : v # c => nodes'[v] = nodes[v]
    BY <1>0, <1>8 DEF Becomes, TypeInv
  <2>4. peers \subseteq Nodes \ {c}
    BY DEF Reachable
  <2>5. op' \in ElectOp
    <3>1. VoteRequest(n, c) \in VoteReq
      BY <1>1, <1>2, NodeFields DEF VoteRequest, VoteReq
    <3>. QED  BY <1>8, <2>4, <3>1 DEF ElectOp
  <2>6. disk'[c].term = n.term /\ disk'[c].vote = c
    BY <1>2, <2>3, PersistentIs
  <2>7. disk[c].term <= nodes[c].term
    BY <1>0, <1>1 DEF OrderInv, Evolved
  <2>8. <<n.term, c>> \notin leaders
    <3>1. ASSUME <<n.term, c>> \in leaders PROVE FALSE
      <4>1. n.term <= disk[c].term
        BY <1>0, <3>1 DEF LeaderInv
      <4>. QED  BY <1>1, <1>2, <2>7, <4>1
    <3>. QED  BY <3>1
  <2>9. \A v \in peers : ~(nodes'[v].vote = c /\ nodes'[v].term = n.term)
    <3>1. ASSUME NEW v \in peers, nodes'[v].vote = c, nodes'[v].term = n.term PROVE FALSE
      <4>1. v \in Nodes /\ v # c
        BY <2>4
      <4>2. n.term <= disk[c].term
        BY <1>0, <2>3, <3>1, <4>1 DEF VoteInv
      <4>. QED  BY <1>1, <1>2, <2>7, <4>2
    <3>. QED  BY <3>1
  <2>10. Voters({c})'
    <3>1. Cardinality({c}) = 1
      BY DEF SetFacts
    <3>2. UpToDate(op'.request, nodes'[c])
      BY <1>2, <2>2, <2>3, NodeFields DEF UpToDate
    <3>. QED  BY <2>1, <2>2, <2>4, <2>6, <3>1, <3>2 DEF Voters
  <2>11. Electing'
    BY <1>3, <2>1, <2>2, <2>3, <2>4, <2>5, <2>6, <2>8, <2>9, <2>10 DEF Electing
  <2>. QED  BY <1>6, <2>11 DEF IInv, OpInv
<1>. QED  BY <1>3, <1>7, <1>8, Zenon

\* ObserveTerm, a deposed candidate or leader, keeps the invariant.
LEMMA ObserveTermKeeps ==
  ASSUME IInv, ObserveTerm
  PROVE  IInv'
<1>0. StateInv /\ TypeInv /\ TermInv
  BY DEF IInv, StateInv
<1>1. op \in ObserveOp /\ op.term > nodes[op.id].term
  BY WhichCall DEF IInv, ObserveTerm, Observing
<1>2. PICK i, t : i = op.id /\ t = op.term
  OBVIOUS
<1>21. PICK n : n = observe_term(nodes[i], t)
  OBVIOUS
<1>3. i \in Nodes /\ t \in Nat /\ t > nodes[i].term
  BY <1>1, <1>2 DEF ObserveOp
<1>4. nodes[i] \in Node /\ nodes[i].term \in Nat /\ nodes[i].log \in Logs
  BY <1>0, <1>3, StateIs
<1>5. n \in Node /\ n.term = t /\ n.vote = Nobody /\ n.log = nodes[i].log /\ n.role = "follower"
  BY <1>21, <1>3, <1>4, ObserveTermIs, Zenon
<1>6. leaders' = leaders /\ ((Becomes(i, n, TRUE) /\ op' = Idle) \/ PersistFails(i, n))
  BY <1>2, <1>21, Zenon DEF ObserveTerm
<1>7. Update(i, n) /\ op' = Idle /\ Evolved(nodes[i], n)
  BY <1>3, <1>4, <1>5, <1>6, BecomesIs, FailsIs, Zenon DEF Evolved
<1>8. TermsBelow(n.log, n.term)
  <2>1. \A k \in 1..Len(n.log) : n.log[k].term \in Nat /\ n.log[k].term <= nodes[i].term
    BY <1>0, <1>3, <1>4, <1>5, LogsAre DEF TermInv, TermsBelow
  <2>. QED  BY <1>3, <1>4, <1>5, <2>1 DEF TermsBelow
<1>9. StateInv'
  BY <1>0, <1>3, <1>4, <1>5, <1>6, <1>7, <1>8, NobodyIsNoNode, KeepsState
<1>. QED  BY <1>7, <1>9 DEF IInv, OpInv

\* The peer p is asked and answers a.
Asks(p, a) ==
  /\ Electing /\ p \in op.left /\ p # op.id /\ VoteAnswer(nodes[p], op.request, a)
  /\ Update(p, a.node) /\ Evolved(nodes[p], a.node) /\ UNCHANGED <<leaders, applied, committed>>
  /\ \/ op' = Idle
     \/ /\ Becomes(p, a.node, a.persists)
        /\ IF a.term > op.request.term
             THEN op' = [call |-> "observe", id |-> op.id, term |-> a.term]
             ELSE op' = [op EXCEPT !.left = @ \ {p}, !.votes = IF a.granted THEN @ + 1 ELSE @]

\* What asking one peer for its vote does.
LEMMA AskVoteIs ==
  ASSUME SetFacts, IInv, AskVote
  PROVE  \E p \in Nodes : \E a : Asks(p, a)
<1>0. TypeInv
  BY DEF IInv, StateInv
<1>1. Electing /\ op.left # {}
  BY WhichCall DEF IInv, AskVote
<1>2. op \in ElectOp /\ op.left \subseteq Nodes \ {op.id} /\ op.request \in VoteReq
  BY <1>1 DEF Electing, ElectOp
<1>3. PICK p : p = First(op.left)
  OBVIOUS
<1>4. PICK a : a = request_vote(nodes[p], op.request)
  OBVIOUS
<1>5. p \in op.left /\ p \in Nodes /\ p # op.id
  BY <1>1, <1>2, <1>3, FirstIsIn
<1>6. VoteAnswer(nodes[p], op.request, a)
  BY <1>0, <1>2, <1>4, <1>5, RequestVoteIs, StateIs
<1>7. /\ Evolved(nodes[p], a.node)
      /\ ~a.persists => Persistent(a.node) = Persistent(nodes[p])
  BY <1>6 DEF VoteAnswer
<1>8. /\ leaders' = leaders /\ UNCHANGED <<applied, committed>>
      /\ \/ /\ Becomes(p, a.node, a.persists)
            /\ op' = IF a.term > op.request.term
                       THEN [call |-> "observe", id |-> op.id, term |-> a.term]
                       ELSE [op EXCEPT !.left = @ \ {p},
                                       !.votes = IF a.granted THEN @ + 1 ELSE @]
         \/ a.persists /\ PersistFails(p, a.node)
  BY <1>3, <1>4 DEF AskVote
<1>9. CASE PersistFails(p, a.node)
  <2>1. Asks(p, a)
    BY <1>1, <1>5, <1>6, <1>7, <1>8, <1>9, FailsIs, Zenon DEF Asks
  <2>. QED  BY <1>5, <2>1
<1>10. CASE /\ Becomes(p, a.node, a.persists)
            /\ op' = IF a.term > op.request.term
                       THEN [call |-> "observe", id |-> op.id, term |-> a.term]
                       ELSE [op EXCEPT !.left = @ \ {p},
                                       !.votes = IF a.granted THEN @ + 1 ELSE @]
  <2>1. Update(p, a.node)
    BY <1>7, <1>10, BecomesIs
  <2>2. Asks(p, a)
    BY <1>1, <1>5, <1>6, <1>7, <1>8, <1>10, <2>1 DEF Asks
  <2>. QED  BY <1>5, <2>2
<1>. QED  BY <1>8, <1>9, <1>10

\* AskVote keeps the invariant: a granted vote is on disk when it is counted.
LEMMA AskVoteKeeps ==
  ASSUME SetFacts, IInv, AskVote
  PROVE  IInv'
<1>0. StateInv /\ TypeInv /\ OrderInv /\ VoteInv /\ TermInv
  BY DEF IInv, StateInv
<1>01. PICK p \in Nodes : \E a : Asks(p, a)
  BY AskVoteIs
<1>02. PICK a : Asks(p, a)
  BY <1>01
<1>1. /\ Electing /\ p \in op.left /\ p # op.id /\ VoteAnswer(nodes[p], op.request, a)
      /\ Update(p, a.node) /\ Evolved(nodes[p], a.node) /\ leaders' = leaders
      /\ \/ op' = Idle
         \/ /\ Becomes(p, a.node, a.persists)
            /\ IF a.term > op.request.term
                 THEN op' = [call |-> "observe", id |-> op.id, term |-> a.term]
                 ELSE op' = [op EXCEPT !.left = @ \ {p}, !.votes = IF a.granted THEN @ + 1 ELSE @]
  BY <1>02 DEF Asks
<1>2. PICK n : n = a.node
  OBVIOUS
<1>3. /\ op \in ElectOp /\ op.request \in VoteReq /\ op.id \in Nodes /\ op.votes \in Nat
      /\ op.request.term \in Nat /\ op.request.candidate = op.id
      /\ disk[op.id].term = op.request.term /\ nodes[op.id].term = op.request.term
  BY <1>1 DEF Electing, ElectOp, VoteReq
<1>4. /\ n \in Node /\ n.log = nodes[p].log /\ a.term = n.term /\ a.term >= op.request.term
      /\ n.role = "leader" => nodes[p].role = "leader" /\ n.term = nodes[p].term
      /\ \/ n.vote = nodes[p].vote /\ n.term = nodes[p].term
         \/ n.vote = Nobody
         \/ n.vote = op.id /\ n.term = op.request.term
      /\ a.granted \in BOOLEAN
      /\ a.granted => n.term = op.request.term /\ n.vote = op.id /\ UpToDate(op.request, nodes[p])
      /\ a.persists <=> Persistent(n) # Persistent(nodes[p])
      /\ n.term \in Nat
  BY <1>1, <1>2, <1>3, NodeFields DEF VoteAnswer
<1>5. Update(p, n) /\ Evolved(nodes[p], n)
  BY <1>1, <1>2
<1>6. nodes[p].log \in Logs /\ nodes[p].term \in Nat /\ nodes[p].term <= n.term
  BY <1>0, <1>4, <1>5, StateIs DEF Evolved
<1>7. TermsBelow(n.log, n.term)
  <2>1. \A k \in 1..Len(n.log) : n.log[k].term \in Nat /\ n.log[k].term <= nodes[p].term
    BY <1>0, <1>4, <1>6, LogsAre DEF TermInv, TermsBelow
  <2>. QED  BY <1>4, <1>6, <2>1 DEF TermsBelow
<1>8. \A c \in Nodes : c # p /\ n.vote = c => n.term <= disk[c].term
  BY <1>0, <1>3, <1>4, NobodyIsNoNode DEF VoteInv
<1>9. StateInv'
  BY <1>0, <1>1, <1>4, <1>5, <1>6, <1>7, <1>8, KeepsState
<1>10. CASE op' = Idle
  BY <1>9, <1>10 DEF IInv, OpInv
<1>11. /\ nodes'[p] = n /\ \A j \in Nodes : j # p => nodes'[j] = nodes[j] /\ disk'[j] = disk[j]
  BY <1>0, <1>4, <1>5, UpdateIs
<1>12. CASE /\ a.term > op.request.term
            /\ op' = [call |-> "observe", id |-> op.id, term |-> a.term]
  <2>1. op' \in ObserveOp /\ op'.id = op.id /\ op'.term = a.term
    BY <1>3, <1>4, <1>12 DEF ObserveOp
  <2>2. nodes'[op.id] = nodes[op.id]
    BY <1>1, <1>3, <1>11
  <2>3. Observing'
    BY <1>3, <1>12, <2>1, <2>2 DEF Observing
  <2>. QED  BY <1>9, <2>3 DEF IInv, OpInv
<1>13. CASE /\ ~(a.term > op.request.term) /\ Becomes(p, n, a.persists)
            /\ op' = [op EXCEPT !.left = @ \ {p}, !.votes = IF a.granted THEN @ + 1 ELSE @]
  <2>1. /\ op' \in ElectOp /\ op'.id = op.id /\ op'.request = op.request /\ op'.left = op.left \ {p}
        /\ op'.votes = IF a.granted THEN op.votes + 1 ELSE op.votes
    <3>1. PICK left, votes : /\ left = op.left \ {p}
                             /\ votes = IF a.granted THEN op.votes + 1 ELSE op.votes
      BY Zenon
    <3>2. left \in SUBSET Nodes /\ votes \in Nat
      BY <1>3, <3>1 DEF ElectOp
    <3>3. op' = [op EXCEPT !.left = left, !.votes = votes]
      BY <1>3, <1>13, <3>1 DEF ElectOp
    <3>4. op' \in ElectOp /\ op'.id = op.id /\ op'.request = op.request /\ op'.left = left
          /\ op'.votes = votes
      BY <1>3, <3>2, <3>3, Zenon DEF ElectOp
    <3>. QED  BY <3>1, <3>4
  <2>2. nodes'[op.id] = nodes[op.id] /\ disk'[op.id] = disk[op.id]
    BY <1>1, <1>3, <1>11
  <2>3. \A v \in op'.left : v \in op.left /\ v # p /\ v \in Nodes /\ nodes'[v] = nodes[v]
    BY <1>1, <1>11, <2>1 DEF Electing
  <2>4. PICK Q : Voters(Q)
    BY <1>1 DEF Electing
  <2>5. Q \in SUBSET Nodes /\ p \in Nodes \ Q
    BY <1>1, <2>4 DEF Voters
  <2>6. \A v \in Q : nodes'[v] = nodes[v] /\ disk'[v] = disk[v]
    BY <1>11, <2>5
  <2>7. \E R : Voters(R)'
    <3>1. CASE ~a.granted
      <4>1. Voters(Q)'
        BY <2>1, <2>4, <2>5, <2>6, <3>1 DEF Voters
      <4>. QED  BY <4>1
    <3>2. CASE a.granted
      <4>1. a.persists
        <5>1. Persistent(n).term = op.request.term /\ Persistent(n).vote = op.id
          BY <1>4, <3>2, PersistentIs
        <5>2. Persistent(nodes[p]).term = nodes[p].term /\ Persistent(nodes[p]).vote = nodes[p].vote
          BY <1>0, StateIs, PersistentIs
        <5>3. ~(nodes[p].vote = op.id /\ nodes[p].term = op.request.term)
          BY <1>1 DEF Electing
        <5>. QED  BY <1>4, <5>1, <5>2, <5>3
      <4>2. disk'[p].term = op.request.term /\ disk'[p].vote = op.id
        BY <1>0, <1>4, <1>13, <3>2, <4>1, PersistentIs DEF Becomes, TypeInv
      <4>3. UpToDate(op.request, nodes'[p])
        BY <1>4, <1>11, <3>2 DEF UpToDate, last_log_term
      <4>4. Cardinality(Q \union {p}) = op.votes + 1
        BY <2>4, <2>5, Zenon DEF Voters, SetFacts
      <4>5. Voters(Q \union {p})'
        BY <2>1, <2>4, <2>5, <2>6, <3>2, <4>2, <4>3, <4>4 DEF Voters
      <4>. QED  BY <4>5
    <3>. QED  BY <1>4, <3>1, <3>2
  <2>8. Electing'
    BY <1>1, <2>1, <2>2, <2>3, <2>7 DEF Electing
  <2>. QED  BY <1>9, <2>8 DEF IInv, OpInv
<1>. QED  BY <1>1, <1>2, <1>10, <1>12, <1>13

\* A majority of votes elects: it has voted for no other in this term, and no
\* log has an entry of the term yet.
LEMMA FinishElectionIs ==
  ASSUME SetFacts, IInv, FinishElection, Majority(op.votes)
  PROVE  /\ Electing /\ op.id \in Nodes
         /\ \E Q \in Quorum : Voters(Q)
         /\ \A b \in leaders : b[1] # op.request.term
         /\ nodes' = [nodes EXCEPT ![op.id].role = "leader"]
         /\ leaders' = leaders \union {<<op.request.term, op.id>>}
         /\ op' = Idle /\ UNCHANGED <<disk, failed, applied, committed>>
<1>0. TypeInv /\ LeaderInv
  BY DEF IInv, StateInv
<1>1. Electing
  BY WhichCall DEF IInv, FinishElection
<1>2. /\ op.id \in Nodes /\ op.request.term = nodes[op.id].term /\ op.request.term \in Nat
      /\ <<op.request.term, op.id>> \notin leaders
  BY <1>1 DEF Electing, ElectOp, VoteReq
<1>3. PICK Q : Voters(Q)
  BY <1>1 DEF Electing
<1>4. Q \in Quorum
  BY <1>3 DEF Voters, Quorum
<1>5. ASSUME NEW b \in leaders, b[1] = op.request.term PROVE FALSE
  <2>1. b = <<b[1], b[2]>>
    BY <1>0 DEF TypeInv
  <2>2. PICK R \in Quorum : \A v \in R : HasVoted(v, b[1], b[2])
    BY <1>0 DEF LeaderInv
  <2>3. PICK v \in Nodes : v \in Q /\ v \in R
    BY <1>4, QuorumsMeet
  <2>4. disk[v].term = op.request.term /\ disk[v].vote = op.id
    BY <1>3, <2>3 DEF Voters
  <2>5. b[2] = op.id
    BY <1>2, <1>5, <2>2, <2>3, <2>4 DEF HasVoted
  <2>. QED  BY <1>2, <1>5, <2>1, <2>5
<1>6. /\ nodes' = [nodes EXCEPT ![op.id].role = "leader"]
      /\ leaders' = leaders \union {<<op.request.term, op.id>>}
      /\ op' = Idle /\ UNCHANGED <<disk, failed, applied, committed>>
  BY <1>2 DEF FinishElection
<1>. QED  BY <1>1, <1>2, <1>3, <1>4, <1>5, <1>6

\* A majority makes a leader, the only one of its term.
LEMMA FinishElectionKeeps ==
  ASSUME SetFacts, IInv, FinishElection
  PROVE  IInv'
<1>0. StateInv /\ TypeInv /\ OrderInv /\ VoteInv /\ LeaderInv /\ LogInv /\ TermInv /\ OwnInv
  BY DEF IInv, StateInv
<1>1. CASE ~Majority(op.votes)
  <2>1. UNCHANGED <<nodes, disk, leaders, failed>> /\ op' = Idle
    BY <1>1 DEF FinishElection
  <2>2. StateInv'
    BY <1>0, <2>1, SameState DEF TypeInv
  <2>. QED  BY <2>1, <2>2 DEF IInv, OpInv
<1>2. CASE Majority(op.votes)
  <2>1. PICK i, t : i = op.id /\ t = op.request.term
    OBVIOUS
  <2>2. /\ Electing /\ i \in Nodes /\ \A b \in leaders : b[1] # t
        /\ nodes' = [nodes EXCEPT ![i].role = "leader"] /\ leaders' = leaders \union {<<t, i>>}
        /\ op' = Idle /\ UNCHANGED <<disk, failed>>
    BY <1>2, <2>1, FinishElectionIs
  <2>3. t \in Nat \ {0} /\ t = nodes[i].term /\ t = disk[i].term
    BY <2>1, <2>2 DEF Electing, ElectOp, VoteReq
  <2>4. /\ nodes' \in [Nodes -> Node] /\ nodes'[i].role = "leader"
        /\ \A j \in Nodes : /\ nodes'[j].term = nodes[j].term /\ nodes'[j].vote = nodes[j].vote
                            /\ nodes'[j].log = nodes[j].log
                            /\ j # i => nodes'[j].role = nodes[j].role
    <3>1. nodes[i] \in Node /\ nodes \in [Nodes -> Node]
      BY <1>0, <2>2 DEF TypeInv
    <3>2. /\ [nodes[i] EXCEPT !.role = "leader"] \in Node
          /\ [nodes[i] EXCEPT !.role = "leader"].role = "leader"
          /\ [nodes[i] EXCEPT !.role = "leader"].term = nodes[i].term
          /\ [nodes[i] EXCEPT !.role = "leader"].vote = nodes[i].vote
          /\ [nodes[i] EXCEPT !.role = "leader"].log = nodes[i].log
      BY <3>1 DEF Node
    <3>3. nodes' = [nodes EXCEPT ![i] = [nodes[i] EXCEPT !.role = "leader"]]
      BY <2>2, <3>1
    <3>. QED  BY <2>2, <3>1, <3>2, <3>3
  <2>5. TypeInv'
    BY <1>0, <2>2, <2>3, <2>4 DEF TypeInv
  <2>6. OrderInv'
    BY <1>0, <2>2, <2>4 DEF OrderInv, Evolved, Persistent
  <2>7. VoteInv'
    BY <1>0, <2>2, <2>4 DEF VoteInv
  <2>8. LeaderInv'
    <3>1. \A b \in leaders' : b \in leaders \/ (b = <<t, i>> /\ b[1] = t /\ b[2] = i)
      BY <2>2
    <3>2. PICK Q \in Quorum : Voters(Q)
      BY <1>2, FinishElectionIs
    <3>3. \A v \in Q : disk[v].term = t /\ disk[v].vote = i
      BY <2>1, <3>2 DEF Voters
    <3>4. ASSUME NEW b \in leaders'
          PROVE  /\ b[1] <= disk'[b[2]].term
                 /\ \E R \in Quorum : \A v \in R : HasVoted(v, b[1], b[2])'
      <4>1. CASE b \in leaders
        BY <1>0, <2>2, <4>1 DEF LeaderInv, HasVoted
      <4>2. CASE b[1] = t /\ b[2] = i
        BY <2>2, <2>3, <3>3, <4>2 DEF HasVoted
      <4>. QED  BY <3>1, <4>1, <4>2
    <3>5. ASSUME NEW j \in Nodes, nodes'[j].role = "leader" PROVE <<nodes'[j].term, j>> \in leaders'
      <4>1. CASE j = i
        <5>1. nodes'[j].term = t
          BY <2>2, <2>3, <2>4, <4>1, Zenon
        <5>. QED  BY <2>2, <4>1, <5>1
      <4>2. CASE j # i
        <5>1. nodes[j].role = "leader" /\ nodes'[j].term = nodes[j].term
          BY <2>4, <3>5, <4>2
        <5>2. <<nodes[j].term, j>> \in leaders
          BY <1>0, <5>1 DEF LeaderInv
        <5>. QED  BY <2>2, <5>1, <5>2
      <4>. QED  BY <4>1, <4>2
    <3>6. ElectionSafety'
      BY <1>0, <2>2, <3>1 DEF LeaderInv, ElectionSafety
    <3>. QED  BY <3>4, <3>5, <3>6 DEF LeaderInv
  <2>9. Logs' = Logs
    BY <2>2, <2>4 DEF Logs
  <2>10. LogInv'
    BY <1>0, <2>2, <2>9 DEF LogInv, FromLeaders
  <2>11. TermInv'
    BY <1>0, <2>2, <2>4 DEF TermInv
  <2>12. OwnInv'
    <3>1. ASSUME NEW x \in Logs, NEW k \in 1..Len(x) PROVE x[k].term # t
      <4>1. PICK l \in Nodes : <<x[k].term, l>> \in leaders
        BY <1>0 DEF LogInv, FromLeaders
      <4>. QED  BY <2>2, <4>1
    <3>2. \A x \in Logs : Owns(nodes'[i], x)
      <4>1. nodes'[i].term = t
        BY <2>2, <2>3, <2>4, Zenon
      <4>. QED  BY <3>1, <4>1 DEF Owns
    <3>3. \A j \in Nodes : j # i /\ nodes'[j].role = "leader" => \A x \in Logs : Owns(nodes'[j], x)
      BY <1>0, <2>4 DEF OwnInv, Owns
    <3>. QED  BY <2>9, <3>2, <3>3 DEF OwnInv
  <2>. QED  BY <2>2, <2>5, <2>6, <2>7, <2>8, <2>10, <2>11, <2>12 DEF IInv, StateInv, OpInv
<1>. QED  BY <1>1, <1>2

-----------------------------------------------------------------------------
\* replicate and synchronize.

\* What Append does to a log.
LEMMA AppendIs ==
  ASSUME NEW L \in Seq(Entry), NEW e \in Entry
  PROVE  /\ Append(L, e) \in Seq(Entry) /\ Len(Append(L, e)) = Len(L) + 1 /\ Len(L) \in Nat
         /\ \A j \in 1..Len(L) : Append(L, e)[j] = L[j]
         /\ Append(L, e)[Len(L) + 1] = e
OBVIOUS

\* An entry of a term all of whose entries are in the log keeps it matching.
LEMMA AppendMatches ==
  ASSUME NEW L \in Seq(Entry), NEW y \in Seq(Entry), NEW e \in Entry,
         Matching(L, y), Matching(y, L),
         \A k \in 1..Len(y) : y[k].term = e.term => k <= Len(L) /\ L[k].term = e.term
  PROVE  Matching(Append(L, e), y) /\ Matching(y, Append(L, e))
<1>1. PICK x : x = Append(L, e)
  BY Zenon
<1>2. /\ x \in Seq(Entry) /\ Len(x) = Len(L) + 1 /\ Len(L) \in Nat /\ Len(y) \in Nat
      /\ \A j \in 1..Len(L) : x[j] = L[j]
      /\ x[Len(L) + 1] = e
  BY <1>1, AppendIs
<1>3. ASSUME NEW k \in 1..Len(x), NEW m \in 1..Len(y), k <= m, x[k].term = y[m].term, NEW j \in 1..k
      PROVE  x[j] = y[j]
  <2>1. k \in 1..Len(L)
    BY <1>2, <1>3
  <2>2. L[k].term = y[m].term /\ j \in 1..Len(L)
    BY <1>2, <1>3, <2>1
  <2>3. L[j] = y[j]
    BY <1>3, <2>1, <2>2 DEF Matching
  <2>. QED  BY <1>2, <2>2, <2>3
<1>4. ASSUME NEW k \in 1..Len(y), NEW m \in 1..Len(x), k <= m, y[k].term = x[m].term, NEW j \in 1..k
      PROVE  y[j] = x[j]
  <2>1. CASE m <= Len(L)
    <3>1. m \in 1..Len(L) /\ y[k].term = L[m].term /\ j \in 1..Len(L)
      BY <1>2, <1>4, <2>1
    <3>2. y[j] = L[j]
      BY <1>4, <3>1 DEF Matching
    <3>. QED  BY <1>2, <3>1, <3>2
  <2>2. CASE m = Len(L) + 1
    <3>1. y[k].term = e.term
      BY <1>2, <1>4, <2>2
    <3>2. k \in 1..Len(L) /\ L[k].term = y[k].term /\ j \in 1..Len(L)
      BY <1>2, <3>1
    <3>3. y[j] = L[j]
      BY <3>2 DEF Matching
    <3>. QED  BY <1>2, <3>2, <3>3
  <2>. QED  BY <1>2, <2>1, <2>2
<1>5. Matching(x, y) /\ Matching(y, x)
  BY <1>3, <1>4 DEF Matching
<1>. QED  BY <1>1, <1>5

\* An entry of the highest term keeps the terms ascending.
LEMMA AppendAscends ==
  ASSUME NEW L \in Seq(Entry), NEW e \in Entry, TermsAscend(L), TermsBelow(L, e.term)
  PROVE  TermsAscend(Append(L, e)) /\ TermsBelow(Append(L, e), e.term)
<1>1. PICK x : x = Append(L, e)
  BY Zenon
<1>2. /\ Len(x) = Len(L) + 1 /\ Len(L) \in Nat /\ \A j \in 1..Len(L) : x[j] = L[j]
      /\ x[Len(L) + 1] = e
  BY <1>1, AppendIs
<1>3. e.term \in Nat
  BY DEF Entry
<1>4. TermsBelow(x, e.term)
  BY <1>2, <1>3 DEF TermsBelow
<1>5. TermsAscend(x)
  BY <1>2, <1>3, <1>4 DEF TermsBelow, TermsAscend
<1>. QED  BY <1>1, <1>4, <1>5

\* The call that sends L from leader l begins.
LEMMA SendingIs ==
  ASSUME NEW l \in Nodes, NEW n \in Node, NEW peers \in Reachable(l), op' = Sending(l, n, peers),
         nodes'[l] = n, n.role = "leader"
  PROVE  Sends'
<1>1. PICK m : m = [f \in Nodes \ {l} |-> 0]
  BY Zenon
<1>2. m \in [Nodes \ {l} -> Nat] /\ (\A f \in Nodes \ {l} : m[f] = 0)
  BY <1>1
<1>3. m \in UNION {[D -> Nat] : D \in SUBSET Nodes}
  BY <1>2
<1>4. peers \subseteq Nodes \ {l}
  BY DEF Reachable
<1>5. op' = [call |-> "send", id |-> l, term |-> n.term, log |-> n.log,
             commit |-> n.commit, peers |-> peers, left |-> peers, prev |-> Len(n.log),
             matched |-> m]
  BY <1>1 DEF Sending
<1>6. op' \in SendOp
  BY <1>3, <1>4, <1>5, NodeFields DEF SendOp
<1>7. /\ op'.id = l /\ op'.term = n.term /\ op'.log = n.log /\ op'.commit = n.commit
      /\ op'.peers = peers /\ op'.left = peers /\ op'.prev = Len(n.log) /\ op'.matched = m
  BY <1>5
<1>8. Leads(op.peers \ op.left)'
  BY <1>7 DEF Leads
<1>. QED  BY <1>2, <1>4, <1>6, <1>7, <1>8, NodeFields DEF Sends

\* synchronize begins to send and changes no node.
LEMMA SynchronizeKeeps ==
  ASSUME IInv, NEW l \in Nodes, NEW peers \in Reachable(l), synchronize(l, peers)
  PROVE  IInv'
<1>0. StateInv /\ TypeInv
  BY DEF IInv, StateInv
<1>1. /\ nodes' = nodes /\ disk' = disk /\ leaders' = leaders /\ failed' = failed
      /\ nodes[l].role = "leader" /\ op' = Sending(l, nodes[l], peers)
  BY DEF synchronize
<1>2. nodes[l] \in Node /\ nodes \in [Nodes -> Node]
  BY <1>0 DEF TypeInv
<1>3. StateInv'
  BY <1>0, <1>1, <1>2, SameState
<1>4. PICK n : n = nodes[l]
  OBVIOUS
<1>5. Sends'
  BY <1>1, <1>2, <1>4, SendingIs
<1>. QED  BY <1>3, <1>5 DEF IInv, OpInv

\* The leader and its new log.
Appended(l, e, n) ==
  /\ n \in Node /\ e \in Entry /\ e.term = nodes[l].term /\ nodes[l].role = "leader"
  /\ n.term = nodes[l].term /\ n.vote = nodes[l].vote /\ n.log = Append(nodes[l].log, e)
  /\ n.commit = nodes[l].commit /\ n.applied = nodes[l].applied /\ n.role = "leader"
  /\ Update(l, n) /\ Evolved(nodes[l], n) /\ UNCHANGED <<leaders, applied, committed>>

\* replicate appends an entry of the leader's term.
LEMMA ReplicateIs ==
  ASSUME IInv, NEW l \in Nodes, NEW command \in Commands, NEW peers \in Reachable(l),
         replicate(l, command, peers)
  PROVE  \E e, n : Appended(l, e, n) /\ op' \in {Idle, Sending(l, n, peers)}
<1>0. TypeInv /\ LeaderInv
  BY DEF IInv, StateInv
<1>1. nodes[l] \in Node /\ nodes[l].role = "leader"
  BY <1>0 DEF TypeInv, replicate
<1>2. nodes[l].term > 0
  <2>1. <<nodes[l].term, l>> \in leaders
    BY <1>0, <1>1 DEF LeaderInv
  <2>. QED  BY <1>0, <2>1 DEF TypeInv
<1>3. PICK n : n = append_as_leader(nodes[l], command)
  OBVIOUS
<1>4. PICK e : e = [term |-> nodes[l].term, command |-> command]
  BY Zenon
<1>5. /\ e \in Entry /\ e.term = nodes[l].term /\ n \in Node
      /\ n.term = nodes[l].term /\ n.vote = nodes[l].vote /\ n.log = Append(nodes[l].log, e)
      /\ n.commit = nodes[l].commit /\ n.applied = nodes[l].applied /\ n.role = nodes[l].role
  BY <1>1, <1>2, <1>3, <1>4, AppendAsLeaderIs
<1>6. /\ UNCHANGED <<leaders, applied, committed>>
      /\ (Becomes(l, n, TRUE) /\ op' = Sending(l, n, peers)) \/ PersistFails(l, n)
  BY <1>3, Zenon DEF replicate
<1>7. Becomes(l, n, TRUE) => Update(l, n)
  BY BecomesIs, Zenon
<1>8. Update(l, n) /\ op' \in {Idle, Sending(l, n, peers)}
  BY <1>6, <1>7, FailsIs, ZenonT(30)
<1>9. Evolved(nodes[l], n)
  BY <1>5, EvolvedSame
<1>10. Appended(l, e, n)
  BY <1>1, <1>5, <1>6, <1>8, <1>9 DEF Appended
<1>. QED  BY <1>8, <1>10

\* A leader's new entry keeps StateInv: nobody else has an entry there of its
\* term.
LEMMA AppendedKeeps ==
  ASSUME StateInv, NEW l \in Nodes, NEW e, NEW n, Appended(l, e, n)
  PROVE  StateInv'
<1>0. TypeInv /\ OrderInv /\ VoteInv /\ LeaderInv /\ LogInv /\ TermInv /\ OwnInv
  BY DEF StateInv
<1>1. /\ n \in Node /\ e \in Entry /\ e.term = nodes[l].term /\ nodes[l].role = "leader"
      /\ n.term = nodes[l].term /\ n.vote = nodes[l].vote /\ n.log = Append(nodes[l].log, e)
      /\ n.role = "leader" /\ Update(l, n) /\ Evolved(nodes[l], n) /\ leaders' = leaders
  BY DEF Appended
<1>2. /\ nodes' \in [Nodes -> Node] /\ nodes'[l] = n /\ disk' \in [Nodes -> State]
      /\ \A j \in Nodes : j # l => nodes'[j] = nodes[j] /\ disk'[j] = disk[j]
      /\ disk'[l] \in {Persistent(n), disk[l]} /\ failed' \in BOOLEAN /\ OrderInv'
  BY <1>0, <1>1, UpdateIs
<1>3. TypeInv'
  BY <1>0, <1>1, <1>2 DEF TypeInv
<1>4. VoteInv'
  <2>1. \A c \in Nodes : c # l /\ n.vote = c => n.term <= disk[c].term
    BY <1>0, <1>1, ZenonT(30) DEF VoteInv
  <2>. QED  BY <1>0, <1>1, <2>1, KeepsVotes
<1>5. LeaderInv'
  BY <1>0, <1>1, KeepsLeaders
<1>6. PICK L : L = nodes[l].log
  OBVIOUS
<1>7. L \in Logs /\ L \in Seq(Entry) /\ n.log = Append(L, e) /\ nodes[l].term \in Nat
  BY <1>0, <1>1, <1>6, StateIs
<1>8. /\ n.log \in Seq(Entry) /\ Len(n.log) = Len(L) + 1 /\ Len(L) \in Nat
      /\ \A j \in 1..Len(L) : n.log[j] = L[j]
      /\ n.log[Len(L) + 1] = e
  BY <1>1, <1>7, AppendIs
<1>9. Logs' \subseteq Logs \union {n.log}
  <2>1. Persistent(n).log = n.log
    BY <1>1, PersistentIs
  <2>2. \A j \in Nodes : nodes'[j].log \in Logs \union {n.log} /\ disk'[j].log \in Logs \union {n.log}
    BY <1>0, <1>2, <2>1, StateIs
  <2>. QED  BY <2>2 DEF Logs
<1>10. <<e.term, l>> \in leaders
  BY <1>0, <1>1 DEF LeaderInv
<1>11. \A x \in Logs : Owns(nodes[l], x)
  BY <1>0, <1>1 DEF OwnInv
<1>12. TermsAscend(n.log) /\ TermsBelow(n.log, e.term)
  <2>1. TermsAscend(L) /\ TermsBelow(L, e.term)
    BY <1>0, <1>1, <1>6, <1>7 DEF LogInv, TermInv
  <2>. QED  BY <1>1, <1>7, <2>1, AppendAscends
<1>13. FromLeaders(n.log)
  <2>1. FromLeaders(L)
    BY <1>0, <1>7 DEF LogInv
  <2>2. ASSUME NEW k \in 1..Len(n.log) PROVE \E i \in Nodes : <<n.log[k].term, i>> \in leaders
    <3>1. CASE k = Len(L) + 1
      BY <1>8, <1>10, <3>1
    <3>2. CASE k # Len(L) + 1
      <4>1. k \in 1..Len(L) /\ n.log[k] = L[k]
        BY <1>8, <3>2
      <4>. QED  BY <2>1, <4>1, ZenonT(30) DEF FromLeaders
    <3>. QED  BY <3>1, <3>2
  <2>. QED  BY <2>2, Zenon DEF FromLeaders
<1>14. ASSUME NEW y \in Logs PROVE Matching(n.log, y) /\ Matching(y, n.log)
  <2>1. y \in Seq(Entry) /\ Matching(L, y) /\ Matching(y, L)
    BY <1>0, <1>7, LogsAre DEF LogInv
  <2>2. \A k \in 1..Len(y) : y[k].term = e.term => k <= Len(L) /\ L[k].term = e.term
    BY <1>1, <1>6, <1>11 DEF Owns
  <2>. QED  BY <1>1, <1>7, <2>1, <2>2, AppendMatches
<1>15. Matching(n.log, n.log)
  <2>1. \A k, m \in 1..Len(n.log) : \A j \in 1..k : n.log[j] = n.log[j]
    OBVIOUS
  <2>. QED  BY <2>1 DEF Matching
<1>16. LogInv'
  <2>1. ASSUME NEW x \in Logs \union {n.log}
        PROVE  TermsAscend(x) /\ FromLeaders(x) /\ \A y \in Logs \union {n.log} : Matching(x, y)
    BY <1>0, <1>12, <1>13, <1>14, <1>15 DEF LogInv
  <2>2. \A x : FromLeaders(x) => FromLeaders(x)'
    BY <1>1 DEF FromLeaders
  <2>. QED  BY <1>9, <2>1, <2>2 DEF LogInv
<1>17. TermInv'
  <2>1. Persistent(n).log = n.log /\ Persistent(n).term = n.term
    BY <1>1, PersistentIs
  <2>2. TermsBelow(n.log, n.term)
    BY <1>1, <1>12
  <2>. QED  BY <1>0, <1>2, <2>1, <2>2 DEF TermInv
<1>18. ASSUME NEW j \in Nodes, nodes'[j].role = "leader", NEW x \in Logs \union {n.log}
       PROVE  Owns(nodes'[j], x)
  <2>1. CASE j = l
    <3>1. CASE x = n.log
      <4>1. \A k \in 1..Len(n.log) : k <= Len(n.log)
        BY <1>8
      <4>2. Owns(n, n.log)
        BY <4>1 DEF Owns
      <4>. QED  BY <1>2, <2>1, <3>1, <4>2
    <3>2. CASE x \in Logs
      <4>1. \A k \in 1..Len(x) : x[k].term = n.term => k \in 1..Len(L) /\ L[k].term = n.term
        BY <1>0, <1>1, <1>6, <1>8, <1>11, <3>2, LogsAre DEF Owns
      <4>2. \A k \in 1..Len(x) : x[k].term = n.term => k <= Len(n.log) /\ n.log[k].term = n.term
        BY <1>8, <4>1
      <4>. QED  BY <1>2, <2>1, <4>2 DEF Owns
    <3>. QED  BY <3>1, <3>2
  <2>2. CASE j # l
    <3>1. nodes'[j] = nodes[j] /\ nodes[j].role = "leader" /\ \A y \in Logs : Owns(nodes[j], y)
      BY <1>0, <1>2, <1>18, <2>2 DEF OwnInv
    <3>2. <<nodes[j].term, j>> \in leaders
      BY <1>0, <3>1 DEF LeaderInv
    <3>3. nodes[j].term # e.term
      BY <1>0, <1>10, <2>2, <3>2 DEF LeaderInv, ElectionSafety
    <3>4. CASE x = n.log
      <4>1. ASSUME NEW k \in 1..Len(n.log), n.log[k].term = nodes[j].term
            PROVE  k <= Len(nodes[j].log) /\ nodes[j].log[k].term = nodes[j].term
        <5>1. k \in 1..Len(L)
          BY <1>8, <3>3, <4>1
        <5>2. L[k].term = nodes[j].term
          BY <1>8, <4>1, <5>1
        <5>. QED  BY <1>7, <3>1, <5>1, <5>2 DEF Owns
      <4>. QED  BY <3>1, <3>4, <4>1 DEF Owns
    <3>. QED  BY <1>18, <3>1, <3>4
  <2>. QED  BY <2>1, <2>2
<1>19. OwnInv'
  BY <1>9, <1>18 DEF OwnInv
<1>. QED  BY <1>2, <1>3, <1>4, <1>5, <1>16, <1>17, <1>19 DEF StateInv

\* replicate keeps the invariant, also when its persist() fails.
LEMMA ReplicateKeeps ==
  ASSUME IInv, NEW l \in Nodes, NEW command \in Commands, NEW peers \in Reachable(l),
         replicate(l, command, peers)
  PROVE  IInv'
<1>1. PICK e, n : Appended(l, e, n) /\ op' \in {Idle, Sending(l, n, peers)}
  BY ReplicateIs
<1>2. StateInv /\ TypeInv /\ OrderInv
  BY DEF IInv, StateInv
<1>3. StateInv'
  BY <1>1, <1>2, AppendedKeeps
<1>4. n \in Node /\ n.role = "leader" /\ Update(l, n) /\ Evolved(nodes[l], n)
  BY <1>1 DEF Appended
<1>5. nodes'[l] = n
  BY <1>2, <1>4, UpdateIs
<1>6. op' = Sending(l, n, peers) => Sends'
  BY <1>4, <1>5, SendingIs
<1>. QED  BY <1>1, <1>3, <1>6 DEF IInv, OpInv

\* The follower's log once it has matched at prev is the leader's.
LEMMA MergedIsLog ==
  ASSUME NEW x \in Seq(Entry), NEW L \in Seq(Entry), NEW prev \in Nat, prev <= Len(L),
         Matching(x, L), Matches(x, prev, TermAt(L, prev))
  PROVE  Merged(x, prev, SubSeq(L, prev + 1, Len(L))) = L
<1>1. Len(L) \in Nat /\ Len(x) \in Nat /\ prev <= Len(x)
  BY DEF Matches
<1>2. \A j \in 1..prev : x[j] = L[j]
  <2>1. CASE prev = 0
    BY <2>1
  <2>2. CASE prev > 0
    <3>1. prev \in 1..Len(x) /\ prev \in 1..Len(L) /\ x[prev].term = L[prev].term
      BY <1>1, <2>2 DEF Matches, TermAt
    <3>. QED  BY <3>1 DEF Matching
  <2>. QED  BY <2>1, <2>2
<1>3. PICK es : es = SubSeq(L, prev + 1, Len(L))
  BY Zenon
<1>4. /\ es \in Seq(Entry) /\ Len(es) = Len(L) - prev
      /\ \A i \in 1..(Len(L) - prev) : es[i] = L[prev + i]
  <2>1. \A i \in (prev + 1)..Len(L) : L[i] \in Entry
    BY <1>1
  <2>2. /\ es \in Seq(Entry)
        /\ Len(es) = IF prev + 1 <= Len(L) THEN Len(L) - (prev + 1) + 1 ELSE 0
        /\ \A i \in 1..(Len(L) - (prev + 1) + 1) : es[i] = L[(prev + 1) + i - 1]
    BY <1>1, <1>3, <2>1, PartIs
  <2>. QED  BY <1>1, <2>2
<1>5. PICK y : y = Merged(x, prev, es)
  OBVIOUS
<1>6. /\ y \in Seq(Entry) /\ Len(y) = prev + Len(es)
      /\ \A j \in 1..prev : y[j] = x[j]
      /\ \A j \in (prev + 1)..(prev + Len(es)) : y[j] = es[j - prev]
  <2>1. es \in Seq(Entry) /\ prev <= Len(x)
    BY <1>1, <1>4
  <2>2. /\ Merged(x, prev, es) \in Seq(Entry) /\ Len(Merged(x, prev, es)) = prev + Len(es)
        /\ \A j \in 1..prev : Merged(x, prev, es)[j] = x[j]
        /\ \A j \in (prev + 1)..(prev + Len(es)) : Merged(x, prev, es)[j] = es[j - prev]
    BY <2>1, MergedIs, Zenon
  <2>. QED  BY <1>5, <2>2
<1>7. Len(y) = Len(L)
  BY <1>1, <1>4, <1>6
<1>8. ASSUME NEW j \in 1..Len(L) PROVE y[j] = L[j]
  <2>1. CASE j <= prev
    BY <1>1, <1>2, <1>6, <2>1
  <2>2. CASE j > prev
    <3>1. j - prev \in 1..(Len(L) - prev) /\ j \in (prev + 1)..(prev + Len(es))
      BY <1>1, <1>4, <2>2
    <3>2. y[j] = es[j - prev] /\ es[j - prev] = L[prev + (j - prev)] /\ prev + (j - prev) = j
      BY <1>1, <1>4, <1>6, <3>1
    <3>. QED  BY <3>2
  <2>. QED  BY <1>1, <2>1, <2>2
<1>9. y = L
  BY <1>6, <1>7, <1>8, SameLog
<1>. QED  BY <1>3, <1>5, <1>9

\* The follower f answers a to the request q and has become n.
Accepted(f, q, a, n) ==
  /\ n \in Node /\ Accepts(nodes[f], q, a) /\ q.term >= nodes[f].term
  /\ n.term = q.term /\ n.role = "follower" /\ n.log = a.node.log /\ n.vote = a.node.vote
  /\ n.applied = nodes[f].applied /\ Update(f, n) /\ Evolved(nodes[f], n)
  /\ \/ n.commit = a.node.commit /\ Becomes(f, n, a.persists)
     \/ n.commit = nodes[f].commit /\ failed' = TRUE /\ op' = Idle

Refused(f, q, a) ==
  /\ q.term < nodes[f].term /\ a.term = nodes[f].term
  /\ UNCHANGED <<nodes, disk, failed>>

\* append_entries refuses an older term or follows it; then its persist() may
\* fail.
LEMMA AppendStep ==
  ASSUME TypeInv, NEW f \in Nodes, NEW q \in AppendReq, NEW a, a = append_entries(nodes[f], q),
         Becomes(f, a.node, a.persists) \/ AppendFails(f, a)
  PROVE  \/ Refused(f, q, a) /\ Becomes(f, a.node, a.persists)
         \/ \E n : Accepted(f, q, a, n)
<1>1. nodes[f] \in Node /\ nodes[f].term \in Nat /\ q.term \in Nat /\ nodes[f].commit \in Nat
  BY StateIs DEF AppendReq
<1>2. IF q.term < nodes[f].term THEN Refuses(nodes[f], a) ELSE Accepts(nodes[f], q, a)
  BY <1>1, AppendEntriesIs
<1>3. CASE q.term < nodes[f].term
  <2>1. a.node = nodes[f] /\ ~a.persists /\ a.term = nodes[f].term
    BY <1>2, <1>3 DEF Refuses
  <2>2. Becomes(f, nodes[f], a.persists) /\ Becomes(f, a.node, a.persists)
    BY <2>1 DEF AppendFails
  <2>3. UNCHANGED <<nodes, disk, failed>>
    BY <2>1, <2>2 DEF Becomes, TypeInv
  <2>. QED  BY <1>3, <2>1, <2>2, <2>3 DEF Refused
<1>4. CASE ~(q.term < nodes[f].term)
  <2>1. Accepts(nodes[f], q, a) /\ q.term >= nodes[f].term
    BY <1>1, <1>2, <1>4
  <2>2. PICK b : b = a.node
    OBVIOUS
  <2>3. /\ b \in Node /\ b.term = q.term /\ b.role = "follower" /\ b.applied = nodes[f].applied
        /\ b.vote = IF q.term > nodes[f].term THEN Nobody ELSE nodes[f].vote
        /\ a.persists <=> b.term # nodes[f].term \/ b.log # nodes[f].log
    BY <2>1, <2>2 DEF Accepts
  <2>4. Evolved(nodes[f], b)
    BY <1>1, <2>1, <2>3 DEF Evolved
  <2>5. CASE Becomes(f, a.node, a.persists)
    <3>1. ~a.persists => Persistent(b) = Persistent(nodes[f])
      BY <1>1, <2>3 DEF Persistent
    <3>2. Becomes(f, b, a.persists)
      BY <2>2, <2>5
    <3>3. Update(f, b)
      BY <3>1, <3>2, BecomesIs
    <3>4. Accepted(f, q, a, b)
      BY <2>1, <2>2, <2>3, <2>4, <3>2, <3>3 DEF Accepted
    <3>. QED  BY <3>4
  <2>6. CASE AppendFails(f, a)
    <3>1. PICK n : n = [b EXCEPT !.commit = nodes[f].commit]
      BY Zenon
    <3>2. PersistFails(f, n)
      BY <2>2, <2>6, <3>1 DEF AppendFails
    <3>3. /\ n \in Node /\ n.term = b.term /\ n.role = b.role /\ n.log = b.log /\ n.vote = b.vote
          /\ n.applied = b.applied /\ n.commit = nodes[f].commit
      BY <1>1, <2>3, <3>1 DEF Node
    <3>4. Update(f, n) /\ op' = Idle /\ failed' = TRUE
      BY <3>2, FailsIs, Zenon
    <3>5. Evolved(nodes[f], n)
      BY <2>4, <3>3 DEF Evolved
    <3>6. Accepted(f, q, a, n)
      BY <2>1, <2>2, <2>3, <3>3, <3>4, <3>5, ZenonT(30) DEF Accepted
    <3>. QED  BY <3>6
  <2>. QED  BY <2>5, <2>6
<1>. QED  BY <1>3, <1>4

\* What a follower that accepts a leader's request keeps.
LEMMA AcceptedKeeps ==
  ASSUME StateInv, NEW f \in Nodes, NEW q, NEW a, NEW n, Accepted(f, q, a, n),
         n.log \in Logs, TermsBelow(n.log, n.term), leaders' = leaders
  PROVE  StateInv'
<1>0. TypeInv /\ VoteInv
  BY DEF StateInv
<1>1. /\ n \in Node /\ Update(f, n) /\ Evolved(nodes[f], n) /\ n.role = "follower"
      /\ n.term = q.term /\ q.term >= nodes[f].term
      /\ n.vote = IF q.term > nodes[f].term THEN Nobody ELSE nodes[f].vote
  BY ZenonT(30) DEF Accepted, Accepts
<1>2. n.term \in Nat /\ nodes[f].term \in Nat
  BY <1>0, <1>1, StateIs, NodeFields, Zenon
<1>3. n.vote = Nobody \/ (n.vote = nodes[f].vote /\ n.term = nodes[f].term)
  <2>1. CASE q.term > nodes[f].term
    BY <1>1, <2>1, Zenon
  <2>2. CASE ~(q.term > nodes[f].term)
    <3>1. n.term = q.term /\ q.term >= nodes[f].term /\ q.term \in Nat
      BY <1>1, <1>2, Zenon
    <3>2. n.term = nodes[f].term
      BY <1>2, <2>2, <3>1, NotGreater, Zenon
    <3>. QED  BY <1>1, <2>2, <3>2, Zenon
  <2>. QED  BY <2>1, <2>2, Zenon
<1>4. \A c \in Nodes : c # f /\ n.vote = c => n.term <= disk[c].term
  BY <1>0, <1>3, NobodyIsNoNode DEF VoteInv
<1>. QED  BY <1>1, <1>4, KeepsState, Zenon

\* The request that is sent next.
NextRequest == Request(op.prev, SubSeq(op.log, op.prev + 1, Len(op.log)), op.commit)

\* The request that replicate_existing sends next.
LEMMA NextRequestIs ==
  ASSUME Sends
  PROVE  /\ NextRequest \in AppendReq /\ NextRequest.term = op.term /\ NextRequest.prev = op.prev
         /\ NextRequest.prevTerm = TermAt(op.log, op.prev) /\ NextRequest.commit = op.commit
         /\ NextRequest.entries = SubSeq(op.log, op.prev + 1, Len(op.log))
<1>1. /\ op.term \in Nat /\ op.log \in Seq(Entry) /\ op.commit \in Nat /\ op.prev \in Nat
      /\ op.prev <= Len(op.log) /\ Len(op.log) \in Nat
  BY DEF Sends, SendOp
<1>2. \A i \in 1..Len(op.log) : op.log[i] \in Entry
  BY <1>1
<1>3. TermAt(op.log, op.prev) \in Nat
  <2>1. CASE op.prev = 0
    BY <2>1 DEF TermAt
  <2>2. CASE op.prev # 0
    <3>1. op.log[op.prev] \in Entry
      BY <1>1, <1>2, <2>2
    <3>. QED  BY <2>2, <3>1 DEF TermAt, Entry
  <2>. QED  BY <2>1, <2>2
<1>4. SubSeq(op.log, op.prev + 1, Len(op.log)) \in Seq(Entry)
  <2>1. \A i \in (op.prev + 1)..Len(op.log) : op.log[i] \in Entry
    BY <1>1, <1>2
  <2>. QED  BY <1>1, <2>1, PartIs
<1>. QED  BY <1>1, <1>3, <1>4, Zenon DEF NextRequest, Request, AppendReq

\* The call goes on after the answer of f.
GoesOn(f, success) ==
  IF success
    THEN op' = [[op EXCEPT !.left = @ \ {f}, !.prev = Len(op.log)] EXCEPT !.matched[f] = Len(op.log)]
    ELSE op.prev > 0 /\ op' = [op EXCEPT !.prev = @ - 1]

\* f has taken the request and is n, with the leader's log if it matched.
Takes(f, a, n) ==
  /\ Accepted(f, NextRequest, a, n) /\ n.log = IF a.success THEN op.log ELSE nodes[f].log
  /\ op' = Idle \/ GoesOn(f, a.success)

SendsTo(f, a) ==
  /\ Sends /\ f \in op.left /\ f # op.id /\ UNCHANGED <<leaders, applied, committed>>
  /\ \/ /\ Refused(f, NextRequest, a)
        /\ op' = [call |-> "observe", id |-> op.id, term |-> a.term]
     \/ \E n : Takes(f, a, n)

\* What sending the log to one follower does.
LEMMA SendAppendIs ==
  ASSUME SetFacts, IInv, SendAppend
  PROVE  \E f \in Nodes : \E a : SendsTo(f, a)
<1>0. TypeInv /\ LogInv
  BY DEF IInv, StateInv
<1>1. Sends /\ op.left # {}
  BY WhichCall DEF IInv, SendAppend
<1>2. /\ op \in SendOp /\ op.left \subseteq Nodes /\ op.id \notin op.left /\ op.id \in Nodes
      /\ op.term \in Nat /\ op.log \in Seq(Entry) /\ op.prev \in Nat /\ op.prev <= Len(op.log)
      /\ op.log = nodes[op.id].log
  BY <1>1 DEF Sends, SendOp, Leads
<1>3. PICK f : f = First(op.left)
  OBVIOUS
<1>4. f \in op.left /\ f \in Nodes /\ f # op.id
  BY <1>1, <1>2, <1>3, FirstIsIn
<1>5. PICK q : q = NextRequest
  OBVIOUS
<1>6. PICK a : a = append_entries(nodes[f], q)
  OBVIOUS
<1>7. /\ q \in AppendReq /\ q.term = op.term /\ q.prev = op.prev
      /\ q.prevTerm = TermAt(op.log, op.prev)
      /\ q.entries = SubSeq(op.log, op.prev + 1, Len(op.log))
  BY <1>1, <1>5, NextRequestIs
<1>8. /\ UNCHANGED <<leaders, applied, committed>>
      /\ \/ /\ Becomes(f, a.node, a.persists)
            /\ op' = CASE a.term > op.term -> [call |-> "observe", id |-> op.id, term |-> a.term]
                       [] a.term <= op.term /\ a.success ->
                            [[op EXCEPT !.left = @ \ {f}, !.prev = Len(op.log)]
                              EXCEPT !.matched[f] = Len(op.log)]
                       [] a.term <= op.term /\ ~a.success ->
                            IF op.prev > 0 THEN [op EXCEPT !.prev = @ - 1]
                            ELSE [op EXCEPT !.left = @ \ {f}, !.prev = Len(op.log)]
         \/ AppendFails(f, a)
  BY <1>3, <1>5, <1>6, Zenon DEF SendAppend, NextRequest
<1>9. \/ Refused(f, q, a) /\ Becomes(f, a.node, a.persists)
      \/ \E n : Accepted(f, q, a, n)
  BY <1>0, <1>4, <1>6, <1>7, <1>8, AppendStep
<1>10. CASE Refused(f, q, a) /\ Becomes(f, a.node, a.persists)
  <2>1. q.term < nodes[f].term /\ a.term = nodes[f].term /\ failed' = failed
    BY <1>10 DEF Refused
  <2>2. a.term \in Nat /\ a.term > op.term /\ ~a.persists
    <3>1. nodes[f] \in Node /\ nodes[f].term \in Nat
      BY <1>0, <1>4, StateIs
    <3>2. Refuses(nodes[f], a)
      BY <1>6, <1>7, <2>1, <3>1, AppendEntriesIs
    <3>. QED  BY <1>2, <1>7, <2>1, <3>1, <3>2 DEF Refuses
  <2>3. ~AppendFails(f, a)
    BY <2>2 DEF AppendFails
  <2>4. op' = [call |-> "observe", id |-> op.id, term |-> a.term]
    BY <1>2, <1>8, <2>1, <2>2, <2>3
  <2>5. SendsTo(f, a)
    BY <1>1, <1>4, <1>5, <1>8, <1>10, <2>4 DEF SendsTo
  <2>. QED  BY <1>4, <2>5
<1>11. CASE \E n : Accepted(f, q, a, n)
  <2>1. PICK n : Accepted(f, q, a, n)
    BY <1>11
  <2>2. /\ a.term = op.term /\ n.log = a.node.log
        /\ a.success <=> Matches(nodes[f].log, op.prev, TermAt(op.log, op.prev))
        /\ a.node.log = IF a.success
                          THEN Merged(nodes[f].log, op.prev, SubSeq(op.log, op.prev + 1, Len(op.log)))
                          ELSE nodes[f].log
    BY <1>7, <2>1, Zenon DEF Accepted, Accepts
  <2>3. a.success => n.log = op.log
    <3>1. nodes[f].log \in Seq(Entry) /\ Matching(nodes[f].log, op.log)
      BY <1>0, <1>2, <1>4, StateIs DEF LogInv
    <3>2. ASSUME a.success PROVE n.log = op.log
      BY <1>2, <2>2, <3>1, <3>2, MergedIsLog
    <3>. QED  BY <3>2
  <2>4. ~a.success => op.prev > 0
    BY <1>0, <1>2, <1>4, <2>2, StateIs DEF Matches
  <2>5. op' = Idle \/ GoesOn(f, a.success)
    <3>1. CASE AppendFails(f, a)
      BY <3>1 DEF AppendFails, PersistFails
    <3>2. CASE ~AppendFails(f, a)
      <4>1. a.success => op' = [[op EXCEPT !.left = @ \ {f}, !.prev = Len(op.log)]
                                  EXCEPT !.matched[f] = Len(op.log)]
        BY <1>2, <1>8, <2>2, <3>2
      <4>2. ~a.success => op' = [op EXCEPT !.prev = @ - 1]
        BY <1>2, <1>8, <2>2, <2>4, <3>2
      <4>. QED  BY <2>4, <4>1, <4>2 DEF GoesOn
    <3>. QED  BY <3>1, <3>2
  <2>6. n.log = IF a.success THEN op.log ELSE nodes[f].log
    BY <2>2, <2>3
  <2>7. Takes(f, a, n)
    BY <1>5, <2>1, <2>5, <2>6 DEF Takes
  <2>8. SendsTo(f, a)
    BY <1>1, <1>4, <1>8, <2>7 DEF SendsTo
  <2>. QED  BY <1>4, <2>8
<1>. QED  BY <1>9, <1>10, <1>11

\* The call's record after a success.
LEMMA GoesOnIs ==
  ASSUME Sends, NEW f \in Nodes \ {op.id}, NEW success \in BOOLEAN, GoesOn(f, success)
  PROVE  /\ op' \in SendOp /\ op'.id = op.id /\ op'.term = op.term /\ op'.log = op.log
         /\ op'.commit = op.commit /\ op'.peers = op.peers
         /\ op'.left = IF success THEN op.left \ {f} ELSE op.left
         /\ op'.prev <= Len(op.log) /\ op'.matched \in [Nodes \ {op.id} -> Nat]
         /\ \A g \in Nodes \ {op.id} :
              op'.matched[g] = IF success /\ g = f THEN Len(op.log) ELSE op.matched[g]
<1>1. /\ op \in SendOp /\ op.prev \in Nat /\ op.prev <= Len(op.log) /\ Len(op.log) \in Nat
      /\ op.matched \in [Nodes \ {op.id} -> Nat] /\ op.left \subseteq Nodes
  BY DEF Sends, SendOp
<1>2. CASE success
  <2>1. PICK left, m : left = op.left \ {f} /\ m = [op.matched EXCEPT ![f] = Len(op.log)]
    BY Zenon
  <2>2. /\ m \in [Nodes \ {op.id} -> Nat] /\ left \in SUBSET Nodes
        /\ \A g \in Nodes \ {op.id} : m[g] = IF g = f THEN Len(op.log) ELSE op.matched[g]
    BY <1>1, <2>1
  <2>3. m \in UNION {[D -> Nat] : D \in SUBSET Nodes}
    BY <2>2
  <2>4. op' = [op EXCEPT !.left = left, !.prev = Len(op.log), !.matched = m]
    BY <1>1, <1>2, <2>1 DEF GoesOn, SendOp
  <2>5. /\ op' \in SendOp /\ op'.id = op.id /\ op'.term = op.term /\ op'.log = op.log
        /\ op'.commit = op.commit /\ op'.peers = op.peers /\ op'.left = left
        /\ op'.prev = Len(op.log) /\ op'.matched = m
    BY <1>1, <2>2, <2>3, <2>4, Zenon DEF SendOp
  <2>. QED  BY <1>1, <1>2, <2>1, <2>2, <2>5
<1>3. CASE ~success
  <2>1. PICK prev : prev = op.prev - 1
    OBVIOUS
  <2>2. prev \in Nat /\ prev <= Len(op.log)
    BY <1>1, <1>3, <2>1 DEF GoesOn
  <2>3. op' = [op EXCEPT !.prev = prev]
    BY <1>1, <1>3, <2>1 DEF GoesOn, SendOp
  <2>4. /\ op' \in SendOp /\ op'.id = op.id /\ op'.term = op.term /\ op'.log = op.log
        /\ op'.commit = op.commit /\ op'.peers = op.peers /\ op'.left = op.left
        /\ op'.prev = prev /\ op'.matched = op.matched
    BY <1>1, <2>2, <2>3 DEF SendOp
  <2>. QED  BY <1>1, <1>3, <2>2, <2>4
<1>. QED  BY <1>2, <1>3

\* SendAppend keeps the invariant: the follower's log becomes the leader's.
LEMMA SendAppendKeeps ==
  ASSUME SetFacts, IInv, SendAppend
  PROVE  IInv'
<1>0. StateInv /\ TypeInv /\ OrderInv /\ TermInv
  BY DEF IInv, StateInv
<1>1. PICK f \in Nodes : \E a : SendsTo(f, a)
  BY SendAppendIs
<1>2. PICK a : SendsTo(f, a)
  BY <1>1
<1>3. Sends /\ f \in op.left /\ f # op.id /\ leaders' = leaders
  BY <1>2 DEF SendsTo
<1>4. /\ op.id \in Nodes /\ op.term \in Nat /\ op.log \in Seq(Entry) /\ op.left \subseteq op.peers
      /\ op.peers \subseteq Nodes \ {op.id}
      /\ op.term = nodes[op.id].term /\ op.log = nodes[op.id].log
      /\ op.commit = nodes[op.id].commit /\ nodes[op.id].role = "leader"
      /\ \A g \in op.peers \ op.left : nodes[g].log = op.log /\ nodes[g].term = op.term
      /\ NextRequest.term = op.term
  BY <1>3, NextRequestIs DEF Sends, SendOp, Leads
<1>5. CASE Refused(f, NextRequest, a) /\ op' = [call |-> "observe", id |-> op.id, term |-> a.term]
  <2>1. /\ nodes' = nodes /\ disk' = disk /\ failed' = failed /\ nodes[f].term \in Nat
        /\ op.term < nodes[f].term /\ a.term = nodes[f].term
    BY <1>0, <1>4, <1>5, StateIs, Zenon DEF Refused
  <2>2. StateInv'
    BY <1>0, <1>3, <2>1, SameState DEF TypeInv
  <2>3. op' \in ObserveOp /\ op'.id = op.id /\ op'.term = nodes[f].term
    BY <1>4, <1>5, <2>1 DEF ObserveOp
  <2>4. Observing'
    BY <1>4, <2>1, <2>3 DEF Observing
  <2>. QED  BY <2>2, <2>4 DEF IInv, OpInv
<1>6. CASE \E n : Takes(f, a, n)
  <2>1. PICK n : Takes(f, a, n)
    BY <1>6
  <2>2. PICK q : q = NextRequest
    OBVIOUS
  <2>3. /\ Accepted(f, q, a, n) /\ n.log = IF a.success THEN op.log ELSE nodes[f].log
        /\ op' = Idle \/ GoesOn(f, a.success)
    BY <2>1, <2>2 DEF Takes
  <2>4. /\ n \in Node /\ n.term = op.term /\ Update(f, n) /\ Evolved(nodes[f], n)
        /\ nodes[f].term <= op.term /\ nodes[f].term \in Nat /\ a.success \in BOOLEAN
    <3>1. /\ n \in Node /\ n.term = op.term /\ Update(f, n) /\ Evolved(nodes[f], n)
          /\ op.term >= nodes[f].term /\ a.success \in BOOLEAN
      BY <1>4, <2>2, <2>3, ZenonT(30) DEF Accepted, Accepts
    <3>. QED  BY <1>0, <1>4, <3>1, StateIs
  <2>5. n.log \in Logs
    BY <1>0, <1>4, <2>3, StateIs
  <2>6. TermsBelow(n.log, n.term)
    <3>1. TermsBelow(op.log, n.term)
      BY <1>0, <1>4, <2>4 DEF TermInv
    <3>2. TermsBelow(nodes[f].log, n.term)
      <4>1. \A k \in 1..Len(nodes[f].log) : /\ nodes[f].log[k].term \in Nat
                                            /\ nodes[f].log[k].term <= nodes[f].term
        BY <1>0, StateIs, LogsAre DEF TermInv, TermsBelow
      <4>. QED  BY <1>4, <2>4, <4>1 DEF TermsBelow
    <3>. QED  BY <2>3, <3>1, <3>2
  <2>7. StateInv'
    BY <1>0, <1>3, <2>3, <2>5, <2>6, AcceptedKeeps
  <2>8. nodes'[f] = n /\ \A j \in Nodes : j # f => nodes'[j] = nodes[j]
    BY <1>0, <2>4, UpdateIs
  <2>9. CASE op' = Idle
    BY <2>7, <2>9 DEF IInv, OpInv
  <2>10. CASE GoesOn(f, a.success)
    <3>1. /\ op' \in SendOp /\ op'.id = op.id /\ op'.term = op.term /\ op'.log = op.log
          /\ op'.commit = op.commit /\ op'.peers = op.peers
          /\ op'.left = IF a.success THEN op.left \ {f} ELSE op.left
          /\ op'.prev <= Len(op.log) /\ op'.matched \in [Nodes \ {op.id} -> Nat]
          /\ \A g \in Nodes \ {op.id} :
               op'.matched[g] = IF a.success /\ g = f THEN Len(op.log) ELSE op.matched[g]
      BY <1>3, <2>4, <2>10, GoesOnIs, ZenonT(30)
    <3>2. nodes'[op.id] = nodes[op.id]
      BY <1>3, <1>4, <2>8
    <3>3. ASSUME NEW g \in op.peers \ op'.left PROVE nodes'[g].log = op.log /\ nodes'[g].term = op.term
      <4>1. CASE g = f
        BY <1>3, <2>3, <2>4, <2>8, <3>1, <3>3, <4>1
      <4>2. CASE g # f
        <5>1. g \in op.peers \ op.left /\ g \in Nodes
          BY <1>4, <3>1, <3>3, <4>2
        <5>. QED  BY <1>4, <2>8, <4>2, <5>1
      <4>. QED  BY <4>1, <4>2
    <3>4. Leads(op.peers \ op.left)'
      BY <1>4, <3>1, <3>2, <3>3 DEF Leads
    <3>5. \A g \in Nodes \ {op.id} : op'.matched[g] > 0 => g \in op.peers \ op'.left
      BY <1>3, <1>4, <3>1 DEF Sends
    <3>6. Sends'
      BY <1>4, <3>1, <3>4, <3>5 DEF Sends
    <3>. QED  BY <2>7, <3>6 DEF IInv, OpInv
  <2>. QED  BY <2>3, <2>9, <2>10
<1>. QED  BY <1>2, <1>5, <1>6 DEF SendsTo

\* The commit index that the leader chooses.
Chooses(n) ==
  /\ n \in Node /\ n.term = nodes[op.id].term /\ n.vote = nodes[op.id].vote
  /\ n.log = nodes[op.id].log /\ n.applied = nodes[op.id].applied /\ n.role = nodes[op.id].role
  /\ \/ n = nodes[op.id]
     \/ n.commit \in Committable(nodes[op.id], op.matched)

\* advance_commit takes the largest index of its term that a majority matches.
LEMMA AdvanceCommitIs ==
  ASSUME SetFacts, IInv, AdvanceCommit
  PROVE  \E n : /\ Sends /\ op.left = {} /\ Chooses(n) /\ nodes' = [nodes EXCEPT ![op.id] = n]
                /\ op' = [call |-> "publish", id |-> op.id, term |-> op.term,
                          log |-> op.log, commit |-> n.commit, left |-> op.peers]
                /\ committed' = committed \o SubSeq(n.log, Len(committed) + 1, n.commit)
                /\ UNCHANGED <<disk, applied, leaders, failed>>
<1>0. TypeInv
  BY DEF IInv, StateInv
<1>1. Sends /\ op.left = {} /\ op.id \in Nodes
  BY WhichCall, Zenon DEF IInv, AdvanceCommit, Sends, SendOp
<1>2. PICK b, C : b = nodes[op.id] /\ C = Committable(nodes[op.id], op.matched)
  OBVIOUS
<1>3. b \in Node /\ b.commit \in Nat /\ Len(b.log) \in Nat
  BY <1>0, <1>1, <1>2, StateIs
<1>4. PICK n : n = advance_commit(nodes[op.id], op.matched)
  OBVIOUS
<1>5. C \subseteq 0..Len(b.log) /\ C \subseteq Nat
  BY <1>2, <1>3 DEF Committable
<1>6. Chooses(n)
  <2>1. CASE n = b
    BY <1>2, <1>3, <2>1 DEF Chooses
  <2>2. CASE n # b
    <3>1. C # {} /\ n = [b EXCEPT !.commit = CHOOSE i \in C : \A j \in C : j <= i]
      BY <1>2, <1>4, <2>2 DEF advance_commit
    <3>2. PICK c : c = CHOOSE i \in C : \A j \in C : j <= i
      OBVIOUS
    <3>3. c \in C /\ c \in Nat
      BY <1>3, <1>5, <3>1, <3>2, GreatestOf, Zenon
    <3>4. n = [b EXCEPT !.commit = c]
      BY <3>1, <3>2
    <3>5. /\ n \in Node /\ n.term = b.term /\ n.vote = b.vote /\ n.log = b.log
          /\ n.applied = b.applied /\ n.role = b.role /\ n.commit = c
      BY <1>3, <3>3, <3>4 DEF Node
    <3>. QED  BY <1>2, <3>3, <3>5 DEF Chooses
  <2>. QED  BY <2>1, <2>2
<1>. QED  BY <1>1, <1>4, <1>6, ZenonT(30) DEF AdvanceCommit

\* AdvanceCommit keeps the invariant.
LEMMA AdvanceCommitKeeps ==
  ASSUME SetFacts, IInv, AdvanceCommit
  PROVE  IInv'
<1>0. StateInv /\ TypeInv
  BY DEF IInv, StateInv
<1>1. PICK n : /\ Sends /\ op.left = {} /\ Chooses(n) /\ nodes' = [nodes EXCEPT ![op.id] = n]
               /\ op' = [call |-> "publish", id |-> op.id, term |-> op.term,
                         log |-> op.log, commit |-> n.commit, left |-> op.peers]
               /\ UNCHANGED <<disk, leaders, failed>>
  BY AdvanceCommitIs, ZenonT(30)
<1>2. /\ op.id \in Nodes /\ op.term \in Nat /\ op.log \in Seq(Entry)
      /\ op.peers \subseteq Nodes \ {op.id}
      /\ op.term = nodes[op.id].term /\ op.log = nodes[op.id].log /\ nodes[op.id].role = "leader"
      /\ \A g \in op.peers : nodes[g].log = op.log /\ nodes[g].term = op.term
  BY <1>1 DEF Sends, SendOp, Leads
<1>3. /\ n \in Node /\ n.term = nodes[op.id].term /\ n.vote = nodes[op.id].vote
      /\ n.log = nodes[op.id].log /\ n.role = nodes[op.id].role
  BY <1>1 DEF Chooses
<1>4. /\ nodes' \in [Nodes -> Node] /\ nodes'[op.id] = n
      /\ \A i \in Nodes : i # op.id => nodes'[i] = nodes[i]
  BY <1>0, <1>1, <1>2, <1>3, ZenonT(30) DEF TypeInv
<1>5. StateInv'
  BY <1>0, <1>1, <1>3, <1>4, SameState
<1>6. /\ op' \in PublishOp /\ op'.id = op.id /\ op'.term = op.term /\ op'.log = op.log
      /\ op'.commit = n.commit /\ op'.left = op.peers
  BY <1>1, <1>2, <1>3, NodeFields DEF PublishOp
<1>7. Leads(op.left)'
  BY <1>2, <1>3, <1>4, <1>6 DEF Leads
<1>8. Publishing'
  BY <1>2, <1>6, <1>7 DEF Publishing
<1>. QED  BY <1>5, <1>8 DEF IInv, OpInv

\* f is told the commit index: its log, which is the leader's, stays.
PublishRequest(f) == Request(Len(nodes[f].log), <<>>, op.commit)

PublishesTo(f, a, n) ==
  /\ Publishing /\ f \in op.left /\ f # op.id /\ nodes[f].log = op.log /\ nodes[f].term = op.term
  /\ Accepted(f, PublishRequest(f), a, n) /\ a.success /\ n.log = op.log
  /\ op' = [op EXCEPT !.left = @ \ {f}] \/ op' = Idle
  /\ UNCHANGED <<leaders, applied, committed>>

\* What publishing the commit index to one follower does.
LEMMA PublishCommitIs ==
  ASSUME SetFacts, IInv, PublishCommit
  PROVE  \E f \in Nodes : \E a, n : PublishesTo(f, a, n)
<1>0. TypeInv /\ LogInv
  BY DEF IInv, StateInv
<1>1. Publishing /\ op.left # {}
  BY WhichCall DEF IInv, PublishCommit
<1>2. /\ op \in PublishOp /\ op.left \subseteq Nodes \ {op.id} /\ op.term \in Nat
      /\ op.log \in Seq(Entry) /\ op.commit \in Nat /\ Leads(op.left)
  BY <1>1 DEF Publishing, PublishOp
<1>3. PICK f : f = First(op.left)
  OBVIOUS
<1>4. f \in op.left /\ f \in Nodes /\ f # op.id
  BY <1>1, <1>2, <1>3, FirstIsIn
<1>5. PICK q : q = PublishRequest(f)
  OBVIOUS
<1>6. PICK a : a = append_entries(nodes[f], q)
  OBVIOUS
<1>7. nodes[f].log = op.log /\ nodes[f].term = op.term /\ Len(op.log) \in Nat
  BY <1>2, <1>4 DEF Leads
<1>8. /\ q \in AppendReq /\ q.term = op.term /\ q.prev = Len(op.log)
      /\ q.prevTerm = TermAt(op.log, Len(op.log)) /\ q.entries = <<>>
  <2>1. TermAt(op.log, Len(op.log)) \in Nat
    <3>1. Len(op.log) # 0 => op.log[Len(op.log)] \in Entry
      BY <1>2, <1>7
    <3>. QED  BY <3>1 DEF TermAt, Entry
  <2>2. <<>> \in Seq(Entry)
    OBVIOUS
  <2>. QED  BY <1>2, <1>5, <1>7, <2>1, <2>2 DEF PublishRequest, Request, AppendReq
<1>9. /\ UNCHANGED <<leaders, applied, committed>>
      /\ \/ Becomes(f, a.node, a.persists) /\ op' = [op EXCEPT !.left = @ \ {f}]
         \/ AppendFails(f, a)
  BY <1>3, <1>5, <1>6 DEF PublishCommit, PublishRequest
<1>10. PICK n : Accepted(f, q, a, n)
  <2>1. ~Refused(f, q, a)
    BY <1>2, <1>7, <1>8 DEF Refused
  <2>. QED  BY <1>0, <1>4, <1>6, <1>8, <1>9, <2>1, AppendStep
<1>11. /\ n.log = a.node.log /\ (a.success <=> Matches(nodes[f].log, q.prev, q.prevTerm))
       /\ a.success => a.node.log = Merged(nodes[f].log, q.prev, q.entries)
  BY <1>10, ZenonT(30) DEF Accepted, Accepts
<1>12. a.success
  BY <1>2, <1>7, <1>8, <1>11 DEF Matches, TermAt
<1>13. n.log = op.log
  <2>1. SubSeq(op.log, 1, Len(op.log)) = op.log
    BY <1>2
  <2>2. op.log \o <<>> = op.log
    BY <1>2
  <2>. QED  BY <1>7, <1>8, <1>11, <1>12, <2>1, <2>2 DEF Merged
<1>14. op' = [op EXCEPT !.left = @ \ {f}] \/ op' = Idle
  BY <1>9 DEF AppendFails, PersistFails
<1>15. PublishesTo(f, a, n)
  BY <1>1, <1>4, <1>5, <1>7, <1>9, <1>10, <1>12, <1>13, <1>14 DEF PublishesTo
<1>. QED  BY <1>4, <1>15

\* PublishCommit keeps the invariant.
LEMMA PublishCommitKeeps ==
  ASSUME SetFacts, IInv, PublishCommit
  PROVE  IInv'
<1>0. StateInv /\ TypeInv /\ OrderInv /\ TermInv
  BY DEF IInv, StateInv
<1>1. PICK f \in Nodes : \E a, n : PublishesTo(f, a, n)
  BY PublishCommitIs
<1>2. PICK a, n : PublishesTo(f, a, n)
  BY <1>1
<1>3. /\ Publishing /\ f \in op.left /\ f # op.id
      /\ nodes[f].log = op.log /\ nodes[f].term = op.term /\ n.log = op.log
      /\ op' = [op EXCEPT !.left = @ \ {f}] \/ op' = Idle
      /\ leaders' = leaders
  BY <1>2 DEF PublishesTo
<1>4. PICK q : q = PublishRequest(f)
  OBVIOUS
<1>5. Accepted(f, q, a, n) /\ q.term = op.term
  BY <1>2, <1>4 DEF PublishesTo, PublishRequest, Request
<1>6. n \in Node /\ n.term = op.term /\ Update(f, n) /\ Evolved(nodes[f], n)
  BY <1>5, Zenon DEF Accepted
<1>7. n.log \in Logs /\ TermsBelow(n.log, n.term)
  BY <1>0, <1>3, <1>6, StateIs DEF TermInv
<1>8. StateInv'
  BY <1>0, <1>3, <1>5, <1>7, AcceptedKeeps
<1>9. nodes'[f] = n /\ \A j \in Nodes : j # f => nodes'[j] = nodes[j]
  BY <1>0, <1>6, UpdateIs
<1>10. CASE op' = [op EXCEPT !.left = @ \ {f}]
  <2>1. op \in PublishOp /\ op.left \subseteq Nodes \ {op.id} /\ op.id \in Nodes /\ Leads(op.left)
    BY <1>3 DEF Publishing, PublishOp
  <2>2. /\ op' \in PublishOp /\ op'.id = op.id /\ op'.term = op.term /\ op'.log = op.log
        /\ op'.commit = op.commit /\ op'.left = op.left \ {f}
    BY <1>10, <2>1 DEF PublishOp
  <2>3. nodes'[op.id] = nodes[op.id] /\ \A g \in op'.left : nodes'[g] = nodes[g] /\ g \in op.left
    BY <1>3, <1>9, <2>1, <2>2
  <2>4. Leads(op.left)'
    BY <2>1, <2>2, <2>3 DEF Leads
  <2>5. Publishing'
    BY <2>1, <2>2, <2>4 DEF Publishing
  <2>. QED  BY <1>8, <2>5 DEF IInv, OpInv
<1>. QED  BY <1>3, <1>8, <1>10 DEF IInv, OpInv

\* apply_all advances applied indexes to commit indexes and nothing else.
LEMMA FinishReplicationIs ==
  ASSUME TypeInv, FinishReplication
  PROVE  /\ nodes' \in [Nodes -> Node] /\ disk' = disk /\ leaders' = leaders /\ failed' = failed
         /\ op' = Idle /\ committed' = committed
         /\ \A i \in Nodes :
              /\ nodes'[i].term = nodes[i].term /\ nodes'[i].vote = nodes[i].vote
              /\ nodes'[i].log = nodes[i].log /\ nodes'[i].role = nodes[i].role
              /\ nodes'[i].commit = nodes[i].commit
              /\ nodes'[i].applied = IF nodes[i].applied < nodes[i].commit
                                       THEN nodes[i].commit ELSE nodes[i].applied
<1>1. /\ nodes' = [i \in Nodes |->
                    [nodes[i] EXCEPT !.applied = IF @ < nodes[i].commit THEN nodes[i].commit ELSE @]]
      /\ disk' = disk /\ leaders' = leaders /\ failed' = failed
      /\ op' = Idle /\ committed' = committed
  BY DEF FinishReplication
<1>2. ASSUME NEW i \in Nodes
      PROVE  /\ nodes'[i] \in Node /\ nodes'[i].term = nodes[i].term
             /\ nodes'[i].vote = nodes[i].vote
             /\ nodes'[i].log = nodes[i].log /\ nodes'[i].role = nodes[i].role
             /\ nodes'[i].commit = nodes[i].commit
             /\ nodes'[i].applied = IF nodes[i].applied < nodes[i].commit
                                      THEN nodes[i].commit ELSE nodes[i].applied
  <2>1. nodes[i] \in Node /\ nodes[i].applied \in Nat /\ nodes[i].commit \in Nat
    BY NodeFields DEF TypeInv
  <2>2. PICK b, m : /\ b = nodes[i]
                    /\ m = IF nodes[i].applied < nodes[i].commit
                             THEN nodes[i].commit ELSE nodes[i].applied
    OBVIOUS
  <2>3. m \in Nat /\ b \in Node
    BY <2>1, <2>2
  <2>4. nodes'[i] = [b EXCEPT !.applied = m]
    BY <1>1, <2>1, <2>2 DEF Node
  <2>5. /\ nodes'[i] \in Node /\ nodes'[i].term = b.term /\ nodes'[i].vote = b.vote
        /\ nodes'[i].log = b.log /\ nodes'[i].role = b.role /\ nodes'[i].commit = b.commit
        /\ nodes'[i].applied = m
    BY <2>3, <2>4 DEF Node
  <2>. QED  BY <2>2, <2>5
<1>3. nodes' \in [Nodes -> Node]
  BY <1>1, <1>2
<1>. QED  BY <1>1, <1>2, <1>3

\* FinishReplication keeps the invariant.
LEMMA FinishReplicationKeeps ==
  ASSUME IInv, FinishReplication
  PROVE  IInv'
<1>1. StateInv /\ TypeInv
  BY DEF IInv, StateInv
<1>2. StateInv' /\ op' = Idle
  BY <1>1, FinishReplicationIs, SameState
<1>. QED  BY <1>2 DEF IInv, OpInv

-----------------------------------------------------------------------------
\* The process.

\* Every node is what its disk says.
LEMMA ReopenedAll ==
  ASSUME TypeInv, nodes' = [i \in Nodes |-> Reopened(disk[i])]
  PROVE  /\ nodes' \in [Nodes -> Node]
         /\ \A i \in Nodes :
              /\ nodes'[i].term = disk[i].term /\ nodes'[i].vote = disk[i].vote
              /\ nodes'[i].log = disk[i].log /\ nodes'[i].role = "follower"
              /\ nodes'[i].commit = 0 /\ nodes'[i].applied = 0
              /\ disk[i] = Persistent(nodes'[i])
<1>1. \A i \in Nodes : disk[i] \in State /\ nodes'[i] = Reopened(disk[i])
  BY DEF TypeInv
<1>2. \A i \in Nodes : nodes'[i] \in Node
  BY <1>1, ReopenedIs
<1>3. nodes' \in [Nodes -> Node]
  BY <1>2
<1>. QED  BY <1>1, <1>3, ReopenedIs

\* A crash keeps the invariant: the disks hold votes and logs that satisfy it.
LEMMA CrashKeeps ==
  ASSUME IInv, Crash
  PROVE  IInv'
<1>0. StateInv /\ TypeInv /\ OrderInv /\ VoteInv /\ LeaderInv /\ LogInv /\ TermInv /\ OwnInv
  BY DEF IInv, StateInv
<1>1. /\ nodes' = [i \in Nodes |-> Reopened(disk[i])] /\ op' = Idle
      /\ disk' = disk /\ leaders' = leaders /\ failed' = failed
  BY DEF Crash
<1>2. /\ nodes' \in [Nodes -> Node]
      /\ \A i \in Nodes :
           /\ nodes'[i].term = disk[i].term /\ nodes'[i].vote = disk[i].vote
           /\ nodes'[i].log = disk[i].log /\ nodes'[i].role = "follower"
           /\ disk[i] = Persistent(nodes'[i])
  BY <1>0, <1>1, ReopenedAll
<1>3. TypeInv'
  BY <1>0, <1>1, <1>2 DEF TypeInv
<1>4. OrderInv'
  <2>1. \A i \in Nodes : Evolved(disk[i], nodes'[i])
    BY <1>2, EvolvedSame
  <2>. QED  BY <1>1, <1>2, <2>1 DEF OrderInv
<1>5. VoteInv'
  BY <1>0, <1>1, <1>2 DEF VoteInv
<1>6. LeaderInv'
  <2>1. \A i \in Nodes : nodes'[i].role # "leader"
    BY <1>2
  <2>2. ElectionSafety'
    BY <1>0, <1>1 DEF LeaderInv, ElectionSafety
  <2>. QED  BY <1>0, <1>1, <2>1, <2>2 DEF LeaderInv, HasVoted
<1>7. Logs' \subseteq Logs
  BY <1>1, <1>2 DEF Logs
<1>8. LogInv'
  BY <1>0, <1>1, <1>7 DEF LogInv, FromLeaders
<1>9. TermInv'
  BY <1>0, <1>1, <1>2 DEF TermInv
<1>10. OwnInv'
  BY <1>2 DEF OwnInv
<1>. QED  BY <1>1, <1>3, <1>4, <1>5, <1>6, <1>8, <1>9, <1>10 DEF IInv, StateInv, OpInv

\* The invariant holds for new nodes.
LEMMA InitKeeps == Init => IInv
<1> SUFFICES ASSUME Init PROVE IInv
  OBVIOUS
<1>1. NoState \in State /\ NoState.log = <<>> /\ NoState.term = 0 /\ NoState.vote = Nobody
  BY DEF NoState, State
<1>2. /\ Reopened(NoState) \in Node /\ Reopened(NoState).term = 0
      /\ Reopened(NoState).vote = Nobody /\ Reopened(NoState).log = <<>>
      /\ Reopened(NoState).role = "follower" /\ Persistent(Reopened(NoState)) = NoState
  BY <1>1, ReopenedIs
<1>3. nodes \in [Nodes -> Node] /\ disk \in [Nodes -> State] /\ leaders = {} /\ failed = FALSE
  BY <1>1, <1>2 DEF Init
<1>4. \A i \in Nodes :
        /\ nodes[i].term = 0 /\ nodes[i].vote = Nobody /\ nodes[i].log = <<>>
        /\ nodes[i].role = "follower" /\ disk[i] = Persistent(nodes[i])
        /\ disk[i].term = 0 /\ disk[i].vote = Nobody /\ disk[i].log = <<>>
  BY <1>1, <1>2 DEF Init
<1>5. TypeInv
  BY <1>3, Zenon DEF TypeInv
<1>6. OrderInv
  BY <1>4 DEF OrderInv, Evolved
<1>7. VoteInv
  BY <1>4, NobodyIsNoNode DEF VoteInv
<1>8. LeaderInv
  BY <1>3, <1>4 DEF LeaderInv, ElectionSafety
<1>9. \A x \in Logs : x = <<>> /\ Len(x) = 0
  BY <1>4 DEF Logs
<1>10. LogInv
  BY <1>9 DEF LogInv, TermsAscend, FromLeaders, Matching
<1>11. TermInv
  <2>1. \A i \in Nodes : Len(nodes[i].log) = 0 /\ Len(disk[i].log) = 0
    BY <1>4
  <2>. QED  BY <2>1 DEF TermInv, TermsBelow
<1>12. OwnInv
  BY <1>4 DEF OwnInv
<1>. QED  BY <1>5, <1>6, <1>7, <1>8, <1>10, <1>11, <1>12 DEF IInv, StateInv, OpInv, Init

\* Every step keeps the invariant.
LEMMA NextKeeps ==
  ASSUME SetFacts, IInv, [Next]_vars
  PROVE  IInv'
<1>1. ASSUME NEW i \in Nodes, NEW peers \in Reachable(i),
             \/ StartElection(i, peers)
             \/ synchronize(i, peers)
             \/ \E c \in Commands : replicate(i, c, peers)
      PROVE  IInv'
  BY <1>1, StartElectionKeeps, SynchronizeKeeps, ReplicateKeeps
<1>2. CASE AskVote
  BY <1>2, AskVoteKeeps
<1>3. CASE ObserveTerm
  BY <1>3, ObserveTermKeeps
<1>4. CASE FinishElection
  BY <1>4, FinishElectionKeeps
<1>5. CASE SendAppend
  BY <1>5, SendAppendKeeps
<1>6. CASE AdvanceCommit
  BY <1>6, AdvanceCommitKeeps
<1>7. CASE PublishCommit
  BY <1>7, PublishCommitKeeps
<1>8. CASE FinishReplication
  BY <1>8, FinishReplicationKeeps
<1>9. CASE Crash
  BY <1>9, CrashKeeps
<1>10. CASE UNCHANGED vars
  <2>1. UNCHANGED <<nodes, disk, leaders, failed, op>>
    BY <1>10 DEF vars
  <2>2. StateInv'
    BY <2>1, SameState DEF IInv, StateInv, TypeInv
  <2>3. OpInv'
    BY <2>1, ZenonT(30) DEF IInv, OpInv, Electing, Voters, Observing, Sends, Publishing, Leads
  <2>. QED  BY <2>2, <2>3 DEF IInv
<1>. QED  BY <1>1, <1>2, <1>3, <1>4, <1>5, <1>6, <1>7, <1>8, <1>9, <1>10 DEF Next

-----------------------------------------------------------------------------
\* Logs that agree up to k have equal parts up to k.
LEMMA SubSeqSame ==
  ASSUME NEW x \in Seq(Entry), NEW y \in Seq(Entry), NEW k \in Nat, k <= Len(x), k <= Len(y),
         \A j \in 1..k : x[j] = y[j]
  PROVE  SubSeq(x, 1, k) = SubSeq(y, 1, k)
<1>1. \A j \in 1..k : x[j] \in Entry /\ y[j] \in Entry
  OBVIOUS
<1>2. /\ SubSeq(x, 1, k) \in Seq(Entry) /\ Len(SubSeq(x, 1, k)) = k
      /\ \A j \in 1..k : SubSeq(x, 1, k)[j] = x[j]
  BY <1>1, PartIs
<1>3. /\ SubSeq(y, 1, k) \in Seq(Entry) /\ Len(SubSeq(y, 1, k)) = k
      /\ \A j \in 1..k : SubSeq(y, 1, k)[j] = y[j]
  BY <1>1, PartIs
<1>. QED  BY <1>2, <1>3, SameLog

\* The invariant gives log matching: LogInv says it of any two logs.
LEMMA LogsMatch ==
  ASSUME IInv
  PROVE  LogMatching
<1>1. TypeInv /\ LogInv
  BY DEF IInv, StateInv
<1>2. ASSUME NEW x \in Logs, NEW y \in Logs, NEW k \in DOMAIN x \intersect DOMAIN y,
             x[k].term = y[k].term
      PROVE  SubSeq(x, 1, k) = SubSeq(y, 1, k)
  <2>1. x \in Seq(Entry) /\ y \in Seq(Entry) /\ Matching(x, y)
    BY <1>1, LogsAre DEF LogInv
  <2>2. k \in 1..Len(x) /\ k \in 1..Len(y) /\ k \in Nat
    BY <2>1
  <2>3. \A j \in 1..k : x[j] = y[j]
    BY <1>2, <2>1, <2>2 DEF Matching
  <2>. QED  BY <2>1, <2>2, <2>3, SubSeqSame
<1>. QED  BY <1>2, Zenon DEF LogMatching, Logs

\* A follower that is sent the commit index has no more entries than were sent.
LEMMA PublishesInRange ==
  ASSUME IInv
  PROVE  PublishInRange
<1>1. ASSUME op.call = "publish", NEW f \in op.left PROVE Len(nodes[f].log) <= Len(op.log)
  <2>1. Publishing
    BY <1>1, WhichCall DEF IInv
  <2>2. nodes[f].log = op.log /\ op.log \in Seq(Entry)
    BY <1>1, <2>1 DEF Publishing, Leads, PublishOp
  <2>. QED  BY <2>2
<1>. QED  BY <1>1 DEF PublishInRange

=============================================================================
