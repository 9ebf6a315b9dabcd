-------------------------- MODULE RaftCommitProofs --------------------------
(***************************************************************************)
(* What the Raft cluster commits, for any set of nodes and commands and    *)
(* any bounds: the nodes apply the same entries in the same order, every   *)
(* later leader has them, and they are on the disks of a majority.  The    *)
(* theorems about the cluster are at the end.                              *)
(***************************************************************************)
EXTENDS RaftProofs

LastTerm(l) == TermAt(l, Len(l))

Prefix(p, l) == Len(p) <= Len(l) /\ \A j \in 1..Len(p) : l[j] = p[j]

\* The log l is at least as new as p, in the order by which request_vote votes.
AtLeast(l, p) ==
  LastTerm(l) > LastTerm(p) \/ (LastTerm(l) = LastTerm(p) /\ Len(l) >= Len(p))

\* The entries P cannot be lost: a quorum holds them, and so does every log that
\* is as new and every leader of their last term or a later one.
Chosen(P) ==
  /\ \E Q \in Quorum : \A v \in Q : Prefix(P, nodes[v].log)
  /\ \A i \in Nodes : AtLeast(nodes[i].log, P) => Prefix(P, nodes[i].log)
  /\ \A i \in Nodes : nodes[i].role = "leader" /\ nodes[i].term >= LastTerm(P)
                        => Prefix(P, nodes[i].log)

\* The commit index of n is within P and within its log, which agree up to it.
Covers(P, n) ==
  /\ LastTerm(P) <= n.term /\ n.commit <= Len(P) /\ n.commit <= Len(n.log)
  /\ \A j \in 1..n.commit : n.log[j] = P[j]

\* Some chosen part of E covers n.
Backed(E, n) == \E P \in Seq(Entry) : Chosen(P) /\ Prefix(P, E) /\ Covers(P, n)

\* a is what the first n.applied entries of E are.
HasApplied(E, n, a) ==
  n.applied <= n.commit /\ a \in Seq(Entry) /\ Len(a) = n.applied /\ Prefix(a, E)

\* E is what has been committed since the logs were last rolled back by a crash
\* after a failed persist(); as long as there was none, E is all there is.
SafeLog(E) ==
  /\ E \in Seq(Entry) /\ Chosen(E)
  /\ \A i \in Nodes : Backed(E, nodes[i]) /\ HasApplied(E, nodes[i], applied[i])
  /\ ~failed => committed = E

CommitInv == committed \in Seq(Entry) /\ \E E : SafeLog(E)

-----------------------------------------------------------------------------
\* Logs.

\* The term of a log's last entry, 0 for an empty log.
LEMMA LastTermIs ==
  ASSUME NEW l \in Seq(Entry)
  PROVE  /\ Len(l) \in Nat /\ LastTerm(l) \in Nat
         /\ Len(l) = 0 => LastTerm(l) = 0
         /\ Len(l) > 0 => LastTerm(l) = l[Len(l)].term /\ LastTerm(l) > 0
<1>1. Len(l) \in Nat /\ (Len(l) > 0 => l[Len(l)] \in Entry)
  OBVIOUS
<1>. QED  BY <1>1 DEF LastTerm, TermAt, Entry

\* last_log_term is the last term of the node's log.
LEMMA LastOfNode ==
  ASSUME NEW n, n.log \in Seq(Entry)
  PROVE  last_log_term(n) = LastTerm(n.log)
<1>1. n.log = <<>> <=> Len(n.log) = 0
  OBVIOUS
<1>. QED  BY <1>1 DEF last_log_term, LastTerm, TermAt

\* A prefix of a prefix is a prefix.
LEMMA PrefixThen ==
  ASSUME NEW a \in Seq(Entry), NEW b \in Seq(Entry), NEW c \in Seq(Entry),
         Prefix(a, b), Prefix(b, c)
  PROVE  Prefix(a, c)
BY DEF Prefix

\* A log is a prefix of itself.
LEMMA PrefixSame ==
  ASSUME NEW a \in Seq(Entry)
  PROVE  Prefix(a, a)
BY DEF Prefix

\* Of two prefixes of a log the shorter is a prefix of the longer.
LEMMA PrefixesNest ==
  ASSUME NEW a \in Seq(Entry), NEW b \in Seq(Entry), NEW l \in Seq(Entry),
         Prefix(a, l), Prefix(b, l), Len(a) <= Len(b)
  PROVE  Prefix(a, b)
<1>1. Len(a) \in Nat /\ Len(b) \in Nat
  OBVIOUS
<1>. QED  BY <1>1 DEF Prefix

\* A log in which terms do not descend is as new as its prefixes.
LEMMA PrefixIsOlder ==
  ASSUME NEW p \in Seq(Entry), NEW l \in Seq(Entry), Prefix(p, l), TermsAscend(l)
  PROVE  AtLeast(l, p)
<1>1. /\ Len(p) \in Nat /\ Len(l) \in Nat /\ Len(p) <= Len(l)
      /\ LastTerm(p) \in Nat /\ LastTerm(l) \in Nat
  BY LastTermIs DEF Prefix
<1>2. CASE Len(p) = 0
  BY <1>1, <1>2 DEF AtLeast, LastTerm, TermAt
<1>3. CASE Len(p) > 0
  <2>1. Len(p) \in 1..Len(p) /\ Len(p) \in 1..Len(l) /\ Len(l) \in 1..Len(l)
    BY <1>1, <1>3
  <2>2. l[Len(p)] = p[Len(p)] /\ l[Len(p)].term <= l[Len(l)].term
    BY <1>1, <2>1 DEF Prefix, TermsAscend
  <2>3. LastTerm(p) <= LastTerm(l)
    BY <1>1, <1>3, <2>2, LastTermIs
  <2>. QED  BY <1>1, <2>3 DEF AtLeast
<1>. QED  BY <1>1, <1>2, <1>3

\* The order of request_vote is transitive.
LEMMA AtLeastThen ==
  ASSUME NEW a \in Seq(Entry), NEW b \in Seq(Entry), NEW c \in Seq(Entry),
         AtLeast(a, b), AtLeast(b, c)
  PROVE  AtLeast(a, c)
<1>1. /\ LastTerm(a) \in Nat /\ LastTerm(b) \in Nat /\ LastTerm(c) \in Nat
      /\ Len(a) \in Nat /\ Len(b) \in Nat /\ Len(c) \in Nat
  BY LastTermIs
<1>. QED  BY <1>1 DEF AtLeast

\* The comparison of logs in request_vote.
LEMMA UpToDateIs ==
  ASSUME NEW r, NEW n, NEW l \in Seq(Entry), n.log \in Seq(Entry),
         r.last_log_index = Len(l), r.last_log_term = LastTerm(l), UpToDate(r, n)
  PROVE  AtLeast(l, n.log)
BY LastOfNode DEF UpToDate, AtLeast

\* The empty log is a prefix of all.
LEMMA EmptyPrefix ==
  /\ <<>> \in Seq(Entry) /\ Len(<<>>) = 0 /\ LastTerm(<<>>) = 0
  /\ \A l \in Seq(Entry) : Prefix(<<>>, l)
<1>1. <<>> \in Seq(Entry) /\ Len(<<>>) = 0
  OBVIOUS
<1>2. \A l \in Seq(Entry) : Len(l) \in Nat
  OBVIOUS
<1>. QED  BY <1>1, <1>2 DEF Prefix, LastTerm, TermAt

\* The empty log is chosen.
LEMMA ChosenEmpty ==
  ASSUME SetFacts, TypeInv
  PROVE  Chosen(<<>>)
<1>1. \A i \in Nodes : Prefix(<<>>, nodes[i].log)
  BY StateIs, EmptyPrefix
<1>2. Nodes \in Quorum
  BY AllNodes
<1>. QED  BY <1>1, <1>2 DEF Chosen

-----------------------------------------------------------------------------
\* What is chosen stays chosen.

\* A quorum holds P, so a log that the votes of a quorum prefer has P.
LEMMA ChosenByVotes ==
  ASSUME SetFacts, StateInv, NEW P \in Seq(Entry), Chosen(P), NEW i \in Nodes, NEW R \in Quorum,
         \A v \in R : AtLeast(nodes[i].log, nodes[v].log)
  PROVE  Prefix(P, nodes[i].log)
<1>0. TypeInv /\ LogInv
  BY DEF StateInv
<1>1. PICK Q \in Quorum : \A v \in Q : Prefix(P, nodes[v].log)
  BY DEF Chosen
<1>2. PICK v \in Nodes : v \in Q /\ v \in R
  BY QuorumsMeet
<1>3. nodes[v].log \in Seq(Entry) /\ nodes[i].log \in Seq(Entry) /\ TermsAscend(nodes[v].log)
  BY <1>0, StateIs DEF LogInv
<1>4. AtLeast(nodes[v].log, P)
  BY <1>1, <1>2, <1>3, PrefixIsOlder
<1>5. AtLeast(nodes[i].log, P)
  BY <1>2, <1>3, <1>4, AtLeastThen
<1>. QED  BY <1>5 DEF Chosen

\* Logs stay, and there is no new leader.
LEMMA SameLogsChosen ==
  ASSUME NEW P, Chosen(P),
         \A i \in Nodes : /\ nodes'[i].log = nodes[i].log
                          /\ nodes'[i].role = "leader" => /\ nodes[i].role = "leader"
                                                          /\ nodes'[i].term = nodes[i].term
  PROVE  Chosen(P)'
<1>1. \A Q \in Quorum : \A v \in Q : v \in Nodes
  BY DEF Quorum
<1>2. \E Q \in Quorum : \A v \in Q : Prefix(P, nodes'[v].log)
  BY <1>1 DEF Chosen
<1>3. \A i \in Nodes : AtLeast(nodes'[i].log, P) => Prefix(P, nodes'[i].log)
  BY DEF Chosen
<1>4. \A i \in Nodes : nodes'[i].role = "leader" /\ nodes'[i].term >= LastTerm(P)
                         => Prefix(P, nodes'[i].log)
  BY DEF Chosen
<1>. QED  BY <1>2, <1>3, <1>4 DEF Chosen

\* Who wins an election has what was chosen: its voters' quorum meets the
\* holders'.
LEMMA ElectedChosen ==
  ASSUME SetFacts, IInv, FinishElection, NEW P \in Seq(Entry), Chosen(P)
  PROVE  Chosen(P)'
<1>0. StateInv /\ TypeInv
  BY DEF IInv, StateInv
<1>1. CASE ~Majority(op.votes)
  <2>1. nodes' = nodes
    BY <1>1 DEF FinishElection
  <2>. QED  BY <2>1, SameLogsChosen
<1>2. CASE Majority(op.votes)
  <2>1. PICK c : c = op.id
    OBVIOUS
  <2>2. /\ Electing /\ c \in Nodes /\ \E R \in Quorum : Voters(R)
        /\ nodes' = [nodes EXCEPT ![c].role = "leader"]
    BY <1>2, <2>1, FinishElectionIs
  <2>3. PICK R \in Quorum : Voters(R)
    BY <2>2
  <2>4. ASSUME NEW v \in R PROVE AtLeast(nodes[c].log, nodes[v].log)
    <3>1. v \in Nodes /\ UpToDate(op.request, nodes[v])
      BY <2>3, <2>4 DEF Voters, Quorum
    <3>2. nodes[c].log \in Seq(Entry) /\ nodes[v].log \in Seq(Entry)
      BY <1>0, <2>2, <3>1, StateIs
    <3>3. /\ op.request.last_log_index = Len(nodes[c].log)
          /\ op.request.last_log_term = LastTerm(nodes[c].log)
      BY <2>1, <2>2, <3>2, LastOfNode DEF Electing
    <3>. QED  BY <3>1, <3>2, <3>3, UpToDateIs
  <2>5. Prefix(P, nodes[c].log)
    BY <1>0, <2>2, <2>4, ChosenByVotes
  <2>6. \A i \in Nodes : /\ nodes'[i].log = nodes[i].log
                         /\ i # c => nodes'[i].role = nodes[i].role /\ nodes'[i].term = nodes[i].term
    BY <1>0, <2>2 DEF TypeInv, Node
  <2>7. \E Q \in Quorum : \A v \in Q : Prefix(P, nodes'[v].log)
    BY <2>6 DEF Chosen, Quorum
  <2>8. \A i \in Nodes : AtLeast(nodes'[i].log, P) => Prefix(P, nodes'[i].log)
    BY <2>6 DEF Chosen
  <2>9. \A i \in Nodes : nodes'[i].role = "leader" /\ nodes'[i].term >= LastTerm(P)
                           => Prefix(P, nodes'[i].log)
    BY <2>5, <2>6 DEF Chosen
  <2>. QED  BY <2>7, <2>8, <2>9 DEF Chosen
<1>. QED  BY <1>1, <1>2

\* A leader's new entry takes nothing from what was chosen.
LEMMA AppendedChosen ==
  ASSUME StateInv, NEW l \in Nodes, NEW e, NEW n, Appended(l, e, n), NEW P \in Seq(Entry), Chosen(P)
  PROVE  Chosen(P)'
<1>0. TypeInv /\ OrderInv
  BY DEF StateInv
<1>1. /\ n \in Node /\ e \in Entry /\ e.term = nodes[l].term /\ nodes[l].role = "leader"
      /\ n.term = nodes[l].term /\ n.log = Append(nodes[l].log, e)
      /\ n.role = "leader" /\ Update(l, n) /\ Evolved(nodes[l], n)
  BY DEF Appended
<1>2. nodes'[l] = n /\ \A j \in Nodes : j # l => nodes'[j] = nodes[j]
  BY <1>0, <1>1, UpdateIs
<1>3. PICK L : L = nodes[l].log
  OBVIOUS
<1>4. L \in Seq(Entry) /\ nodes[l].term \in Nat /\ LastTerm(P) \in Nat
  BY <1>0, <1>3, StateIs, LastTermIs
<1>5. /\ n.log \in Seq(Entry) /\ Len(n.log) = Len(L) + 1 /\ Len(L) \in Nat
      /\ \A j \in 1..Len(L) : n.log[j] = L[j]
      /\ n.log[Len(L) + 1] = e
  BY <1>1, <1>3, <1>4, AppendIs
<1>6. Prefix(L, n.log)
  BY <1>5 DEF Prefix
<1>7. Prefix(P, L) => Prefix(P, n.log)
  BY <1>4, <1>5, <1>6, PrefixThen
<1>8. LastTerm(n.log) = n.term
  BY <1>1, <1>4, <1>5 DEF LastTerm, TermAt
<1>9. n.term >= LastTerm(P) => Prefix(P, n.log)
  BY <1>1, <1>3, <1>7 DEF Chosen
<1>10. AtLeast(n.log, P) => Prefix(P, n.log)
  BY <1>1, <1>4, <1>8, <1>9 DEF AtLeast
<1>11. \E Q \in Quorum : \A v \in Q : Prefix(P, nodes'[v].log)
  <2>1. PICK Q \in Quorum : \A v \in Q : Prefix(P, nodes[v].log)
    BY DEF Chosen
  <2>2. \A v \in Q : v \in Nodes
    BY DEF Quorum
  <2>3. \A v \in Q : Prefix(P, nodes'[v].log)
    BY <1>2, <1>3, <1>7, <2>1, <2>2
  <2>. QED  BY <2>3
<1>12. \A i \in Nodes : AtLeast(nodes'[i].log, P) => Prefix(P, nodes'[i].log)
  BY <1>2, <1>10 DEF Chosen
<1>13. \A i \in Nodes : nodes'[i].role = "leader" /\ nodes'[i].term >= LastTerm(P)
                          => Prefix(P, nodes'[i].log)
  BY <1>2, <1>9 DEF Chosen
<1>. QED  BY <1>11, <1>12, <1>13 DEF Chosen

\* The last term of what a node holds is not above its own.
LEMMA HeldTerm ==
  ASSUME StateInv, NEW i \in Nodes, NEW P \in Seq(Entry), Prefix(P, nodes[i].log)
  PROVE  LastTerm(P) <= nodes[i].term
<1>0. TypeInv /\ TermInv
  BY DEF StateInv
<1>1. nodes[i].term \in Nat /\ Len(nodes[i].log) \in Nat /\ Len(P) \in Nat /\ Len(P) <= Len(nodes[i].log)
  BY <1>0, StateIs DEF Prefix
<1>2. CASE Len(P) = 0
  BY <1>1, <1>2 DEF LastTerm, TermAt
<1>3. CASE Len(P) > 0
  <2>1. Len(P) \in 1..Len(P) /\ Len(P) \in 1..Len(nodes[i].log)
    BY <1>1, <1>3
  <2>2. nodes[i].log[Len(P)] = P[Len(P)] /\ nodes[i].log[Len(P)].term <= nodes[i].term
    BY <1>0, <2>1 DEF Prefix, TermInv, TermsBelow
  <2>. QED  BY <1>3, <2>2, LastTermIs
<1>. QED  BY <1>1, <1>2, <1>3

\* A follower takes the log of the leader l.
LEMMA TakenChosen ==
  ASSUME StateInv, NEW f \in Nodes, NEW l \in Nodes, f # l, NEW n,
         nodes'[f] = n, \A j \in Nodes : j # f => nodes'[j] = nodes[j],
         n.log = nodes[l].log, n.role = "follower",
         nodes[l].role = "leader", nodes[f].term <= nodes[l].term,
         NEW P \in Seq(Entry), Chosen(P)
  PROVE  Chosen(P)'
<1>0. TypeInv
  BY DEF StateInv
<1>1. nodes[f].term \in Nat /\ nodes[l].term \in Nat /\ LastTerm(P) \in Nat
  BY <1>0, StateIs, LastTermIs
<1>2. Prefix(P, nodes[f].log) => Prefix(P, n.log)
  <2>1. ASSUME Prefix(P, nodes[f].log) PROVE Prefix(P, n.log)
    <3>1. LastTerm(P) <= nodes[f].term
      BY <2>1, HeldTerm
    <3>2. nodes[l].term >= LastTerm(P)
      BY <1>1, <3>1
    <3>. QED  BY <3>2 DEF Chosen
  <2>. QED  BY <2>1
<1>3. \E Q \in Quorum : \A v \in Q : Prefix(P, nodes'[v].log)
  <2>1. PICK Q \in Quorum : \A v \in Q : Prefix(P, nodes[v].log)
    BY DEF Chosen
  <2>2. \A v \in Q : v \in Nodes
    BY DEF Quorum
  <2>3. \A v \in Q : Prefix(P, nodes'[v].log)
    BY <1>2, <2>1, <2>2
  <2>. QED  BY <2>3
<1>4. \A i \in Nodes : AtLeast(nodes'[i].log, P) => Prefix(P, nodes'[i].log)
  BY DEF Chosen
<1>5. \A i \in Nodes : nodes'[i].role = "leader" /\ nodes'[i].term >= LastTerm(P)
                         => Prefix(P, nodes'[i].log)
  BY DEF Chosen
<1>. QED  BY <1>3, <1>4, <1>5 DEF Chosen

-----------------------------------------------------------------------------
\* What the leader commits is chosen.

\* The followers that have matched k entries, with the leader, are a quorum;
\* they have the leader's log and its term.
LEMMA MatchedQuorum ==
  ASSUME SetFacts, StateInv, Sends, op.left = {}, NEW k \in Committable(nodes[op.id], op.matched)
  PROVE  \E Q \in Quorum : \A v \in Q : nodes[v].log = op.log /\ nodes[v].term = op.term
<1>1. /\ op.id \in Nodes /\ op.matched \in [Nodes \ {op.id} -> Nat] /\ Leads(op.peers)
      /\ \A f \in Nodes \ {op.id} : op.matched[f] > 0 => f \in op.peers
  BY DEF Sends, SendOp
<1>2. PICK F : F = {f \in DOMAIN op.matched : op.matched[f] >= k}
  BY Zenon
<1>3. k \in Nat /\ k > 0
  <2>1. nodes[op.id].commit \in Nat /\ Len(nodes[op.id].log) \in Nat
    BY <1>1, StateIs DEF StateInv
  <2>. QED  BY <2>1 DEF Committable
<1>4. /\ F \subseteq Nodes \ {op.id} /\ DOMAIN op.matched = Nodes \ {op.id}
      /\ \A f \in F : op.matched[f] > 0
  BY <1>1, <1>2, <1>3
<1>5. F \in SUBSET Nodes /\ Nodes \ {op.id} \in SUBSET Nodes /\ Nodes \in SUBSET Nodes
  BY <1>4
<1>6. /\ Cardinality(F) \in Nat /\ Cardinality(Nodes) \in Nat
      /\ Cardinality(Nodes \ {op.id}) = Cardinality(Nodes) - 1
      /\ Cardinality(F \union {op.id}) = Cardinality(F) + 1
  <2>1. /\ Cardinality(F) \in Nat /\ Cardinality(Nodes) \in Nat
        /\ Cardinality(Nodes \ {op.id}) \in Nat
    BY <1>5, Zenon DEF SetFacts
  <2>2. op.id \in Nodes \ (Nodes \ {op.id}) /\ op.id \in Nodes \ F
    BY <1>1, <1>4
  <2>3. (Nodes \ {op.id}) \union {op.id} = Nodes
    BY <1>1
  <2>4. /\ Cardinality((Nodes \ {op.id}) \union {op.id}) = Cardinality(Nodes \ {op.id}) + 1
        /\ Cardinality(F \union {op.id}) = Cardinality(F) + 1
    BY <1>5, <2>2, Zenon DEF SetFacts
  <2>5. Cardinality(Nodes) = Cardinality(Nodes \ {op.id}) + 1
    BY <2>3, <2>4, Zenon
  <2>6. Cardinality(Nodes \ {op.id}) = Cardinality(Nodes) - 1
    BY <2>1, <2>5
  <2>. QED  BY <2>1, <2>4, <2>6
<1>7. 2 * (1 + Cardinality(F)) > Cardinality(DOMAIN op.matched) + 1
  BY <1>2 DEF Committable
<1>8. 2 * Cardinality(F \union {op.id}) > Cardinality(Nodes)
  BY <1>4, <1>6, <1>7
<1>9. F \union {op.id} \in Quorum
  BY <1>1, <1>4, <1>8 DEF Quorum, Majority
<1>10. \A v \in F \union {op.id} : nodes[v].log = op.log /\ nodes[v].term = op.term
  BY <1>1, <1>4 DEF Leads
<1>. QED  BY <1>9, <1>10

\* No leader has been elected in a later term than a quorum's.
LEMMA NoLaterLeader ==
  ASSUME SetFacts, StateInv, NEW Q \in Quorum, NEW t \in Nat, \A v \in Q : nodes[v].term = t,
         NEW a \in leaders
  PROVE  a[1] \in Nat /\ a[1] <= t
<1>0. TypeInv /\ OrderInv /\ LeaderInv
  BY DEF StateInv
<1>1. a[1] \in Nat
  BY <1>0 DEF TypeInv
<1>2. PICK R \in Quorum : \A v \in R : HasVoted(v, a[1], a[2])
  BY <1>0 DEF LeaderInv
<1>3. PICK v \in Nodes : v \in Q /\ v \in R
  BY QuorumsMeet
<1>4. disk[v].term \in Nat /\ nodes[v].term \in Nat /\ Evolved(disk[v], nodes[v])
  BY <1>0, StateIs DEF OrderInv
<1>5. a[1] <= disk[v].term
  BY <1>1, <1>2, <1>3, <1>4 DEF HasVoted
<1>6. disk[v].term <= nodes[v].term
  BY <1>4 DEF Evolved
<1>. QED  BY <1>1, <1>3, <1>4, <1>5, <1>6

\* What a majority matches, up to an entry of the leader's term, is chosen.
LEMMA CommitsChosen ==
  ASSUME SetFacts, StateInv, Sends, op.left = {}, NEW k \in Committable(nodes[op.id], op.matched),
         NEW P \in Seq(Entry), Len(P) = k, Prefix(P, op.log)
  PROVE  Chosen(P) /\ LastTerm(P) = op.term
<1>0. TypeInv /\ LeaderInv /\ LogInv
  BY DEF StateInv
<1>1. PICK Q \in Quorum : \A v \in Q : nodes[v].log = op.log /\ nodes[v].term = op.term
  BY MatchedQuorum
<1>2. /\ op.id \in Nodes /\ op.term \in Nat /\ op.term = nodes[op.id].term
      /\ op.log = nodes[op.id].log /\ nodes[op.id].role = "leader"
  BY DEF Sends, SendOp, Leads
<1>3. /\ k \in Nat /\ k > 0 /\ k \in 1..Len(op.log) /\ op.log[k].term = op.term
      /\ op.log \in Logs /\ op.log \in Seq(Entry)
  <2>1. /\ nodes[op.id].commit \in Nat /\ Len(nodes[op.id].log) \in Nat
        /\ op.log \in Logs /\ op.log \in Seq(Entry)
    BY <1>0, <1>2, StateIs
  <2>. QED  BY <1>2, <2>1 DEF Committable
<1>4. LastTerm(P) = op.term
  <2>1. op.log[k] = P[k]
    BY <1>3 DEF Prefix
  <2>. QED  BY <1>3, <2>1, LastTermIs
<1>5. \A v \in Q : Prefix(P, nodes[v].log)
  BY <1>1
<1>6. ASSUME NEW i \in Nodes, AtLeast(nodes[i].log, P) PROVE Prefix(P, nodes[i].log)
  <2>1. PICK x : x = nodes[i].log
    OBVIOUS
  <2>2. x \in Logs /\ x \in Seq(Entry) /\ Len(x) \in Nat /\ LastTerm(x) \in Nat
    BY <1>0, <2>1, StateIs, LastTermIs
  <2>3. LastTerm(x) >= op.term /\ (LastTerm(x) = op.term => Len(x) >= k)
    BY <1>2, <1>4, <1>6, <2>1, <2>2 DEF AtLeast
  <2>4. op.term > 0
    <3>1. <<nodes[op.id].term, op.id>> \in leaders
      BY <1>0, <1>2 DEF LeaderInv
    <3>. QED  BY <1>0, <1>2, <3>1 DEF TypeInv
  <2>5. Len(x) > 0 /\ Len(x) \in 1..Len(x) /\ x[Len(x)].term = LastTerm(x)
    BY <1>2, <2>2, <2>3, <2>4, LastTermIs
  <2>6. LastTerm(x) <= op.term
    <3>1. PICK a \in Nodes : <<x[Len(x)].term, a>> \in leaders
      BY <1>0, <2>2, <2>5, Zenon DEF LogInv, FromLeaders
    <3>2. PICK b : b = <<x[Len(x)].term, a>>
      BY Zenon
    <3>3. b \in leaders /\ b[1] = LastTerm(x)
      BY <2>5, <3>1, <3>2
    <3>. QED  BY <1>1, <1>2, <3>3, NoLaterLeader
  <2>7. LastTerm(x) = op.term /\ k <= Len(x)
    BY <1>2, <2>2, <2>3, <2>6
  <2>8. Matching(op.log, x)
    BY <1>0, <1>3, <2>2 DEF LogInv
  <2>9. \A j \in 1..k : op.log[j] = x[j]
    BY <1>3, <2>5, <2>7, <2>8 DEF Matching
  <2>10. Prefix(P, x)
    BY <1>3, <2>7, <2>9 DEF Prefix
  <2>. QED  BY <2>1, <2>10
<1>7. ASSUME NEW i \in Nodes, nodes[i].role = "leader", nodes[i].term >= op.term
      PROVE  Prefix(P, nodes[i].log)
  <2>1. PICK a, b : a = <<nodes[i].term, i>> /\ b = <<op.term, op.id>>
    BY Zenon
  <2>2. a \in leaders /\ b \in leaders /\ a[1] = nodes[i].term /\ b[1] = op.term
    BY <1>0, <1>2, <1>7, <2>1 DEF LeaderInv
  <2>3. nodes[i].term \in Nat /\ nodes[i].term <= op.term
    BY <1>1, <1>2, <2>2, NoLaterLeader
  <2>4. nodes[i].term = op.term
    BY <1>2, <1>7, <2>3
  <2>5. a = b
    BY <1>0, <2>2, <2>4 DEF LeaderInv, ElectionSafety
  <2>6. i = op.id
    BY <2>1, <2>5
  <2>. QED  BY <1>2, <2>6
<1>. QED  BY <1>4, <1>5, <1>6, <1>7 DEF Chosen

-----------------------------------------------------------------------------
\* The steps that commit and apply nothing.

\* A node whose log only grows stays backed.
LEMMA BackedStays ==
  ASSUME NEW E, NEW i, Backed(E, nodes[i]), nodes[i] \in Node, nodes'[i] \in Node,
         nodes'[i].term >= nodes[i].term, nodes'[i].commit = nodes[i].commit,
         Prefix(nodes[i].log, nodes'[i].log),
         \A P \in Seq(Entry) : Chosen(P) => Chosen(P)'
  PROVE  Backed(E, nodes[i])'
<1>1. PICK P \in Seq(Entry) : Chosen(P) /\ Prefix(P, E) /\ Covers(P, nodes[i])
  BY DEF Backed
<1>2. /\ nodes[i].term \in Nat /\ nodes'[i].term \in Nat /\ nodes[i].commit \in Nat
      /\ Len(nodes[i].log) \in Nat /\ Len(nodes'[i].log) \in Nat /\ LastTerm(P) \in Nat
  BY NodeFields, LastTermIs
<1>3. /\ LastTerm(P) <= nodes[i].term /\ nodes[i].commit <= Len(P)
      /\ nodes[i].commit <= Len(nodes[i].log)
      /\ \A j \in 1..nodes[i].commit : nodes[i].log[j] = P[j]
  BY <1>1 DEF Covers
<1>4. Len(nodes[i].log) <= Len(nodes'[i].log)
  BY DEF Prefix
<1>5. \A j \in 1..nodes[i].commit : nodes'[i].log[j] = P[j]
  <2>1. ASSUME NEW j \in 1..nodes[i].commit PROVE nodes'[i].log[j] = P[j]
    <3>1. j \in 1..Len(nodes[i].log)
      BY <1>2, <1>3
    <3>. QED  BY <1>3, <3>1 DEF Prefix
  <2>. QED  BY <2>1
<1>6. LastTerm(P) <= nodes'[i].term /\ nodes[i].commit <= Len(nodes'[i].log)
  BY <1>2, <1>3, <1>4
<1>7. Covers(P, nodes[i])'
  BY <1>3, <1>5, <1>6 DEF Covers
<1>8. Chosen(P)'
  BY <1>1
<1>. QED  BY <1>1, <1>7, <1>8 DEF Backed

\* Commit and applied indexes and what was applied stay.
LEMMA SafeStays ==
  ASSUME NEW E, SafeLog(E), Chosen(E)', \A i \in Nodes : Backed(E, nodes[i])',
         applied' = applied, ~failed' => committed' = E,
         \A i \in Nodes : /\ nodes'[i].applied = nodes[i].applied /\ nodes[i].applied \in Nat
                          /\ nodes[i].commit \in Nat /\ nodes'[i].commit \in Nat
                          /\ nodes'[i].commit >= nodes[i].commit
  PROVE  SafeLog(E)'
<1>1. E \in Seq(Entry)
  BY DEF SafeLog
<1>2. \A i \in Nodes : HasApplied(E, nodes'[i], applied'[i])
  <2>1. ASSUME NEW i \in Nodes PROVE HasApplied(E, nodes'[i], applied'[i])
    <3>1. HasApplied(E, nodes[i], applied[i])
      BY DEF SafeLog
    <3>2. nodes'[i].applied <= nodes'[i].commit
      BY <3>1 DEF HasApplied
    <3>. QED  BY <3>1, <3>2 DEF HasApplied
  <2>. QED  BY <2>1
<1>. QED  BY <1>1, <1>2 DEF SafeLog

\* A step that moves no commit index and shortens no log keeps CommitInv.
LEMMA QuietKeeps ==
  ASSUME TypeInv, CommitInv, nodes' \in [Nodes -> Node],
         \A P \in Seq(Entry) : Chosen(P) => Chosen(P)',
         UNCHANGED <<applied, committed>>, failed' = failed \/ failed' = TRUE,
         \A i \in Nodes : /\ nodes'[i].term >= nodes[i].term
                          /\ nodes'[i].commit = nodes[i].commit
                          /\ nodes'[i].applied = nodes[i].applied
                          /\ Prefix(nodes[i].log, nodes'[i].log)
  PROVE  CommitInv'
<1>1. PICK E : SafeLog(E)
  BY DEF CommitInv
<1>2. E \in Seq(Entry) /\ Chosen(E) /\ \A i \in Nodes : Backed(E, nodes[i])
  BY <1>1 DEF SafeLog
<1>3. failed \in BOOLEAN /\ \A i \in Nodes : nodes[i] \in Node /\ nodes'[i] \in Node
  BY DEF TypeInv
<1>4. \A i \in Nodes : Backed(E, nodes[i])'
  BY <1>2, <1>3, BackedStays, Zenon
<1>5. Chosen(E)'
  BY <1>2
<1>6. \A i \in Nodes : nodes[i].applied \in Nat /\ nodes[i].commit \in Nat
  BY <1>3, NodeFields
<1>7. ~failed' => committed' = E
  BY <1>1, <1>3 DEF SafeLog
<1>8. SafeLog(E)'
  BY <1>1, <1>4, <1>5, <1>6, <1>7, SafeStays
<1>. QED  BY <1>8 DEF CommitInv

\* One node changes its term, its vote or its role.
LEMMA UpdateQuiet ==
  ASSUME StateInv, CommitInv, NEW i \in Nodes, NEW n \in Node, Update(i, n), Evolved(nodes[i], n),
         n.log = nodes[i].log, n.commit = nodes[i].commit, n.applied = nodes[i].applied,
         n.role = "leader" => nodes[i].role = "leader" /\ n.term = nodes[i].term,
         UNCHANGED <<applied, committed>>
  PROVE  CommitInv'
<1>0. TypeInv /\ OrderInv
  BY DEF StateInv
<1>1. /\ nodes' \in [Nodes -> Node] /\ nodes'[i] = n
      /\ \A j \in Nodes : j # i => nodes'[j] = nodes[j]
  BY <1>0, UpdateIs
<1>2. failed' = failed \/ failed' = TRUE
  BY DEF Update
<1>3. n.term >= nodes[i].term /\ \A j \in Nodes : nodes[j].term \in Nat /\ nodes[j].log \in Seq(Entry)
  BY <1>0, StateIs, NodeFields DEF Evolved
<1>4. \A j \in Nodes : /\ nodes'[j].log = nodes[j].log
                       /\ nodes'[j].role = "leader" => /\ nodes[j].role = "leader"
                                                       /\ nodes'[j].term = nodes[j].term
  BY <1>1
<1>5. \A P \in Seq(Entry) : Chosen(P) => Chosen(P)'
  BY <1>4, SameLogsChosen
<1>6. \A j \in Nodes : /\ nodes'[j].term >= nodes[j].term
                       /\ nodes'[j].commit = nodes[j].commit
                       /\ nodes'[j].applied = nodes[j].applied
                       /\ Prefix(nodes[j].log, nodes'[j].log)
  BY <1>1, <1>3, PrefixSame
<1>. QED  BY <1>0, <1>1, <1>2, <1>5, <1>6, QuietKeeps, Zenon

\* StartElection keeps CommitInv.
LEMMA StartElectionCommits ==
  ASSUME StateInv, CommitInv, NEW c \in Nodes, NEW peers, StartElection(c, peers)
  PROVE  CommitInv'
<1>1. PICK n : n = start_election(nodes[c], c)
  OBVIOUS
<1>2. nodes[c] \in Node /\ nodes[c].term \in Nat
  BY StateIs DEF StateInv
<1>3. /\ n \in Node /\ n.term = nodes[c].term + 1 /\ n.log = nodes[c].log
      /\ n.commit = nodes[c].commit /\ n.applied = nodes[c].applied /\ n.role = "candidate"
  BY <1>1, <1>2, StartElectionIs
<1>4. /\ UNCHANGED <<applied, committed>>
      /\ Becomes(c, n, TRUE) \/ PersistFails(c, n)
  BY <1>1, Zenon DEF StartElection
<1>5. Becomes(c, n, TRUE) => Update(c, n)
  BY BecomesIs, Zenon
<1>6. Update(c, n)
  BY <1>4, <1>5, FailsIs, Zenon
<1>7. Evolved(nodes[c], n)
  BY <1>2, <1>3 DEF Evolved
<1>. QED  BY <1>3, <1>4, <1>6, <1>7, UpdateQuiet

\* ObserveTerm keeps CommitInv.
LEMMA ObserveTermCommits ==
  ASSUME IInv, CommitInv, ObserveTerm
  PROVE  CommitInv'
<1>1. op \in ObserveOp /\ op.term > nodes[op.id].term
  BY WhichCall DEF IInv, ObserveTerm, Observing
<1>2. PICK i, t : i = op.id /\ t = op.term
  OBVIOUS
<1>3. PICK n : n = observe_term(nodes[i], t)
  OBVIOUS
<1>4. StateInv /\ i \in Nodes /\ t \in Nat /\ t > nodes[i].term
  BY <1>1, <1>2 DEF ObserveOp, IInv
<1>5. nodes[i] \in Node /\ nodes[i].term \in Nat
  BY <1>4, StateIs DEF StateInv
<1>6. /\ n \in Node /\ n.term = t /\ n.log = nodes[i].log
      /\ n.commit = nodes[i].commit /\ n.applied = nodes[i].applied /\ n.role = "follower"
  BY <1>3, <1>4, <1>5, ObserveTermIs, Zenon
<1>7. /\ UNCHANGED <<applied, committed>>
      /\ Becomes(i, n, TRUE) \/ PersistFails(i, n)
  BY <1>2, <1>3, Zenon DEF ObserveTerm
<1>8. Update(i, n)
  BY <1>7, BecomesIs, FailsIs, Zenon
<1>9. Evolved(nodes[i], n)
  BY <1>4, <1>5, <1>6 DEF Evolved
<1>. QED  BY <1>4, <1>6, <1>7, <1>8, <1>9, UpdateQuiet

\* AskVote keeps CommitInv.
LEMMA AskVoteCommits ==
  ASSUME SetFacts, IInv, CommitInv, AskVote
  PROVE  CommitInv'
<1>1. PICK p \in Nodes : \E a : Asks(p, a)
  BY AskVoteIs
<1>2. PICK a : Asks(p, a)
  BY <1>1
<1>3. PICK n : n = a.node
  OBVIOUS
<1>4. /\ VoteAnswer(nodes[p], op.request, a) /\ Update(p, n) /\ Evolved(nodes[p], n)
      /\ UNCHANGED <<applied, committed>>
  BY <1>2, <1>3 DEF Asks
<1>5. /\ n \in Node /\ n.log = nodes[p].log /\ n.commit = nodes[p].commit
      /\ n.applied = nodes[p].applied
      /\ n.role = "leader" => nodes[p].role = "leader" /\ n.term = nodes[p].term
  BY <1>3, <1>4 DEF VoteAnswer
<1>. QED  BY <1>4, <1>5, UpdateQuiet DEF IInv

\* FinishElection keeps CommitInv.
LEMMA FinishElectionCommits ==
  ASSUME SetFacts, IInv, CommitInv, FinishElection
  PROVE  CommitInv'
<1>0. TypeInv
  BY DEF IInv, StateInv
<1>1. PICK c : c = op.id
  OBVIOUS
<1>2. UNCHANGED <<applied, committed, failed>> /\ nodes' \in {nodes, [nodes EXCEPT ![c].role = "leader"]}
  BY <1>1 DEF FinishElection
<1>3. \A P \in Seq(Entry) : Chosen(P) => Chosen(P)'
  BY ElectedChosen
<1>4. c \in Nodes
  <2>1. Electing
    BY WhichCall DEF IInv, FinishElection
  <2>. QED  BY <1>1, <2>1 DEF Electing, ElectOp
<1>5. /\ nodes' \in [Nodes -> Node]
      /\ \A i \in Nodes : /\ nodes'[i].term = nodes[i].term
                          /\ nodes'[i].commit = nodes[i].commit
                          /\ nodes'[i].applied = nodes[i].applied
                          /\ nodes'[i].log = nodes[i].log
  <2>1. nodes \in [Nodes -> Node] /\ nodes[c] \in Node
    BY <1>0, <1>4 DEF TypeInv
  <2>2. PICK b : b = [nodes[c] EXCEPT !.role = "leader"]
    BY Zenon
  <2>3. /\ b \in Node /\ b.term = nodes[c].term /\ b.commit = nodes[c].commit
        /\ b.applied = nodes[c].applied /\ b.log = nodes[c].log
    BY <2>1, <2>2, Zenon DEF Node
  <2>4. nodes' \in {nodes, [nodes EXCEPT ![c] = b]}
    BY <1>2, <1>4, <2>1, <2>2
  <2>. QED  BY <1>4, <2>1, <2>3, <2>4
<1>6. \A i \in Nodes : nodes[i].term \in Nat /\ nodes[i].log \in Seq(Entry)
  BY <1>0, StateIs
<1>7. \A i \in Nodes : nodes'[i].term >= nodes[i].term /\ Prefix(nodes[i].log, nodes'[i].log)
  BY <1>5, <1>6, PrefixSame
<1>. QED  BY <1>0, <1>2, <1>3, <1>5, <1>7, QuietKeeps

\* A step that changes no node keeps CommitInv.
LEMMA SynchronizeCommits ==
  ASSUME StateInv, CommitInv, nodes' = nodes, UNCHANGED <<applied, committed, failed>>
  PROVE  CommitInv'
<1>1. TypeInv /\ nodes' \in [Nodes -> Node]
  BY DEF StateInv, TypeInv
<1>2. \A P \in Seq(Entry) : Chosen(P) => Chosen(P)'
  BY DEF Chosen
<1>3. \A i \in Nodes : nodes[i].term \in Nat /\ nodes[i].log \in Seq(Entry)
  BY <1>1, StateIs
<1>4. \A i \in Nodes : nodes'[i].term >= nodes[i].term /\ Prefix(nodes[i].log, nodes'[i].log)
  BY <1>3, PrefixSame
<1>. QED  BY <1>1, <1>2, <1>4, QuietKeeps

\* replicate keeps CommitInv.
LEMMA ReplicateCommits ==
  ASSUME IInv, CommitInv, NEW l \in Nodes, NEW command \in Commands, NEW peers \in Reachable(l),
         replicate(l, command, peers)
  PROVE  CommitInv'
<1>0. StateInv /\ TypeInv /\ OrderInv
  BY DEF IInv, StateInv
<1>1. PICK e, n : Appended(l, e, n)
  BY ReplicateIs
<1>2. /\ n \in Node /\ e \in Entry /\ n.term = nodes[l].term
      /\ n.log = Append(nodes[l].log, e) /\ n.commit = nodes[l].commit
      /\ n.applied = nodes[l].applied /\ Update(l, n) /\ Evolved(nodes[l], n)
      /\ UNCHANGED <<applied, committed>>
  BY <1>1 DEF Appended
<1>3. /\ nodes' \in [Nodes -> Node] /\ nodes'[l] = n
      /\ \A j \in Nodes : j # l => nodes'[j] = nodes[j]
  BY <1>0, <1>2, UpdateIs
<1>4. failed' = failed \/ failed' = TRUE
  BY <1>2 DEF Update
<1>5. \A P \in Seq(Entry) : Chosen(P) => Chosen(P)'
  BY <1>0, <1>1, AppendedChosen
<1>6. \A i \in Nodes : nodes[i].term \in Nat /\ nodes[i].log \in Seq(Entry)
  BY <1>0, StateIs
<1>7. Prefix(nodes[l].log, n.log)
  <2>1. PICK L : L = nodes[l].log
    OBVIOUS
  <2>2. L \in Seq(Entry) /\ n.log = Append(L, e)
    BY <1>2, <1>6, <2>1
  <2>3. /\ Len(n.log) = Len(L) + 1 /\ Len(L) \in Nat
        /\ \A j \in 1..Len(L) : n.log[j] = L[j]
    BY <1>2, <2>2, AppendIs
  <2>4. Prefix(L, n.log)
    BY <2>3 DEF Prefix
  <2>. QED  BY <2>1, <2>4
<1>8. \A i \in Nodes : /\ nodes'[i].term >= nodes[i].term
                       /\ nodes'[i].commit = nodes[i].commit
                       /\ nodes'[i].applied = nodes[i].applied
                       /\ Prefix(nodes[i].log, nodes'[i].log)
  <2>1. n.term \in Nat /\ n.term >= nodes[l].term
    BY <1>2, <1>6
  <2>2. \A i \in Nodes : Prefix(nodes[i].log, nodes[i].log) /\ nodes[i].term >= nodes[i].term
    BY <1>6, PrefixSame
  <2>. QED  BY <1>2, <1>3, <1>7, <2>1, <2>2, Zenon
<1>. QED  BY <1>0, <1>2, <1>3, <1>4, <1>5, <1>8, QuietKeeps, Zenon

-----------------------------------------------------------------------------
\* The steps that commit and apply.

\* f has the log and the term of the leader l, and its commit index or its own.
LEMMA BackedByLeader ==
  ASSUME StateInv, NEW E, NEW f \in Nodes, NEW l \in Nodes, NEW n \in Node, nodes'[f] = n,
         Backed(E, nodes[f]), Backed(E, nodes[l]), nodes[l].role = "leader",
         n.log = nodes[l].log, n.term = nodes[l].term, nodes[f].term <= nodes[l].term,
         n.commit \in {nodes[f].commit, nodes[l].commit},
         \A P \in Seq(Entry) : Chosen(P) => Chosen(P)'
  PROVE  Backed(E, nodes[f])'
<1>0. TypeInv
  BY DEF StateInv
<1>1. /\ nodes[f].term \in Nat /\ nodes[l].term \in Nat /\ nodes[f].commit \in Nat
      /\ nodes[l].log \in Seq(Entry) /\ Len(nodes[l].log) \in Nat
  BY <1>0, StateIs
<1>2. CASE n.commit = nodes[l].commit
  <2>1. PICK P \in Seq(Entry) : Chosen(P) /\ Prefix(P, E) /\ Covers(P, nodes[l])
    BY DEF Backed
  <2>2. Covers(P, n)
    BY <1>2, <2>1 DEF Covers
  <2>3. Covers(P, nodes[f])' /\ Chosen(P)'
    BY <2>1, <2>2 DEF Covers
  <2>. QED  BY <2>1, <2>3 DEF Backed
<1>3. CASE n.commit = nodes[f].commit
  <2>1. PICK P \in Seq(Entry) : Chosen(P) /\ Prefix(P, E) /\ Covers(P, nodes[f])
    BY DEF Backed
  <2>2. /\ LastTerm(P) <= nodes[f].term /\ nodes[f].commit <= Len(P) /\ LastTerm(P) \in Nat
        /\ Len(P) \in Nat
    BY <2>1, LastTermIs DEF Covers
  <2>3. LastTerm(P) <= nodes[l].term
    BY <1>1, <2>2
  <2>4. Prefix(P, nodes[l].log)
    BY <2>1, <2>3 DEF Chosen
  <2>5. Len(P) <= Len(n.log) /\ \A j \in 1..Len(P) : n.log[j] = P[j]
    BY <2>4 DEF Prefix
  <2>6. n.commit <= Len(n.log) /\ \A j \in 1..n.commit : n.log[j] = P[j]
    BY <1>1, <1>3, <2>2, <2>5
  <2>7. Covers(P, n)
    BY <1>3, <2>2, <2>3, <2>6 DEF Covers
  <2>8. Covers(P, nodes[f])' /\ Chosen(P)'
    BY <2>1, <2>7 DEF Covers
  <2>. QED  BY <2>1, <2>8 DEF Backed
<1>. QED  BY <1>2, <1>3

\* A follower that has the leader's log after a request has a commit index that
\* is its own or the leader's.
LEMMA AcceptedCommit ==
  ASSUME NEW f, NEW q, NEW a, NEW n, Accepted(f, q, a, n),
         nodes[f].commit \in Nat, q.commit \in Nat, q.commit <= Len(n.log), n.log \in Seq(Entry)
  PROVE  /\ n.commit \in {nodes[f].commit, q.commit} /\ n.commit >= nodes[f].commit
         /\ ~a.success => n.commit = nodes[f].commit
<1>1. /\ n.log = a.node.log /\ n.commit \in {a.node.commit, nodes[f].commit}
      /\ a.node.commit = IF a.success /\ q.commit > nodes[f].commit
                           THEN IF q.commit < Len(a.node.log) THEN q.commit ELSE Len(a.node.log)
                           ELSE nodes[f].commit
  BY DEF Accepted, Accepts
<1>2. Len(n.log) \in Nat
  OBVIOUS
<1>3. a.node.commit \in {nodes[f].commit, q.commit} /\ a.node.commit >= nodes[f].commit
  BY <1>1, <1>2
<1>. QED  BY <1>1, <1>3

\* The follower f changes as in BackedByLeader.
LEMMA FollowerKeeps ==
  ASSUME StateInv, CommitInv, NEW f \in Nodes, NEW l \in Nodes, f # l, NEW n \in Node,
         Update(f, n), Evolved(nodes[f], n), nodes[l].role = "leader", n.role = "follower",
         n.log = nodes[l].log, n.term = nodes[l].term, n.applied = nodes[f].applied,
         n.commit \in {nodes[f].commit, nodes[l].commit}, n.commit >= nodes[f].commit,
         UNCHANGED <<applied, committed>>
  PROVE  CommitInv'
<1>0. TypeInv /\ OrderInv
  BY DEF StateInv
<1>1. /\ nodes' \in [Nodes -> Node] /\ nodes'[f] = n
      /\ \A j \in Nodes : j # f => nodes'[j] = nodes[j]
  BY <1>0, UpdateIs
<1>2. failed \in BOOLEAN /\ (failed' = failed \/ failed' = TRUE)
  BY <1>0 DEF Update, TypeInv
<1>3. nodes[f].term <= nodes[l].term
  BY <1>0, StateIs DEF Evolved
<1>4. \A P \in Seq(Entry) : Chosen(P) => Chosen(P)'
  BY <1>1, <1>3, TakenChosen
<1>5. PICK E : SafeLog(E)
  BY DEF CommitInv
<1>6. E \in Seq(Entry) /\ Chosen(E)' /\ \A i \in Nodes : Backed(E, nodes[i])
  BY <1>4, <1>5 DEF SafeLog
<1>7. Backed(E, nodes[f])'
  BY <1>1, <1>3, <1>4, <1>6, BackedByLeader
<1>8. ASSUME NEW i \in Nodes PROVE /\ nodes[i].applied \in Nat /\ nodes[i].commit \in Nat
                                   /\ nodes[i] \in Node /\ nodes'[i] \in Node
                                   /\ nodes'[i].commit \in Nat
                                   /\ nodes[i].term \in Nat /\ nodes[i].log \in Seq(Entry)
  BY <1>0, <1>1, NodeFields DEF TypeInv
<1>9. ASSUME NEW i \in Nodes, i # f PROVE Backed(E, nodes[i])'
  <2>1. nodes'[i] = nodes[i] /\ nodes[i].term >= nodes[i].term /\ Prefix(nodes[i].log, nodes[i].log)
    BY <1>1, <1>8, <1>9, PrefixSame
  <2>. QED  BY <1>4, <1>6, <1>8, <2>1, BackedStays, ZenonT(30)
<1>10. \A i \in Nodes : Backed(E, nodes[i])'
  BY <1>7, <1>9
<1>11. \A i \in Nodes : nodes'[i].applied = nodes[i].applied /\ nodes'[i].commit >= nodes[i].commit
  BY <1>1, <1>8
<1>12. ~failed' => committed' = E
  BY <1>2, <1>5 DEF SafeLog
<1>13. SafeLog(E)'
  BY <1>5, <1>6, <1>8, <1>10, <1>11, <1>12, SafeStays
<1>. QED  BY <1>13 DEF CommitInv

\* A commit index is within the log.
LEMMA CommitInLog ==
  ASSUME CommitInv, NEW i \in Nodes
  PROVE  nodes[i].commit <= Len(nodes[i].log)
BY DEF CommitInv, SafeLog, Backed, Covers

\* SendAppend keeps CommitInv: what a follower drops was not committed.
LEMMA SendAppendCommits ==
  ASSUME SetFacts, IInv, CommitInv, SendAppend
  PROVE  CommitInv'
<1>0. StateInv /\ TypeInv
  BY DEF IInv, StateInv
<1>1. PICK f \in Nodes : \E a : SendsTo(f, a)
  BY SendAppendIs
<1>2. PICK a : SendsTo(f, a)
  BY <1>1
<1>3. Sends /\ f # op.id /\ UNCHANGED <<applied, committed>>
  BY <1>2 DEF SendsTo
<1>4. PICK l, q : l = op.id /\ q = NextRequest
  OBVIOUS
<1>5. /\ l \in Nodes /\ f # l /\ nodes[l].role = "leader" /\ op.log = nodes[l].log
      /\ q.term = nodes[l].term /\ q.commit = nodes[l].commit
  BY <1>3, <1>4, NextRequestIs DEF Sends, SendOp, Leads
<1>6. /\ nodes[l].commit \in Nat /\ nodes[f].commit \in Nat /\ nodes[l].log \in Seq(Entry)
      /\ nodes[l].commit <= Len(nodes[l].log)
  BY <1>0, <1>5, StateIs, CommitInLog
<1>7. CASE Refused(f, NextRequest, a)
  <2>1. nodes' = nodes /\ failed' = failed
    BY <1>7 DEF Refused
  <2>. QED  BY <1>0, <1>3, <2>1, SynchronizeCommits
<1>8. CASE \E n : Takes(f, a, n)
  <2>1. PICK n : Takes(f, a, n)
    BY <1>8
  <2>2. /\ Accepted(f, q, a, n)
        /\ a.success => n.log = nodes[l].log
        /\ ~a.success => n.log = nodes[f].log
    BY <1>4, <1>5, <2>1 DEF Takes
  <2>3. /\ n \in Node /\ n.term = nodes[l].term /\ n.role = "follower"
        /\ n.applied = nodes[f].applied /\ Update(f, n) /\ Evolved(nodes[f], n)
        /\ n.commit \in {a.node.commit, nodes[f].commit}
        /\ ~a.success => a.node.commit = nodes[f].commit
    BY <1>5, <2>2 DEF Accepted, Accepts
  <2>4. CASE a.success
    <3>1. n.log = nodes[l].log
      BY <2>2, <2>4
    <3>2. n.commit \in {nodes[f].commit, nodes[l].commit} /\ n.commit >= nodes[f].commit
      BY <1>5, <1>6, <2>2, <3>1, AcceptedCommit
    <3>. QED  BY <1>0, <1>3, <1>5, <2>3, <3>1, <3>2, FollowerKeeps
  <2>5. CASE ~a.success
    <3>1. n.log = nodes[f].log /\ n.commit = nodes[f].commit
      BY <2>2, <2>3, <2>5
    <3>. QED  BY <1>0, <1>3, <2>3, <3>1, UpdateQuiet
  <2>. QED  BY <2>4, <2>5
<1>. QED  BY <1>2, <1>7, <1>8 DEF SendsTo

\* PublishCommit keeps CommitInv: a follower commits no more than its leader.
LEMMA PublishCommitCommits ==
  ASSUME SetFacts, IInv, CommitInv, PublishCommit
  PROVE  CommitInv'
<1>0. StateInv /\ TypeInv
  BY DEF IInv, StateInv
<1>1. PICK f \in Nodes : \E a, n : PublishesTo(f, a, n)
  BY PublishCommitIs
<1>2. PICK a, n : PublishesTo(f, a, n)
  BY <1>1
<1>3. PICK l, q : l = op.id /\ q = PublishRequest(f)
  OBVIOUS
<1>4. /\ Publishing /\ f # l /\ n.log = op.log /\ Accepted(f, q, a, n)
      /\ UNCHANGED <<applied, committed>>
  BY <1>2, <1>3 DEF PublishesTo
<1>5. /\ l \in Nodes /\ nodes[l].role = "leader" /\ n.log = nodes[l].log
      /\ op.term = nodes[l].term /\ op.commit = nodes[l].commit
  BY <1>3, <1>4 DEF Publishing, PublishOp, Leads
<1>6. q.term = nodes[l].term /\ q.commit = nodes[l].commit
  BY <1>3, <1>5 DEF PublishRequest, Request
<1>7. /\ nodes[l].commit \in Nat /\ nodes[f].commit \in Nat /\ nodes[l].log \in Seq(Entry)
      /\ nodes[l].commit <= Len(nodes[l].log)
  BY <1>0, <1>5, StateIs, CommitInLog
<1>8. n.commit \in {nodes[f].commit, nodes[l].commit} /\ n.commit >= nodes[f].commit
  BY <1>4, <1>5, <1>6, <1>7, AcceptedCommit
<1>9. /\ n \in Node /\ n.term = nodes[l].term /\ n.role = "follower"
      /\ n.applied = nodes[f].applied /\ Update(f, n) /\ Evolved(nodes[f], n)
  BY <1>4, <1>6 DEF Accepted
<1>. QED  BY <1>0, <1>4, <1>5, <1>8, <1>9, FollowerKeeps

\* The first k entries of a log.
LEMMA FirstEntries ==
  ASSUME NEW L \in Seq(Entry), NEW k \in Nat, k <= Len(L)
  PROVE  /\ SubSeq(L, 1, k) \in Seq(Entry) /\ Len(SubSeq(L, 1, k)) = k
         /\ \A j \in 1..k : SubSeq(L, 1, k)[j] = L[j]
         /\ Prefix(SubSeq(L, 1, k), L)
<1>1. \A j \in 1..k : L[j] \in Entry
  OBVIOUS
<1>2. /\ SubSeq(L, 1, k) \in Seq(Entry) /\ Len(SubSeq(L, 1, k)) = k
      /\ \A j \in 1..k : SubSeq(L, 1, k)[j] = L[j]
  BY <1>1, PartIs
<1>. QED  BY <1>2 DEF Prefix

\* X is E and what follows its length in L, up to the index k.
Extension(X, E, L, k) ==
  /\ X \in Seq(Entry)
  /\ Len(E) >= k => X = E
  /\ Len(E) < k => /\ Len(X) = k /\ \A j \in 1..Len(E) : X[j] = E[j]
                   /\ \A j \in (Len(E) + 1)..k : X[j] = L[j]

\* A log continued by another up to k.
LEMMA ExtendTo ==
  ASSUME NEW E \in Seq(Entry), NEW L \in Seq(Entry), NEW k \in Nat, k <= Len(L)
  PROVE  Extension(E \o SubSeq(L, Len(E) + 1, k), E, L, k)
<1>1. PICK m, S : m = Len(E) /\ S = SubSeq(L, m + 1, k)
  BY Zenon
<1>2. m \in Nat /\ Len(L) \in Nat /\ \A j \in (m + 1)..k : L[j] \in Entry
  BY <1>1
<1>3. /\ S \in Seq(Entry) /\ Len(S) = IF m + 1 <= k THEN k - (m + 1) + 1 ELSE 0
      /\ \A i \in 1..(k - (m + 1) + 1) : S[i] = L[(m + 1) + i - 1]
  BY <1>1, <1>2, PartIs
<1>4. PICK X : X = E \o S
  BY Zenon
<1>5. /\ X \in Seq(Entry) /\ Len(X) = m + Len(S)
      /\ \A i \in 1..(m + Len(S)) : X[i] = IF i <= m THEN E[i] ELSE S[i - m]
  BY <1>1, <1>3, <1>4, JoinIs
<1>6. CASE m >= k
  <2>1. Len(S) = 0
    BY <1>2, <1>3, <1>6
  <2>2. \A i \in 1..Len(E) : X[i] = E[i]
    BY <1>1, <1>2, <1>5, <2>1
  <2>3. X = E
    BY <1>1, <1>2, <1>5, <2>1, <2>2, SameLog
  <2>. QED  BY <1>1, <1>2, <1>4, <1>5, <1>6, <2>3 DEF Extension
<1>7. CASE m < k
  <2>1. Len(S) = k - m /\ Len(X) = k
    BY <1>2, <1>3, <1>5, <1>7
  <2>2. \A j \in 1..m : X[j] = E[j]
    BY <1>2, <1>5, <1>7, <2>1
  <2>3. ASSUME NEW j \in (m + 1)..k PROVE X[j] = L[j]
    <3>1. j \in 1..(m + Len(S)) /\ ~(j <= m) /\ j - m \in 1..(k - (m + 1) + 1)
      BY <1>2, <1>7, <2>1
    <3>2. X[j] = S[j - m] /\ S[j - m] = L[(m + 1) + (j - m) - 1] /\ (m + 1) + (j - m) - 1 = j
      BY <1>2, <1>3, <1>5, <3>1
    <3>. QED  BY <3>2
  <2>. QED  BY <1>1, <1>2, <1>4, <1>5, <1>7, <2>1, <2>2, <2>3 DEF Extension
<1>. QED  BY <1>2, <1>6, <1>7

\* The commit index stays.
LEMMA NothingCommitted ==
  ASSUME StateInv, CommitInv, NEW i \in Nodes, nodes' = nodes, applied' = applied, failed' = failed,
         committed' = committed \o SubSeq(nodes[i].log, Len(committed) + 1, nodes[i].commit)
  PROVE  CommitInv'
<1>0. TypeInv
  BY DEF StateInv
<1>1. /\ committed \in Seq(Entry) /\ nodes[i].log \in Seq(Entry) /\ nodes[i].commit \in Nat
      /\ nodes[i].commit <= Len(nodes[i].log)
  BY <1>0, StateIs, CommitInLog DEF CommitInv
<1>2. committed' \in Seq(Entry) /\ (Len(committed) >= nodes[i].commit => committed' = committed)
  BY <1>1, ExtendTo DEF Extension
<1>3. PICK E : SafeLog(E)
  BY DEF CommitInv
<1>4. ~failed' => committed' = E
  <2>1. Backed(E, nodes[i]) /\ E \in Seq(Entry)
    BY <1>3 DEF SafeLog
  <2>2. PICK P \in Seq(Entry) : Prefix(P, E) /\ Covers(P, nodes[i])
    BY <2>1 DEF Backed
  <2>3. nodes[i].commit <= Len(E)
    <3>1. Len(P) \in Nat /\ Len(E) \in Nat
      BY <2>1
    <3>. QED  BY <1>1, <2>2, <3>1 DEF Prefix, Covers
  <2>. QED  BY <1>2, <1>3, <2>3 DEF SafeLog
<1>5. SafeLog(E)'
  BY <1>3, <1>4, Zenon DEF SafeLog, Chosen, Backed
<1>. QED  BY <1>2, <1>5 DEF CommitInv

\* What is committed is on a quorum that has the leader's log.
LEMMA CommittedInLog ==
  ASSUME SetFacts, StateInv, Sends, op.left = {}, NEW k \in Committable(nodes[op.id], op.matched),
         NEW E, Chosen(E)
  PROVE  Prefix(E, op.log)
<1>1. PICK Q \in Quorum : \A v \in Q : nodes[v].log = op.log
  BY MatchedQuorum
<1>2. PICK R \in Quorum : \A v \in R : Prefix(E, nodes[v].log)
  BY DEF Chosen
<1>3. PICK v \in Nodes : v \in Q /\ v \in R
  BY QuorumsMeet
<1>. QED  BY <1>1, <1>2, <1>3

\* The longer of E, which was committed, and the first k entries of the log.
LEMMA LongerIs ==
  ASSUME NEW E \in Seq(Entry), NEW L \in Seq(Entry), NEW k \in Nat, k <= Len(L), Prefix(E, L),
         NEW P \in Seq(Entry), Len(P) = k, Prefix(P, L), NEW Y, Extension(Y, E, L, k)
  PROVE  Y \in {E, P} /\ Prefix(E, Y) /\ Prefix(P, Y)
<1>1. \A j \in 1..k : P[j] = L[j]
  BY DEF Prefix
<1>2. Len(E) \in Nat /\ Len(L) \in Nat /\ Len(E) <= Len(L) /\ \A j \in 1..Len(E) : L[j] = E[j]
  BY DEF Prefix
<1>3. /\ Y \in Seq(Entry) /\ (Len(E) >= k => Y = E)
      /\ Len(E) < k => /\ Len(Y) = k /\ \A j \in 1..Len(E) : Y[j] = E[j]
                       /\ \A j \in (Len(E) + 1)..k : Y[j] = L[j]
  BY DEF Extension
<1>4. CASE Len(E) < k
  <2>1. Len(E) <= Len(P)
    BY <1>1, <1>2, <1>4
  <2>2. Prefix(P, P) /\ Prefix(E, P)
    BY <1>1, <2>1, PrefixSame, PrefixesNest
  <2>3. ASSUME NEW j \in 1..k PROVE Y[j] = P[j]
    <3>1. CASE j <= Len(E)
      <4>1. j \in 1..Len(E)
        BY <1>2, <3>1
      <4>. QED  BY <1>1, <1>2, <1>3, <1>4, <4>1
    <3>2. CASE j > Len(E)
      <4>1. j \in (Len(E) + 1)..k
        BY <1>2, <3>2
      <4>. QED  BY <1>1, <1>3, <1>4, <4>1
    <3>. QED  BY <1>2, <3>1, <3>2
  <2>4. Y = P
    BY <1>1, <1>3, <1>4, <2>3, SameLog
  <2>. QED  BY <2>2, <2>4
<1>5. CASE Len(E) >= k
  <2>1. Prefix(E, E) /\ Prefix(P, E)
    BY <1>1, <1>2, <1>5, PrefixSame, PrefixesNest
  <2>. QED  BY <1>3, <1>5, <2>1
<1>. QED  BY <1>2, <1>4, <1>5

\* AdvanceCommit keeps CommitInv: the newly committed entries are chosen.
LEMMA AdvanceCommitCommits ==
  ASSUME SetFacts, IInv, CommitInv, AdvanceCommit
  PROVE  CommitInv'
<1>0. StateInv /\ TypeInv
  BY DEF IInv, StateInv
<1>1. PICK n : /\ Sends /\ op.left = {} /\ Chooses(n) /\ nodes' = [nodes EXCEPT ![op.id] = n]
               /\ committed' = committed \o SubSeq(n.log, Len(committed) + 1, n.commit)
               /\ UNCHANGED <<applied, failed>>
  BY AdvanceCommitIs, ZenonT(30)
<1>2. PICK l : l = op.id
  OBVIOUS
<1>3. /\ l \in Nodes /\ op.log = nodes[l].log /\ op.term = nodes[l].term
      /\ n \in Node /\ n.term = nodes[l].term /\ n.log = nodes[l].log
      /\ n.applied = nodes[l].applied /\ n.role = nodes[l].role
      /\ n = nodes[l] \/ n.commit \in Committable(nodes[l], op.matched)
  BY <1>1, <1>2 DEF Sends, SendOp, Leads, Chooses
<1>4. /\ nodes' \in [Nodes -> Node] /\ nodes'[l] = n
      /\ \A j \in Nodes : j # l => nodes'[j] = nodes[j]
  BY <1>0, <1>1, <1>2, <1>3 DEF TypeInv
<1>5. CASE n = nodes[l]
  <2>1. nodes' = nodes
    BY <1>0, <1>1, <1>2, <1>3, <1>5 DEF TypeInv
  <2>2. committed' = committed \o SubSeq(nodes[l].log, Len(committed) + 1, nodes[l].commit)
    BY <1>1, <1>5
  <2>. QED  BY <1>0, <1>1, <1>3, <2>1, <2>2, NothingCommitted, Zenon
<1>6. CASE n.commit \in Committable(nodes[l], op.matched)
  <2>1. PICK k, L, P : k = n.commit /\ L = op.log /\ P = SubSeq(op.log, 1, n.commit)
    BY ZenonT(30)
  <2>2. /\ L \in Seq(Entry) /\ k \in Nat /\ k <= Len(L) /\ nodes[l].commit \in Nat
        /\ k >= nodes[l].commit /\ k \in Committable(nodes[op.id], op.matched)
    <3>1. L \in Seq(Entry) /\ Len(L) \in Nat /\ nodes[l].commit \in Nat /\ n.commit \in Nat
      BY <1>0, <1>3, <2>1, StateIs, NodeFields
    <3>. QED  BY <1>2, <1>3, <1>6, <2>1, <3>1 DEF Committable
  <2>3. P \in Seq(Entry) /\ Len(P) = k /\ Prefix(P, L) /\ \A j \in 1..k : P[j] = L[j]
    BY <2>1, <2>2, FirstEntries
  <2>4. Chosen(P) /\ LastTerm(P) = op.term
    BY <1>0, <1>1, <2>1, <2>2, <2>3, CommitsChosen, Zenon
  <2>5. PICK E : SafeLog(E)
    BY DEF CommitInv
  <2>6. E \in Seq(Entry) /\ Chosen(E) /\ Prefix(E, L)
    BY <1>0, <1>1, <2>1, <2>2, <2>5, CommittedInLog DEF SafeLog
  <2>7. PICK X : X = E \o SubSeq(L, Len(E) + 1, k)
    BY ZenonT(30)
  <2>8. X \in {E, P} /\ Prefix(E, X) /\ Prefix(P, X) /\ X \in Seq(Entry)
    <3>1. Extension(X, E, L, k)
      BY <2>2, <2>6, <2>7, ExtendTo
    <3>2. X \in {E, P} /\ Prefix(E, X) /\ Prefix(P, X)
      BY <2>2, <2>3, <2>6, <3>1, LongerIs
    <3>. QED  BY <2>3, <2>6, <3>2
  <2>9. \A R \in Seq(Entry) : Chosen(R) => Chosen(R)'
    <3>1. \A i \in Nodes : /\ nodes'[i].log = nodes[i].log
                           /\ nodes'[i].role = "leader" => /\ nodes[i].role = "leader"
                                                           /\ nodes'[i].term = nodes[i].term
      BY <1>3, <1>4
    <3>. QED  BY <3>1, SameLogsChosen
  <2>10. Chosen(X)'
    BY <2>3, <2>4, <2>6, <2>8, <2>9
  <2>11. Backed(X, nodes[l])'
    <3>1. Covers(P, n)
      <4>1. n.term \in Nat /\ LastTerm(P) <= n.term
        BY <1>3, <2>4, NodeFields
      <4>. QED  BY <1>3, <2>1, <2>2, <2>3, <4>1 DEF Covers
    <3>2. Covers(P, nodes[l])' /\ Chosen(P)'
      BY <1>4, <2>3, <2>4, <2>9, <3>1 DEF Covers
    <3>. QED  BY <2>3, <2>8, <3>2 DEF Backed
  <2>12. ASSUME NEW i \in Nodes, i # l PROVE Backed(X, nodes[i])'
    <3>1. PICK R \in Seq(Entry) : Chosen(R) /\ Prefix(R, E) /\ Covers(R, nodes[i])
      BY <2>5 DEF SafeLog, Backed
    <3>2. Prefix(R, X)
      BY <2>6, <2>8, <3>1, PrefixThen
    <3>3. Covers(R, nodes[i])' /\ Chosen(R)'
      BY <1>4, <2>9, <2>12, <3>1 DEF Covers
    <3>. QED  BY <3>1, <3>2, <3>3 DEF Backed
  <2>13. ASSUME NEW i \in Nodes PROVE HasApplied(X, nodes'[i], applied'[i])
    <3>1. HasApplied(E, nodes[i], applied[i])
      BY <2>5 DEF SafeLog
    <3>2. Prefix(applied[i], X)
      BY <2>6, <2>8, <3>1, PrefixThen DEF HasApplied
    <3>3. nodes[i].commit \in Nat /\ nodes[i].applied \in Nat
      BY <1>0, NodeFields DEF TypeInv
    <3>4. nodes'[i].applied = nodes[i].applied /\ nodes'[i].commit >= nodes[i].commit
          /\ nodes'[i].commit \in Nat
      <4>1. CASE i = l
        BY <1>3, <1>4, <2>1, <2>2, <4>1
      <4>2. CASE i # l
        BY <1>4, <3>3, <4>2
      <4>. QED  BY <4>1, <4>2
    <3>5. nodes'[i].applied <= nodes'[i].commit
      BY <3>1, <3>3, <3>4 DEF HasApplied
    <3>. QED  BY <1>1, <3>1, <3>2, <3>4, <3>5 DEF HasApplied
  <2>14. ~failed' => committed' = X
    BY <1>1, <1>3, <2>1, <2>5, <2>7, Zenon DEF SafeLog
  <2>15. SafeLog(X)'
    BY <2>8, <2>10, <2>11, <2>12, <2>13, <2>14 DEF SafeLog
  <2>16. committed' \in Seq(Entry)
    <3>1. committed \in Seq(Entry) /\ committed' = committed \o SubSeq(L, Len(committed) + 1, k)
      BY <1>1, <1>3, <2>1 DEF CommitInv
    <3>. QED  BY <2>2, <3>1, ExtendTo DEF Extension
  <2>. QED  BY <2>15, <2>16 DEF CommitInv
<1>. QED  BY <1>3, <1>5, <1>6

\* Every node applies what it has not applied of the committed part of its log.
LEMMA AppliedIs ==
  ASSUME NEW E \in Seq(Entry), NEW n \in Node, Backed(E, n), NEW a, HasApplied(E, n, a)
  PROVE  LET x == a \o take_applied(n)
         IN  x \in Seq(Entry) /\ Len(x) = n.commit /\ Prefix(x, E)
<1>1. PICK P \in Seq(Entry) : Prefix(P, E) /\ Covers(P, n)
  BY DEF Backed
<1>2. n.commit \in Nat /\ n.applied \in Nat /\ n.log \in Seq(Entry)
  BY NodeFields
<1>3. /\ n.commit <= Len(P) /\ n.commit <= Len(n.log)
      /\ \A j \in 1..n.commit : n.log[j] = P[j]
  BY <1>1 DEF Covers
<1>4. n.applied <= n.commit /\ a \in Seq(Entry) /\ Len(a) = n.applied /\ Prefix(a, E)
  BY DEF HasApplied
<1>5. PICK L \in Seq(Entry), k \in Nat : L = n.log /\ k = n.commit /\ k <= Len(L)
  BY <1>2, <1>3
<1>6. PICK x : x = a \o SubSeq(L, Len(a) + 1, k)
  BY Zenon
<1>7. /\ x \in Seq(Entry) /\ (Len(a) >= n.commit => x = a)
      /\ Len(a) < n.commit => /\ Len(x) = n.commit /\ \A j \in 1..Len(a) : x[j] = a[j]
                              /\ \A j \in (Len(a) + 1)..n.commit : x[j] = n.log[j]
  <2>1. a \in Seq(Entry)
    BY <1>4
  <2>2. Extension(x, a, L, k)
    BY <1>5, <1>6, <2>1, ExtendTo
  <2>. QED  BY <1>5, <2>2 DEF Extension
<1>8. CASE n.applied = n.commit
  BY <1>2, <1>4, <1>5, <1>6, <1>7, <1>8, ZenonT(30) DEF take_applied
<1>9. CASE n.applied < n.commit
  <2>1. Len(P) \in Nat /\ Len(E) \in Nat /\ Len(P) <= Len(E) /\ \A j \in 1..Len(P) : E[j] = P[j]
    BY <1>1 DEF Prefix
  <2>2. Len(x) = n.commit /\ Len(x) <= Len(E)
    BY <1>2, <1>3, <1>4, <1>7, <1>9, <2>1
  <2>3. ASSUME NEW j \in 1..Len(x) PROVE E[j] = x[j]
    <3>1. CASE j <= Len(a)
      BY <1>2, <1>4, <1>7, <1>9, <2>2, <3>1 DEF Prefix
    <3>2. CASE j > Len(a)
      <4>1. j \in (Len(a) + 1)..n.commit /\ j \in 1..n.commit /\ j \in 1..Len(P)
        BY <1>2, <1>3, <1>4, <2>1, <2>2, <3>2
      <4>. QED  BY <1>3, <1>4, <1>7, <1>9, <2>1, <4>1
    <3>. QED  BY <1>4, <3>1, <3>2
  <2>4. Prefix(x, E)
    BY <2>2, <2>3 DEF Prefix
  <2>. QED  BY <1>4, <1>5, <1>6, <1>7, <2>2, <2>4 DEF take_applied
<1>. QED  BY <1>2, <1>4, <1>8, <1>9

\* apply_all applies committed entries, in order and once.
LEMMA FinishReplicationCommits ==
  ASSUME IInv, CommitInv, FinishReplication
  PROVE  CommitInv'
<1>0. TypeInv
  BY DEF IInv, StateInv
<1>1. /\ nodes' \in [Nodes -> Node] /\ failed' = failed /\ committed' = committed
      /\ \A i \in Nodes :
           /\ nodes'[i].term = nodes[i].term /\ nodes'[i].log = nodes[i].log
           /\ nodes'[i].role = nodes[i].role /\ nodes'[i].commit = nodes[i].commit
           /\ nodes'[i].applied = IF nodes[i].applied < nodes[i].commit
                                    THEN nodes[i].commit ELSE nodes[i].applied
  BY <1>0, FinishReplicationIs
<1>2. \A i \in Nodes : applied'[i] = applied[i] \o take_applied(nodes[i])
  BY Zenon DEF FinishReplication
<1>3. PICK E : SafeLog(E)
  BY DEF CommitInv
<1>4. \A P \in Seq(Entry) : Chosen(P) => Chosen(P)'
  BY <1>1, SameLogsChosen
<1>5. E \in Seq(Entry) /\ Chosen(E) /\ Chosen(E)'
  BY <1>3, <1>4 DEF SafeLog
<1>6. ASSUME NEW i \in Nodes PROVE Backed(E, nodes[i])' /\ HasApplied(E, nodes'[i], applied'[i])
  <2>1. /\ nodes[i] \in Node /\ nodes'[i] \in Node /\ nodes[i].log \in Seq(Entry)
        /\ nodes[i].term \in Nat /\ nodes[i].commit \in Nat /\ nodes[i].applied \in Nat
    BY <1>0, <1>1, NodeFields DEF TypeInv
  <2>2. Backed(E, nodes[i]) /\ HasApplied(E, nodes[i], applied[i])
    BY <1>3 DEF SafeLog
  <2>3. /\ applied'[i] \in Seq(Entry) /\ Len(applied'[i]) = nodes[i].commit
        /\ Prefix(applied'[i], E)
    BY <1>2, <1>5, <2>1, <2>2, AppliedIs, ZenonT(30)
  <2>4. nodes[i].applied <= nodes[i].commit
    BY <2>2 DEF HasApplied
  <2>5. nodes'[i].applied = nodes[i].commit /\ nodes'[i].commit = nodes[i].commit
    BY <1>1, <2>1, <2>4
  <2>6. HasApplied(E, nodes'[i], applied'[i])
    BY <2>1, <2>3, <2>5 DEF HasApplied
  <2>7. Prefix(nodes[i].log, nodes'[i].log) /\ nodes'[i].term >= nodes[i].term
    BY <1>1, <2>1, PrefixSame
  <2>8. Backed(E, nodes[i])'
    BY <1>1, <1>4, <2>1, <2>2, <2>7, BackedStays
  <2>. QED  BY <2>6, <2>8
<1>7. SafeLog(E)'
  BY <1>1, <1>3, <1>5, <1>6 DEF SafeLog
<1>. QED  BY <1>1, <1>7 DEF CommitInv

\* While no persist() has failed a disk holds its node's log.
LEMMA DiskIsLog ==
  ASSUME OrderInv, ~failed, NEW i \in Nodes
  PROVE  disk[i].log = nodes[i].log
<1>1. disk[i] = Persistent(nodes[i])
  BY DEF OrderInv
<1>. QED  BY <1>1 DEF Persistent

\* The nodes are reopened: none has committed or applied anything.  Unless a
\* persist() has failed, the logs are what they were.
LEMMA CrashCommits ==
  ASSUME SetFacts, IInv, CommitInv, Crash
  PROVE  CommitInv'
<1>0. TypeInv /\ OrderInv
  BY DEF IInv, StateInv
<1>1. /\ nodes' = [i \in Nodes |-> Reopened(disk[i])]
      /\ applied' = [i \in Nodes |-> <<>>] /\ UNCHANGED <<committed, failed>>
  BY DEF Crash
<1>2. /\ nodes' \in [Nodes -> Node]
      /\ \A i \in Nodes : /\ nodes'[i].log = disk[i].log /\ nodes'[i].role = "follower"
                          /\ nodes'[i].commit = 0 /\ nodes'[i].applied = 0
  BY <1>0, <1>1, ReopenedAll
<1>3. /\ <<>> \in Seq(Entry) /\ Len(<<>>) = 0 /\ LastTerm(<<>>) = 0
      /\ \A l \in Seq(Entry) : Prefix(<<>>, l)
  BY EmptyPrefix
<1>4. Chosen(<<>>)'
  <2>1. \A i \in Nodes : Prefix(<<>>, nodes'[i].log)
    BY <1>2, <1>3, NodeFields
  <2>. QED  BY <2>1, AllNodes DEF Chosen
<1>5. ASSUME NEW E \in Seq(Entry), Chosen(E)', ~failed => committed = E PROVE CommitInv'
  <2>1. ASSUME NEW i \in Nodes PROVE Backed(E, nodes[i])' /\ HasApplied(E, nodes'[i], applied'[i])
    <3>1. nodes'[i].term \in Nat /\ Len(nodes'[i].log) \in Nat
      BY <1>2, NodeFields
    <3>2. Covers(<<>>, nodes[i])'
      BY <1>2, <1>3, <3>1 DEF Covers
    <3>3. Backed(E, nodes[i])'
      BY <1>3, <1>4, <3>2, Zenon DEF Backed
    <3>4. applied'[i] = <<>>
      BY <1>1
    <3>. QED  BY <1>2, <1>3, <3>3, <3>4 DEF HasApplied
  <2>2. SafeLog(E)'
    BY <1>1, <1>5, <2>1 DEF SafeLog
  <2>. QED  BY <1>1, <2>2 DEF CommitInv
<1>6. CASE failed
  BY <1>3, <1>4, <1>5, <1>6, Zenon
<1>7. CASE ~failed
  <2>1. \A i \in Nodes : nodes'[i].log = nodes[i].log
    BY <1>0, <1>2, <1>7, DiskIsLog
  <2>2. PICK E : SafeLog(E)
    BY DEF CommitInv
  <2>3. E \in Seq(Entry) /\ Chosen(E) /\ (~failed => committed = E)
    BY <2>2 DEF SafeLog
  <2>4. Chosen(E)'
    BY <1>2, <2>1, <2>3, SameLogsChosen
  <2>. QED  BY <1>5, <2>3, <2>4
<1>. QED  BY <1>6, <1>7

-----------------------------------------------------------------------------
\* The invariant.

\* CommitInv holds for new nodes.
LEMMA InitCommits ==
  ASSUME SetFacts, Init
  PROVE  CommitInv
<1>1. TypeInv
  BY InitKeeps DEF IInv, StateInv
<1>2. NoState \in State
  BY DEF NoState, State
<1>3. /\ <<>> \in Seq(Entry) /\ Len(<<>>) = 0 /\ LastTerm(<<>>) = 0 /\ Prefix(<<>>, <<>>)
      /\ Chosen(<<>>)
  BY <1>1, EmptyPrefix, ChosenEmpty, Zenon
<1>4. ASSUME NEW i \in Nodes PROVE Backed(<<>>, nodes[i]) /\ HasApplied(<<>>, nodes[i], applied[i])
  <2>1. nodes[i] = Reopened(NoState) /\ applied[i] = <<>>
    BY DEF Init
  <2>2. nodes[i].commit = 0 /\ nodes[i].applied = 0
    BY <1>2, <2>1, ReopenedIs
  <2>3. nodes[i].term \in Nat /\ Len(nodes[i].log) \in Nat
    BY <1>1, StateIs
  <2>4. Covers(<<>>, nodes[i])
    BY <1>3, <2>2, <2>3 DEF Covers
  <2>5. Backed(<<>>, nodes[i])
    BY <1>3, <2>4, ZenonT(30) DEF Backed
  <2>. QED  BY <1>3, <2>1, <2>2, <2>5 DEF HasApplied
<1>5. committed = <<>>
  BY DEF Init
<1>6. SafeLog(<<>>)
  BY <1>3, <1>4, <1>5 DEF SafeLog
<1>. QED  BY <1>3, <1>5, <1>6 DEF CommitInv

\* Every step keeps CommitInv.
LEMMA NextCommits ==
  ASSUME SetFacts, IInv, CommitInv, [Next]_vars
  PROVE  CommitInv'
<1>0. StateInv
  BY DEF IInv
<1>1. ASSUME NEW i \in Nodes, NEW peers \in Reachable(i),
             \/ StartElection(i, peers)
             \/ synchronize(i, peers)
             \/ \E c \in Commands : replicate(i, c, peers)
      PROVE  CommitInv'
  <2>1. CASE synchronize(i, peers)
    <3>1. nodes' = nodes /\ UNCHANGED <<applied, committed, failed>>
      BY <2>1 DEF synchronize
    <3>. QED  BY <1>0, <3>1, SynchronizeCommits
  <2>. QED  BY <1>0, <1>1, <2>1, StartElectionCommits, ReplicateCommits
<1>2. CASE AskVote
  BY <1>2, AskVoteCommits
<1>3. CASE ObserveTerm
  BY <1>3, ObserveTermCommits
<1>4. CASE FinishElection
  BY <1>4, FinishElectionCommits
<1>5. CASE SendAppend
  BY <1>5, SendAppendCommits
<1>6. CASE AdvanceCommit
  BY <1>6, AdvanceCommitCommits
<1>7. CASE PublishCommit
  BY <1>7, PublishCommitCommits
<1>8. CASE FinishReplication
  BY <1>8, FinishReplicationCommits
<1>9. CASE Crash
  BY <1>9, CrashCommits
<1>10. CASE UNCHANGED vars
  BY <1>0, <1>10, SynchronizeCommits DEF vars
<1>. QED  BY <1>1, <1>2, <1>3, <1>4, <1>5, <1>6, <1>7, <1>8, <1>9, <1>10 DEF Next

-----------------------------------------------------------------------------
\* What the invariant implies of the properties: the types,
LEMMA TypesHold ==
  ASSUME IInv, CommitInv
  PROVE  TypeOK
<1>1. TypeInv /\ OpInv
  BY DEF IInv, StateInv
<1>2. ASSUME NEW i \in Nodes
      PROVE  /\ Persistent(nodes[i]) \in State /\ disk[i] \in State
             /\ nodes[i].role \in {"follower", "candidate", "leader"}
             /\ applied[i] \in Seq(Entry)
  <2>1. nodes[i] \in Node /\ disk[i] \in State
    BY <1>1 DEF TypeInv
  <2>2. Persistent(nodes[i]) \in State
    BY <2>1, NodeFields DEF Persistent, State
  <2>3. applied[i] \in Seq(Entry)
    BY DEF CommitInv, SafeLog, HasApplied
  <2>. QED  BY <2>1, <2>2, <2>3, NodeFields
<1>3. op.call \in {"none", "elect", "observe", "send", "publish"}
  BY <1>1 DEF OpInv, Idle, Electing, Observing, Sends, Publishing, ElectOp, ObserveOp, SendOp,
              PublishOp
<1>. QED  BY <1>1, <1>2, <1>3 DEF TypeOK, TypeInv, CommitInv

\* one sequence of applied entries,
LEMMA AppliesTheSame ==
  ASSUME IInv, CommitInv
  PROVE  StateMachineSafety
<1>1. ASSUME ~failed, NEW i \in Nodes
      PROVE  /\ nodes[i].commit <= Len(nodes[i].log)
             /\ nodes[i].commit <= Len(committed)
             /\ SubSeq(nodes[i].log, 1, nodes[i].commit) = SubSeq(committed, 1, nodes[i].commit)
             /\ applied[i] = SubSeq(committed, 1, nodes[i].applied)
  <2>1. SafeLog(committed) /\ committed \in Seq(Entry)
    BY <1>1 DEF CommitInv, SafeLog
  <2>2. PICK P \in Seq(Entry) : Prefix(P, committed) /\ Covers(P, nodes[i])
    BY <2>1 DEF SafeLog, Backed
  <2>3. nodes[i] \in Node /\ nodes[i].commit \in Nat /\ nodes[i].log \in Seq(Entry)
        /\ nodes[i].applied \in Nat
    BY NodeFields DEF IInv, StateInv, TypeInv
  <2>4. /\ Len(P) \in Nat /\ Len(committed) \in Nat /\ Len(P) <= Len(committed)
        /\ \A j \in 1..Len(P) : committed[j] = P[j]
    BY <2>1, <2>2 DEF Prefix
  <2>5. /\ nodes[i].commit <= Len(P) /\ nodes[i].commit <= Len(nodes[i].log)
        /\ \A j \in 1..nodes[i].commit : nodes[i].log[j] = P[j]
    BY <2>2 DEF Covers
  <2>6. nodes[i].commit <= Len(committed)
    BY <2>3, <2>4, <2>5
  <2>7. \A j \in 1..nodes[i].commit : nodes[i].log[j] = committed[j]
    BY <2>3, <2>4, <2>5
  <2>8. SubSeq(nodes[i].log, 1, nodes[i].commit) = SubSeq(committed, 1, nodes[i].commit)
    BY <2>1, <2>3, <2>5, <2>6, <2>7, SubSeqSame
  <2>9. applied[i] \in Seq(Entry) /\ Len(applied[i]) = nodes[i].applied /\ Prefix(applied[i], committed)
    BY <2>1 DEF SafeLog, HasApplied
  <2>10. applied[i] = SubSeq(committed, 1, nodes[i].applied)
    <3>1. nodes[i].applied <= Len(committed) /\ \A j \in 1..nodes[i].applied : committed[j] = applied[i][j]
      BY <2>9 DEF Prefix
    <3>2. PICK S : S = SubSeq(committed, 1, nodes[i].applied)
      BY ZenonT(30)
    <3>3. /\ S \in Seq(Entry) /\ Len(S) = nodes[i].applied
          /\ \A j \in 1..nodes[i].applied : S[j] = committed[j]
      BY <2>1, <2>3, <3>1, <3>2, FirstEntries
    <3>4. S = applied[i]
      BY <2>9, <3>1, <3>3, SameLog
    <3>. QED  BY <3>2, <3>4, Zenon
  <2>. QED  BY <2>5, <2>6, <2>8, <2>10, Zenon
<1>. QED  BY <1>1, Zenon DEF StateMachineSafety

\* the committed entries in the log of every node that could win an election,
LEMMA CompleteLeaders ==
  ASSUME SetFacts, IInv, CommitInv
  PROVE  LeaderCompleteness
<1>0. StateInv /\ TypeInv
  BY DEF IInv, StateInv
<1>1. ASSUME ~failed, NEW i \in Nodes,
             Majority(Cardinality({v \in Nodes : UpToDate(VoteRequest(nodes[i], i), nodes[v])}))
      PROVE  /\ Len(committed) <= Len(nodes[i].log)
             /\ SubSeq(nodes[i].log, 1, Len(committed)) = committed
  <2>1. committed \in Seq(Entry) /\ Chosen(committed)
    BY <1>1 DEF CommitInv, SafeLog
  <2>2. PICK R : R = {v \in Nodes : UpToDate(VoteRequest(nodes[i], i), nodes[v])}
    BY Zenon
  <2>3. R \in Quorum
    BY <1>1, <2>2 DEF Quorum
  <2>4. PICK r : r = VoteRequest(nodes[i], i)
    OBVIOUS
  <2>5. /\ nodes[i].log \in Seq(Entry)
        /\ r.last_log_index = Len(nodes[i].log) /\ r.last_log_term = LastTerm(nodes[i].log)
    BY <1>0, <2>4, StateIs, LastOfNode DEF VoteRequest
  <2>6. ASSUME NEW v \in R PROVE AtLeast(nodes[i].log, nodes[v].log)
    <3>1. v \in Nodes /\ UpToDate(r, nodes[v])
      BY <2>2, <2>4, <2>6
    <3>2. nodes[v].log \in Seq(Entry)
      BY <1>0, <3>1, StateIs
    <3>. QED  BY <2>5, <3>1, <3>2, UpToDateIs
  <2>7. Prefix(committed, nodes[i].log)
    BY <1>0, <2>1, <2>3, <2>6, ChosenByVotes
  <2>8. PICK k, S : k = Len(committed) /\ S = SubSeq(nodes[i].log, 1, k)
    BY Zenon
  <2>9. k \in Nat /\ k <= Len(nodes[i].log) /\ \A j \in 1..k : nodes[i].log[j] = committed[j]
    BY <2>1, <2>7, <2>8 DEF Prefix
  <2>10. S \in Seq(Entry) /\ Len(S) = k /\ \A j \in 1..k : S[j] = nodes[i].log[j]
    BY <2>5, <2>8, <2>9, FirstEntries
  <2>11. S = committed
    BY <2>1, <2>8, <2>9, <2>10, SameLog
  <2>. QED  BY <2>8, <2>9, <2>11
<1>. QED  BY <1>1 DEF LeaderCompleteness

\* and the committed entries on the disks of a majority.
LEMMA OnMajorityDisks ==
  ASSUME SetFacts, IInv, CommitInv
  PROVE  CommittedOnDisk
<1>0. TypeInv /\ OrderInv
  BY DEF IInv, StateInv
<1>1. ASSUME ~failed, NEW k \in DOMAIN committed
      PROVE  Majority(Cardinality({i \in Nodes :
               k <= Len(disk[i].log) /\ disk[i].log[k] = committed[k]}))
  <2>1. committed \in Seq(Entry) /\ Chosen(committed)
    BY <1>1 DEF CommitInv, SafeLog
  <2>2. PICK Q \in Quorum : \A v \in Q : Prefix(committed, nodes[v].log)
    BY <2>1 DEF Chosen
  <2>3. PICK R : R = {i \in Nodes : k <= Len(disk[i].log) /\ disk[i].log[k] = committed[k]}
    BY ZenonT(30)
  <2>4. k \in 1..Len(committed) /\ Len(committed) \in Nat
    BY <1>1, <2>1
  <2>5. ASSUME NEW v \in Q PROVE v \in R
    <3>1. v \in Nodes
      BY <2>5 DEF Quorum
    <3>2. disk[v].log = nodes[v].log /\ Len(nodes[v].log) \in Nat
      BY <1>0, <1>1, <3>1, StateIs, DiskIsLog
    <3>3. k <= Len(disk[v].log) /\ disk[v].log[k] = committed[k]
      BY <2>2, <2>4, <3>2 DEF Prefix
    <3>. QED  BY <2>3, <3>1, <3>3
  <2>6. R \in SUBSET Nodes /\ Q \subseteq R
    BY <2>3, <2>5
  <2>7. R \in Quorum
    BY <2>2, <2>6, LargerQuorum
  <2>. QED  BY <2>3, <2>7 DEF Quorum
<1>. QED  BY <1>1 DEF CommittedOnDisk

-----------------------------------------------------------------------------
\* From here on the library's theorems are in scope.
INSTANCE FiniteSetTheorems
INSTANCE WellFoundedInduction

\* A non-empty set of naturals has a least member.
LEMMA LeastOf ==
  ASSUME NEW S, S \subseteq Nat, S # {}
  PROVE  \E x \in S : \A y \in S : x <= y
<1> DEFINE R == OpToRel(<, Nat)
<1>1. PICK x \in S : \A y \in S : ~(<<y, x>> \in R)
  BY NatLessThanWellFounded, WFMin, Zenon
<1>2. \A y \in S : ~(y < x)
  BY <1>1, Zenon DEF OpToRel
<1> HIDE DEF R
<1>. QED  BY <1>2

\* The hypotheses of the lemmas, from the library.
LEMMA SetFactsHold == SetFacts
<1>1. IsFiniteSet(Nodes) /\ Nodes # {}
  BY RaftAssumption
<1>2. \A S \in SUBSET Nodes : IsFiniteSet(S) /\ Cardinality(S) <= Cardinality(Nodes)
  BY <1>1, FS_Subset
<1>3. \A S \in SUBSET Nodes : Cardinality(S) \in Nat
  BY <1>2, FS_CardinalityType
<1>4. \A S, T \in SUBSET Nodes : S \subseteq T => Cardinality(S) <= Cardinality(T)
  BY <1>2, FS_Subset
<1>5. \A S, T \in SUBSET Nodes :
        Cardinality(S) + Cardinality(T) > Cardinality(Nodes) => S \cap T # {}
  BY <1>1, <1>2, FS_MajoritiesIntersect
<1>6. \A S \in SUBSET Nodes : \A n \in Nodes \ S : Cardinality(S \union {n}) = Cardinality(S) + 1
  BY <1>2, FS_AddElement
<1>7. Cardinality(Nodes) # 0 /\ \A n \in Nodes : Cardinality({n}) = 1
  BY <1>1, FS_EmptySet, FS_Singleton
<1>. QED  BY <1>3, <1>4, <1>5, <1>6, <1>7, LeastOf DEF SetFacts

\* The inductive invariant holds always.
LEMMA Holds == Spec => [](IInv /\ CommitInv)
<1>1. Init => IInv /\ CommitInv
  BY InitKeeps, InitCommits, SetFactsHold
<1>2. IInv /\ CommitInv /\ [Next]_vars => (IInv /\ CommitInv)'
  BY NextKeeps, NextCommits, SetFactsHold
<1>. QED  BY <1>1, <1>2, PTL DEF Spec

-----------------------------------------------------------------------------
\* In every behaviour of the cluster a term has at most one leader: a vote is
\* on the voter's disk before it is counted, so neither a crash of the process
\* nor a persist() that fails lets a node vote twice in a term.
THEOREM OneLeaderPerTerm == Spec => []ElectionSafety
<1>1. IInv => ElectionSafety
  BY DEF IInv, StateInv, LeaderInv
<1>. QED  BY <1>1, Holds, PTL

\* In every behaviour of the cluster two logs, in memory or on disk, that hold an
\* entry of the same term at the same index are equal up to it: append_entries
\* compares the term of the entry before the new ones, and only the leader of a
\* term adds entries of it.
THEOREM LogsAgree == Spec => []LogMatching
<1>1. IInv => LogMatching
  BY LogsMatch
<1>. QED  BY <1>1, Holds, PTL

\* In every behaviour of the cluster the length of a follower's log is an index
\* of the copy of the leader's log that replicate_existing looks it up in when
\* it publishes the commit index.
THEOREM PublishIndexes == Spec => []PublishInRange
<1>1. IInv => PublishInRange
  BY PublishesInRange
<1>. QED  BY <1>1, Holds, PTL

\* The variables of the cluster keep their types.
THEOREM ClusterTypes == Spec => []TypeOK
<1>1. IInv /\ CommitInv => TypeOK
  BY TypesHold
<1>. QED  BY <1>1, Holds, PTL

\* As long as no persist() has failed, every node's log up to its commit index,
\* and what apply_all has applied from it, is the one sequence of entries that
\* leaders have committed: across elections, log truncations and crashes no two
\* nodes apply different entries at an index, and none is applied twice.
THEOREM NodesApplyTheSame == Spec => []StateMachineSafety
<1>1. IInv /\ CommitInv => StateMachineSafety
  BY AppliesTheSame
<1>. QED  BY <1>1, Holds, PTL

\* As long as no persist() has failed, a node whose log is new enough for a
\* majority to vote for it has every committed entry: what request_vote's
\* comparison of the last log term and index, and advance_commit's test of the
\* entry's term, are for.
THEOREM LeadersAreComplete == Spec => []LeaderCompleteness
<1>1. IInv /\ CommitInv => LeaderCompleteness
  BY CompleteLeaders, SetFactsHold
<1>. QED  BY <1>1, Holds, PTL

\* As long as no persist() has failed, every entry that was ever committed is on
\* the disks of a majority, so that what replicate answered Ok to survives a
\* crash of the whole process.
THEOREM CommitsAreOnDisk == Spec => []CommittedOnDisk
<1>1. IInv /\ CommitInv => CommittedOnDisk
  BY OnMajorityDisks, SetFactsHold
<1>. QED  BY <1>1, Holds, PTL

=============================================================================
