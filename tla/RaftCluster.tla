---------------------------- MODULE RaftCluster ----------------------------
(***************************************************************************)
(* The Raft cluster of raft/mod.rs: a set of nodes in one process, driven  *)
(* by calls of elect, replicate and synchronize; between two calls links   *)
(* are cut and healed and nodes stopped and started.                       *)
(*                                                                         *)
(* A call is not one step.  It is the sequence of handlers it runs on the  *)
(* nodes, one step each, with the call's local variables kept in op; a     *)
(* failing persist() ends it half way, and the process can crash between   *)
(* any two handlers, after which every node is reopened from its own log.  *)
(***************************************************************************)
EXTENDS RaftNode

CONSTANTS Nodes,        \* the ids, visited in ascending order
          Commands,
          Bounds        \* bounds, any of which a state has to be within: on
                        \* terms, on the length of a log, and on process
                        \* crashes and failed persist() calls

ASSUME RaftAssumption ==
  /\ Nodes \subseteq Nat \ {0} /\ IsFiniteSet(Nodes) /\ Nodes # {}
  /\ Bounds \subseteq [term : Nat, log : Nat, faults : Nat]

VARIABLES
  nodes,      \* id -> the node in memory
  disk,       \* id -> the last state record of the node's log
  applied,    \* id -> the entries handed to the state machine
  op,         \* the call in progress
  leaders,    \* history: <<term, id>> for every leader there has been
  committed,  \* history: the entries that have been committed, in order
  faults,     \* crashes and failed persist() calls so far
  failed      \* history: some persist() has failed

vars == <<nodes, disk, applied, op, leaders, committed, faults, failed>>

Idle == [call |-> "none"]

Entry == [term : Nat \ {0}, command : Commands]

\* The bounds allow a state with these terms, log lengths and faults.
Within(terms, lengths, count) ==
  \E b \in Bounds : /\ count <= b.faults
                    /\ \A t \in terms : t <= b.term
                    /\ \A l \in lengths : l <= b.log

Terms == {nodes[i].term : i \in Nodes}
Lengths == {Len(nodes[i].log) : i \in Nodes}

\* The peers a call from id can talk to: those that are not stopped, on a link
\* that is not cut.  partition, isolate, heal_all, stop and start are called
\* between two calls and lose nothing of a node's memory, so only the peers
\* they leave in reach matter, and they can leave any set of them.
Reachable(id) == SUBSET (Nodes \ {id})

First(ids) == CHOOSE i \in ids : \A j \in ids : i <= j

Init ==
  /\ nodes = [i \in Nodes |-> Reopened(NoState)]
  /\ disk = [i \in Nodes |-> NoState]
  /\ applied = [i \in Nodes |-> <<>>]
  /\ op = Idle
  /\ leaders = {} /\ committed = <<>>
  /\ faults = 0 /\ failed = FALSE

-----------------------------------------------------------------------------
(* persist().                                                              *)

Fault == Within(Terms, Lengths, faults + 1) /\ faults' = faults + 1

\* Mutant of Becomes: persist() does not call sync.
BecomesUnsynced(i, n, persists) ==
  nodes' = [nodes EXCEPT ![i] = n] /\ UNCHANGED <<disk, faults, failed>>

\* Node i becomes n; when the handler persists, the record is synchronised
\* before it answers.
Becomes(i, n, persists) ==
  /\ nodes' = [nodes EXCEPT ![i] = n]
  /\ disk' = IF persists THEN [disk EXCEPT ![i] = Persistent(n)] ELSE disk
  /\ UNCHANGED <<faults, failed>>

\* persist() returns an error: the node has changed in memory, its record may
\* or may not be in the file, and the call ends.
PersistFails(i, n) ==
  /\ Fault /\ failed' = TRUE
  /\ nodes' = [nodes EXCEPT ![i] = n]
  /\ disk' \in {disk, [disk EXCEPT ![i] = Persistent(n)]}
  /\ op' = Idle

-----------------------------------------------------------------------------
(* elect.                                                                  *)

\* elect, up to the loop over the peers.  A stopped candidate is refused.
StartElection(c, peers) ==
  /\ op = Idle /\ Within(Terms \union {nodes[c].term + 1}, Lengths, faults)
  /\ LET n == start_election(nodes[c], c) IN
       \/ /\ Becomes(c, n, TRUE)
          /\ op' = [call |-> "elect", id |-> c, request |-> VoteRequest(n, c),
                    left |-> peers, votes |-> 1]
       \/ PersistFails(c, n)
  /\ UNCHANGED <<applied, leaders, committed>>

\* The next peer is asked for its vote.
AskVote ==
  /\ op.call = "elect" /\ op.left # {}
  /\ LET p == First(op.left)
         answer == request_vote(nodes[p], op.request)
     IN  \/ /\ Becomes(p, answer.node, answer.persists)
            /\ op' = IF answer.term > op.request.term
                       THEN [call |-> "observe", id |-> op.id, term |-> answer.term]
                       ELSE [op EXCEPT !.left = @ \ {p},
                                       !.votes = IF answer.granted THEN @ + 1 ELSE @]
         \/ answer.persists /\ PersistFails(p, answer.node)
  /\ UNCHANGED <<applied, leaders, committed>>

\* An answer carried a higher term: the caller adopts it and gives up.
ObserveTerm ==
  /\ op.call = "observe"
  /\ LET n == observe_term(nodes[op.id], op.term)
     IN  \/ Becomes(op.id, n, TRUE) /\ op' = Idle
         \/ PersistFails(op.id, n)
  /\ UNCHANGED <<applied, leaders, committed>>

Majority(count) == 2 * count > Cardinality(Nodes)

\* Every peer has been asked: the candidate becomes leader on a majority.
FinishElection ==
  /\ op.call = "elect" /\ op.left = {}
  /\ IF Majority(op.votes)
       THEN /\ nodes' = [nodes EXCEPT ![op.id].role = "leader"]
            /\ leaders' = leaders \union {<<nodes[op.id].term, op.id>>}
       ELSE UNCHANGED <<nodes, leaders>>
  /\ op' = Idle
  /\ UNCHANGED <<disk, applied, committed, faults, failed>>

-----------------------------------------------------------------------------
(* replicate and synchronize.                                              *)

\* replicate_existing for leader l with log n.log.
Sending(l, n, peers) ==
  [call |-> "send", id |-> l, term |-> n.term, log |-> n.log,
   commit |-> n.commit, peers |-> peers, left |-> peers, prev |-> Len(n.log),
   matched |-> [f \in Nodes \ {l} |-> 0]]

replicate(l, command, peers) ==
  /\ op = Idle /\ nodes[l].role = "leader"
  /\ Within(Terms, Lengths \union {Len(nodes[l].log) + 1}, faults)
  /\ LET n == append_as_leader(nodes[l], command)
     IN  \/ Becomes(l, n, TRUE) /\ op' = Sending(l, n, peers)
         \/ PersistFails(l, n)
  /\ UNCHANGED <<applied, leaders, committed>>

\* The caller passes a node that leader() may return; synchronize itself does
\* not look.
synchronize(l, peers) ==
  /\ op = Idle /\ nodes[l].role = "leader"
  /\ op' = Sending(l, nodes[l], peers)
  /\ UNCHANGED <<nodes, disk, applied, leaders, committed, faults, failed>>

Request(prev, entries, commit) ==
  [term |-> op.term, prev |-> prev, prevTerm |-> TermAt(op.log, prev),
   entries |-> entries, commit |-> commit]

\* A persist() that fails in append_entries leaves commit_index as it was.
AppendFails(f, answer) ==
  /\ answer.persists
  /\ PersistFails(f, [answer.node EXCEPT !.commit = nodes[f].commit])

\* One request to the next follower, which answers it; after a mismatch the
\* request is repeated one entry earlier.
SendAppend ==
  /\ op.call = "send" /\ op.left # {}
  /\ LET f == First(op.left)
         answer == append_entries(nodes[f],
                     Request(op.prev, SubSeq(op.log, op.prev + 1, Len(op.log)),
                             op.commit))
         next == [op EXCEPT !.left = @ \ {f}, !.prev = Len(op.log)]
     IN  \/ /\ Becomes(f, answer.node, answer.persists)
            /\ op' = CASE answer.term > op.term ->
                            [call |-> "observe", id |-> op.id, term |-> answer.term]
                       [] answer.term <= op.term /\ answer.success ->
                            [next EXCEPT !.matched[f] = Len(op.log)]
                       [] answer.term <= op.term /\ ~answer.success ->
                            IF op.prev > 0 THEN [op EXCEPT !.prev = @ - 1] ELSE next
         \/ AppendFails(f, answer)
  /\ UNCHANGED <<applied, leaders, committed>>

\* Every follower has been sent to: advance_commit, and the round that tells
\* the followers begins.
AdvanceCommit ==
  /\ op.call = "send" /\ op.left = {}
  /\ LET n == advance_commit(nodes[op.id], op.matched)
     IN  /\ nodes' = [nodes EXCEPT ![op.id] = n]
         /\ op' = [call |-> "publish", id |-> op.id, term |-> op.term,
                   log |-> op.log, commit |-> n.commit, left |-> op.peers]
         /\ committed' = committed \o SubSeq(n.log, Len(committed) + 1, n.commit)
  /\ UNCHANGED <<disk, applied, leaders, faults, failed>>

\* The next follower is told the commit index.  Its answer is not looked at.
PublishCommit ==
  /\ op.call = "publish" /\ op.left # {}
  /\ LET f == First(op.left)
         answer == append_entries(nodes[f],
                     Request(Len(nodes[f].log), <<>>, op.commit))
     IN  \/ /\ Becomes(f, answer.node, answer.persists)
            /\ op' = [op EXCEPT !.left = @ \ {f}]
         \/ AppendFails(f, answer)
  /\ UNCHANGED <<applied, leaders, committed>>

\* Mutant of take_applied: last_applied is not looked at.
take_applied_again(n) == SubSeq(n.log, 1, n.commit)

\* What take_applied returns.
take_applied(n) == SubSeq(n.log, n.applied + 1, n.commit)

\* apply_all, on every node.  replicate then answers Ok when the leader's commit
\* index has reached the entry it appended; `committed' records that already.
FinishReplication ==
  /\ op.call = "publish" /\ op.left = {}
  /\ applied' = [i \in Nodes |-> applied[i] \o take_applied(nodes[i])]
  /\ nodes' = [i \in Nodes |->
                [nodes[i] EXCEPT !.applied = IF @ < nodes[i].commit
                                             THEN nodes[i].commit ELSE @]]
  /\ op' = Idle
  /\ UNCHANGED <<disk, leaders, committed, faults, failed>>

-----------------------------------------------------------------------------
(* The process.                                                            *)

\* The process ends, during a call or between calls, and RaftCluster::open
\* reopens every node from its log.
Crash ==
  /\ Fault
  /\ nodes' = [i \in Nodes |-> Reopened(disk[i])]
  /\ op' = Idle
  /\ applied' = [i \in Nodes |-> <<>>]
  /\ UNCHANGED <<disk, leaders, committed, failed>>

Next ==
  \/ \E i \in Nodes : \E peers \in Reachable(i) :
       \/ StartElection(i, peers)
       \/ synchronize(i, peers)
       \/ \E c \in Commands : replicate(i, c, peers)
  \/ AskVote \/ ObserveTerm \/ FinishElection
  \/ SendAppend \/ AdvanceCommit \/ PublishCommit \/ FinishReplication
  \/ Crash

Spec == Init /\ [][Next]_vars

-----------------------------------------------------------------------------
(* Properties.                                                             *)

State == [term : Nat, vote : Nodes \union {Nobody}, log : Seq(Entry)]

\* The shape of the cluster's state.
TypeOK ==
  /\ \A i \in Nodes :
       /\ Persistent(nodes[i]) \in State /\ disk[i] \in State
       /\ nodes[i].role \in {"follower", "candidate", "leader"}
       /\ applied[i] \in Seq(Entry)
  /\ op.call \in {"none", "elect", "observe", "send", "publish"}
  /\ leaders \subseteq (Nat \ {0}) \X Nodes
  /\ committed \in Seq(Entry)

\* A term has at most one leader, over the whole life of the cluster: no node
\* votes twice in a term, not even with a crash of the process in between.
ElectionSafety ==
  \A a, b \in leaders : a[1] = b[1] => a = b

\* Two logs, in memory or on disk, that hold an entry of the same term at the
\* same index agree up to it: what append_entries' check of prev_log_term and
\* its truncations maintain.
LogMatching ==
  LET logs == {nodes[i].log : i \in Nodes} \union {disk[i].log : i \in Nodes}
  IN  \A x, y \in logs : \A k \in DOMAIN x \intersect DOMAIN y :
        x[k].term = y[k].term => SubSeq(x, 1, k) = SubSeq(y, 1, k)

\* As long as no persist() has failed, what a node has committed and what it
\* has applied is what was committed first: no two nodes ever apply different
\* entries at an index, none applies an entry twice or leaves one out, and no
\* later leader replaces an entry.  This includes that commit_index stays within
\* the log, which take_applied indexes without a check.
StateMachineSafety ==
  ~failed =>
    \A i \in Nodes :
      /\ nodes[i].commit <= Len(nodes[i].log)
      /\ nodes[i].commit <= Len(committed)
      /\ SubSeq(nodes[i].log, 1, nodes[i].commit)
           = SubSeq(committed, 1, nodes[i].commit)
      /\ applied[i] = SubSeq(committed, 1, nodes[i].applied)

\* As long as no persist() has failed, a node whose log is new enough for a
\* majority to vote for it has every committed entry, so that no later leader
\* can lack one: what the comparison of logs in request_vote and the test of
\* the entry's term in advance_commit are for.
LeaderCompleteness ==
  ~failed =>
    \A i \in Nodes :
      Majority(Cardinality({v \in Nodes : UpToDate(VoteRequest(nodes[i], i), nodes[v])}))
        => /\ Len(committed) <= Len(nodes[i].log)
           /\ SubSeq(nodes[i].log, 1, Len(committed)) = committed

\* As long as no persist() has failed, every entry that was ever committed,
\* and so everything replicate has answered Ok to, is on the disks of a majority
\* and survives a crash of the whole process.
CommittedOnDisk ==
  ~failed =>
    \A k \in DOMAIN committed :
      Majority(Cardinality({i \in Nodes :
        k <= Len(disk[i].log) /\ disk[i].log[k] = committed[k]}))

\* "A vote grant or successful append response is not returned until the new
\* state has been synchronized": what a follower has answered success to in the
\* call in progress is on its disk.
SuccessOnDisk ==
  op.call = "send" =>
    \A f \in DOMAIN op.matched :
      /\ op.matched[f] <= Len(disk[f].log)
      /\ SubSeq(disk[f].log, 1, op.matched[f]) = SubSeq(op.log, 1, op.matched[f])

\* When replicate_existing publishes the commit index, a follower's log is no
\* longer than the copy of the leader's log that it indexes by the follower's
\* length.
PublishInRange ==
  op.call = "publish" => \A f \in op.left : Len(nodes[f].log) <= Len(op.log)
=============================================================================
