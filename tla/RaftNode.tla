------------------------------ MODULE RaftNode ------------------------------
(***************************************************************************)
(* One Raft node (raft/state.rs): its state and the rules by which it      *)
(* answers.  A handler is an operator from the node and a request to       *)
(*   node      the node afterwards,                                        *)
(*   persists  whether the code calls persist() before it answers, and     *)
(*   the fields of the response.                                           *)
(* leader_id is left out: nothing reads it.                                *)
(***************************************************************************)
EXTENDS Naturals, Sequences, FiniteSets

Nobody == 0   \* voted_for: None; node ids start at 1

\* What persist() writes.
Persistent(n) == [term |-> n.term, vote |-> n.vote, log |-> n.log]

\* RaftNode::open, from the last state record of the log.
Reopened(state) ==
  [term |-> state.term, vote |-> state.vote, log |-> state.log,
   commit |-> 0, applied |-> 0, role |-> "follower"]

NoState == [term |-> 0, vote |-> Nobody, log |-> <<>>]

last_log_term(n) == IF n.log = <<>> THEN 0 ELSE n.log[Len(n.log)].term

TermAt(log, index) == IF index = 0 THEN 0 ELSE log[index].term

-----------------------------------------------------------------------------
start_election(n, id) ==
  [n EXCEPT !.term = @ + 1, !.role = "candidate", !.vote = id]

\* The request a candidate sends.
VoteRequest(n, id) ==
  [term |-> n.term, candidate |-> id,
   last_log_index |-> Len(n.log), last_log_term |-> last_log_term(n)]

\* observe_term for a term above the node's own.
observe_term(n, term) ==
  [n EXCEPT !.term = term, !.vote = Nobody, !.role = "follower"]

\* The candidate's log is at least as new as the node's.
UpToDate(request, n) ==
  \/ request.last_log_term > last_log_term(n)
  \/ /\ request.last_log_term = last_log_term(n)
     /\ request.last_log_index >= Len(n.log)

\* Mutant of request_vote: the vote of this term is forgotten.
request_vote_again(n, request) ==
  LET m == IF request.term >= n.term THEN observe_term(n, request.term) ELSE n
      granted == request.term >= n.term /\ UpToDate(request, m)
      after == IF granted THEN [m EXCEPT !.vote = request.candidate] ELSE m
  IN  [node |-> after, persists |-> after # n,
       term |-> after.term, granted |-> granted]

request_vote(n, request) ==
  LET m == IF request.term > n.term THEN observe_term(n, request.term) ELSE n
      granted == /\ request.term >= n.term
                 /\ m.vote \in {Nobody, request.candidate}
                 /\ UpToDate(request, m)
      after == IF granted THEN [m EXCEPT !.vote = request.candidate] ELSE m
  IN  [node |-> after,
       persists |-> Persistent(after) # Persistent(n),
       term |-> after.term, granted |-> granted]

\* Mutant of Merged: entries beyond those of the request are kept.
MergedKeepsRest(log, prev, entries) ==
  IF /\ prev + Len(entries) <= Len(log)
     /\ entries = SubSeq(log, prev + 1, prev + Len(entries))
  THEN log ELSE SubSeq(log, 1, prev) \o entries

\* The follower's log after it has taken the entries that follow prev: the
\* first difference and what comes after it are replaced, and anything beyond
\* the last entry of the request is cut off.
Merged(log, prev, entries) == SubSeq(log, 1, prev) \o entries

\* Mutant of Matches: only the length is compared.
MatchesLength(log, prev, prevTerm) == prev <= Len(log)

\* The request matches the follower's log at prev.
Matches(log, prev, prevTerm) ==
  prev <= Len(log) /\ (prev > 0 => log[prev].term = prevTerm)

append_entries(n, request) ==
  IF request.term < n.term
    THEN [node |-> n, persists |-> FALSE, term |-> n.term, success |-> FALSE]
    ELSE LET m == IF request.term > n.term THEN observe_term(n, request.term)
                                           ELSE [n EXCEPT !.role = "follower"]
             success == Matches(n.log, request.prev, request.prevTerm)
             log == IF success THEN Merged(n.log, request.prev, request.entries)
                               ELSE n.log
             commit == IF success /\ request.commit > n.commit
                         THEN IF request.commit < Len(log) THEN request.commit
                                                           ELSE Len(log)
                         ELSE n.commit
         IN  [node |-> [m EXCEPT !.log = log, !.commit = commit],
              persists |-> m.term # n.term \/ log # n.log,
              term |-> m.term, success |-> success]

\* Mutant of append_as_leader: the term before the election.
append_as_leader_before(n, command) ==
  [n EXCEPT !.log = Append(@, [term |-> n.term - 1, command |-> command])]

append_as_leader(n, command) ==
  [n EXCEPT !.log = Append(@, [term |-> n.term, command |-> command])]

\* Mutant of Committable: the term of the entry is not looked at.
CommittableAnyTerm(n, matched) ==
  {i \in (n.commit + 1)..Len(n.log) :
     2 * (1 + Cardinality({f \in DOMAIN matched : matched[f] >= i}))
       > Cardinality(DOMAIN matched) + 1}

\* The indexes a leader may commit: held by a majority of the cluster, itself
\* included, and of its current term.  matched gives what each other node holds.
Committable(n, matched) ==
  {i \in (n.commit + 1)..Len(n.log) :
     /\ 2 * (1 + Cardinality({f \in DOMAIN matched : matched[f] >= i}))
          > Cardinality(DOMAIN matched) + 1
     /\ n.log[i].term = n.term}

advance_commit(n, matched) ==
  LET candidates == Committable(n, matched)
  IN  IF n.role # "leader" \/ candidates = {} THEN n
      ELSE [n EXCEPT !.commit = CHOOSE i \in candidates :
                                  \A j \in candidates : j <= i]
=============================================================================
