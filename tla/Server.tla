------------------------------- MODULE Server -------------------------------
(***************************************************************************)
(* The TCP cluster (server.rs): every server keeps versioned records in    *)
(* its own store, and the smallest id that a server finds alive acts as    *)
(* leader for a request.  Records of different keys do not interact, so    *)
(* the module follows one key.                                             *)
(*                                                                         *)
(* A server handles one connection at a time.  While it works on a client  *)
(* request it sends requests of its own, one after the other, each with a  *)
(* timeout of 100 ms, and answers nobody.  A request that times out is not *)
(* taken back: it waits in the receiver's accept queue and is handled      *)
(* later, when nobody listens to the answer.                               *)
(***************************************************************************)
EXTENDS Naturals, Sequences, FiniteSets, TLC

CONSTANTS Nodes,        \* server ids, visited in ascending order
          Values, Nil,  \* values, and the value of a deleted or missing key
          Bounds        \* bounds on client requests that are led, on requests
                        \* that time out and are handled late, and on servers
                        \* that stop

ASSUME ServerAssumption ==
  /\ Nodes \subseteq Nat /\ IsFiniteSet(Nodes) /\ Nodes # {}
  /\ Nil \notin Values
  /\ \A b \in Bounds : {b.requests, b.late, b.crashes} \subseteq Nat

VARIABLES
  store,    \* id -> the record in the server's store
  up,       \* the servers that run
  op,       \* id -> the client request the server works on
  queue,    \* id -> requests waiting in the accept queue
  acked,    \* history: the acknowledged record of the highest version
  read,     \* history: the read just answered, with what was acked before it
  seen,     \* history: the conditions the protocol does not withstand
  requests, late, crashes,
  bound     \* the member of Bounds in force

vars == <<store, up, op, queue, acked, read, seen, requests, late, crashes, bound>>

Unhandled ==
  { "overlap",         \* a request is led while another server leads a write
    "crash_in_write",  \* a leader stops with a write under way
    "indeterminate",   \* a write ends without a majority: RETRY indeterminate
    "dump_missed",     \* a peer that answered PING does not answer DUMP
    "refused",         \* a peer answers ERROR
    "late_request" }   \* a client's request is led after the client gave it up

\* ReplicaValue; a tombstone is the value Nil.
ReplicaValue == [version : Nat, committed : BOOLEAN, value : Values \union {Nil}]

\* No record: a read gives NIL, the next version is 1 and every merge replaces.
NoRecord == [version |-> 0, committed |-> TRUE, value |-> Nil]

Idle == [call |-> "none"]

NoRead == [floor |-> NoRecord, record |-> NoRecord]

First(ids) == CHOOSE i \in ids : \A j \in ids : i <= j

Init ==
  /\ store = [i \in Nodes |-> NoRecord]
  /\ up = Nodes
  /\ op = [i \in Nodes |-> Idle]
  /\ queue = [i \in Nodes |-> <<>>]
  /\ acked = NoRecord
  /\ read = NoRead
  /\ seen = {}
  /\ requests = 0 /\ late = 0 /\ crashes = 0
  /\ bound \in Bounds

-----------------------------------------------------------------------------
(* The handlers for requests from other servers.                           *)

\* Mutant of merge: an older version replaces a newer one.
merge_any(current, incoming) ==
  IF incoming.version > 0 THEN incoming ELSE current

\* Mutant of merge: the same version always replaces.
merge_same(current, incoming) ==
  IF incoming.version >= current.version THEN incoming ELSE current

merge(current, incoming) ==
  IF \/ incoming.version > current.version
     \/ /\ incoming.version = current.version
        /\ incoming.committed /\ ~current.committed
  THEN incoming ELSE current

\* Mutant of CommitVersion: the comparison is off by one.
CommitLaterVersion(current, version) ==
  IF current.version > version THEN [current EXCEPT !.committed = TRUE]
                               ELSE current

\* COMMIT: only the record of this version is marked.
CommitVersion(current, version) ==
  IF current.version = version THEN [current EXCEPT !.committed = TRUE]
                               ELSE current

Repl(record) == [type |-> "REPL", record |-> record]
Commit(version) == [type |-> "COMMIT", version |-> version]

\* PUT, DELETE and GET.
ClientRequest(call, value) == [type |-> "CLIENT", call |-> call, value |-> value]

\* The words of a request are what split_whitespace leaves of it.  The value of
\* a tombstone is the empty string, so its REPL has four words instead of five
\* and is an unknown request.
Understood(request) == request.type = "REPL" => request.record.value # Nil

\* What handling a request makes of the record.  REPL and COMMIT answer OK
\* whether or not they changed anything; an unknown request answers ERROR.
Handle(current, request) ==
  CASE ~Understood(request)       -> current
    [] Understood(request) /\ request.type = "REPL"
                                  -> merge(current, request.record)
    [] request.type = "COMMIT"    -> CommitVersion(current, request.version)

\* DUMP lists the committed record.
Dump(current) == IF current.committed THEN current ELSE NoRecord

-----------------------------------------------------------------------------
(* Requests between servers: request_peer_fast.                            *)

\* The server takes the next connection at once.
Responsive(p) == p \in up /\ op[p] = Idle /\ queue[p] = <<>>

\* Server n works on the request in op[n] with next as its following state.
Proceeds(n, next) == op' = [op EXCEPT ![n] = next]

\* Server p handles the request and its answer arrives in time.
Answered(p, request) ==
  /\ Responsive(p)
  /\ store' = [store EXCEPT ![p] = Handle(@, request)]
  /\ UNCHANGED <<queue, late>>

\* Mutant of NotAnswered: requests reach a server that has stopped.
NotAnsweredAnyhow(p, request) ==
  /\ late < bound.late /\ late' = late + 1
  /\ queue' = [queue EXCEPT ![p] = Append(@, request)]
  /\ UNCHANGED store

\* The request fails: it waits in p's queue, or it never got there.
NotAnswered(p, request) ==
  /\ \/ /\ p \in up /\ late < bound.late /\ late' = late + 1
        /\ queue' = [queue EXCEPT ![p] = Append(@, request)]
     \/ UNCHANGED <<queue, late>>
  /\ UNCHANGED store

\* A request whose sender has given up is handled.
HandleLate(p) ==
  /\ p \in up /\ op[p] = Idle /\ queue[p] # <<>> /\ Head(queue[p]).type # "CLIENT"
  /\ store' = [store EXCEPT ![p] = Handle(@, Head(queue[p]))]
  /\ queue' = [queue EXCEPT ![p] = Tail(@)]
  /\ UNCHANGED <<up, op, acked, read, seen, requests, late, crashes>>

-----------------------------------------------------------------------------
(* Client requests.                                                        *)

\* alive_peers: the peers that are not blocked and answered the PING in time.
\* ADMIN_BLOCK and a lost PING have the same effect, so any of the peers that
\* could answer may be missing.
AlivePeers(n) == SUBSET {p \in Nodes \ {n} : p \in up /\ op[p] = Idle}

\* The server leads the request: it is the smallest of those alive and not in
\* the minority.  Otherwise the answer is REDIRECT or RETRY no-quorum.
Leads(n, alive) ==
  /\ \A p \in alive : n < p
  /\ ~(Cardinality(alive) + 1 <= (Cardinality(Nodes) - 1) \div 2)

Writing(n) == op[n].call = "write"

\* client_write and client_read up to catch_up.  The conditions are those that
\* the request itself meets.
Lead(n, call, value, alive, conditions) ==
  /\ requests < bound.requests /\ requests' = requests + 1
  /\ n \in up /\ op[n] = Idle /\ Leads(n, alive)
  /\ Proceeds(n, [call |-> call, value |-> value, alive |-> alive,
                  left |-> alive, phase |-> "catch_up",
                  floor |-> IF call = "read" THEN acked ELSE NoRecord,
                  record |-> NoRecord, oks |-> {}])
  /\ seen' = seen \union conditions \union
             (IF \E m \in Nodes : Writing(m) \/ (call = "write" /\ op[m] # Idle)
              THEN {"overlap"} ELSE {})
  /\ read' = NoRead
  /\ UNCHANGED <<store, up, acked, late, crashes>>

client_write(n, value, alive) == Lead(n, "write", value, alive, {}) /\ UNCHANGED queue

client_read(n, alive) == Lead(n, "read", Nil, alive, {}) /\ UNCHANGED queue

\* catch_up asks the next peer for its records and merges them; a peer that
\* does not answer is passed over.
CatchUp(n) ==
  /\ op[n] # Idle /\ op[n].phase = "catch_up" /\ op[n].left # {}
  /\ LET p == First(op[n].left) IN
       /\ \/ /\ Responsive(p)
             /\ store' = [store EXCEPT ![n] = merge(@, Dump(store[p]))]
             /\ UNCHANGED seen
          \/ UNCHANGED store /\ seen' = seen \union {"dump_missed"}
       /\ Proceeds(n, [op[n] EXCEPT !.left = @ \ {p}])
  /\ UNCHANGED <<up, queue, acked, read, requests, late, crashes>>

CaughtUp(n, call) ==
  op[n].call = call /\ op[n].phase = "catch_up" /\ op[n].left = {}

\* The rest of client_read: the value of a committed record, NIL otherwise.
AnswerRead(n) ==
  /\ CaughtUp(n, "read")
  /\ read' = [floor |-> op[n].floor, record |-> store[n]]
  /\ Proceeds(n, Idle)
  /\ UNCHANGED <<store, up, queue, acked, seen, requests, late, crashes>>

\* client_write picks the next version and stages it on the peers.
ChooseVersion(n) ==
  /\ CaughtUp(n, "write")
  /\ Proceeds(n, [op[n] EXCEPT !.phase = "stage", !.left = op[n].alive,
                     !.record = [version |-> store[n].version + 1,
                                 committed |-> FALSE, value |-> op[n].value]])
  /\ UNCHANGED <<store, up, queue, acked, read, seen, requests, late, crashes>>

\* One request to the next peer, which is counted when it answers OK.
Send(n, phase, request) ==
  /\ Writing(n) /\ op[n].phase = phase /\ op[n].left # {}
  /\ LET p == First(op[n].left) IN
       \/ /\ Answered(p, request) /\ Understood(request)
          /\ Proceeds(n, [op[n] EXCEPT !.left = @ \ {p}, !.oks = @ \union {p}])
          /\ UNCHANGED seen
       \/ /\ Answered(p, request) /\ ~Understood(request)
          /\ Proceeds(n, [op[n] EXCEPT !.left = @ \ {p}])
          /\ seen' = seen \union {"refused"}
       \/ /\ NotAnswered(p, request)
          /\ Proceeds(n, [op[n] EXCEPT !.left = @ \ {p}])
          /\ UNCHANGED seen
  /\ UNCHANGED <<up, acked, read, requests, crashes>>

Stage(n) == Send(n, "stage", Repl(op[n].record))
SendCommit(n) == Send(n, "commit", Commit(op[n].record.version))

\* Mutant of Majority: half of the leader's peers.
MajorityOfPeers(oks) == 2 * (Cardinality(oks) + 1) >= Cardinality(Nodes) - 1

\* The peers in oks and the leader are more than half of the cluster.
Majority(oks) == 2 * (Cardinality(oks) + 1) > Cardinality(Nodes)

\* RETRY indeterminate.
GiveUp(n) ==
  /\ Proceeds(n, Idle)
  /\ seen' = seen \union {"indeterminate"}

\* All peers have been sent the record: commit it here, or give up.
Decide(n) ==
  /\ Writing(n) /\ op[n].phase = "stage" /\ op[n].left = {}
  /\ \/ /\ Majority(op[n].oks)
        /\ store' = [store EXCEPT
             ![n] = merge(@, [op[n].record EXCEPT !.committed = TRUE])]
        /\ Proceeds(n, [op[n] EXCEPT !.phase = "commit", !.left = op[n].oks,
                                     !.oks = {}])
        /\ UNCHANGED seen
     \/ ~Majority(op[n].oks) /\ GiveUp(n) /\ UNCHANGED store
  /\ UNCHANGED <<up, queue, acked, read, requests, late, crashes>>

\* The commit round is over: OK on a majority.
AnswerWrite(n) ==
  /\ Writing(n) /\ op[n].phase = "commit" /\ op[n].left = {}
  /\ \/ /\ Majority(op[n].oks)
        /\ acked' = merge(acked, [op[n].record EXCEPT !.committed = TRUE])
        /\ Proceeds(n, Idle)
        /\ UNCHANGED seen
     \/ ~Majority(op[n].oks) /\ GiveUp(n) /\ UNCHANGED acked
  /\ UNCHANGED <<store, up, queue, read, requests, late, crashes>>

-----------------------------------------------------------------------------
\* The process is killed: its connections are gone, its store is durable.
Stop(n) ==
  /\ n \in up /\ crashes < bound.crashes /\ crashes' = crashes + 1
  /\ up' = up \ {n}
  /\ Proceeds(n, Idle)
  /\ queue' = [queue EXCEPT ![n] = <<>>]
  /\ seen' = IF Writing(n) THEN seen \union {"crash_in_write"} ELSE seen
  /\ UNCHANGED <<store, acked, read, requests, late>>

\* bind opens the store again.
Start(n) ==
  /\ n \notin up /\ up' = up \union {n}
  /\ UNCHANGED <<store, op, queue, acked, read, seen, requests, late, crashes>>

Next ==
  UNCHANGED bound /\ \E n \in Nodes :
    \/ \E alive \in AlivePeers(n) :
         \/ \E value \in Values \union {Nil} : client_write(n, value, alive)
         \/ client_read(n, alive)
    \/ CatchUp(n) \/ AnswerRead(n)
    \/ ChooseVersion(n) \/ Stage(n) \/ Decide(n) \/ SendCommit(n) \/ AnswerWrite(n)
    \/ HandleLate(n) \/ Stop(n) \/ Start(n)

Spec == Init /\ [][Next]_vars

-----------------------------------------------------------------------------
Requests == [type : {"REPL"}, record : ReplicaValue]
            \union [type : {"COMMIT"}, version : Nat]
            \union [type : {"CLIENT"}, call : {"write", "read"}, value : Values \union {Nil}]

\* The shape of the state; an idle server is the only one that is stopped.
TypeOK ==
  /\ store \in [Nodes -> ReplicaValue]
  /\ up \subseteq Nodes
  /\ \A n \in Nodes : /\ queue[n] \in Seq(Requests)
                      /\ n \notin up => op[n] = Idle /\ queue[n] = <<>>
                      /\ op[n] # Idle => op[n].left \subseteq Nodes \ {n}
  /\ acked \in ReplicaValue
  /\ read \in [floor : ReplicaValue, record : ReplicaValue]
  /\ seen \subseteq Unhandled

\* The version a server stores never goes back, and a record once committed
\* is replaced only by one of a higher version, whatever requests arrive late
\* or out of order.
RecordsAdvance ==
  [][\A n \in Nodes :
       \/ store'[n].version > store[n].version
       \/ /\ store'[n].version = store[n].version
          /\ store'[n].value = store[n].value \/ ~store[n].committed
          /\ store[n].committed => store'[n].committed]_store

\* Every acknowledged version is stored by a majority, in that version or a
\* later one, from the moment client_write answers OK and for good.
AckedOnMajority ==
  2 * Cardinality({n \in Nodes : store[n].version >= acked.version})
    > Cardinality(Nodes)

\* "Acknowledged writes remain readable" (README.md): a read finds a committed
\* record that is at least as new as what had been acknowledged when the read
\* began, and the acknowledged value if it is of that version.
ReadsSeeAcked ==
  read.floor.version > 0 =>
    /\ read.record.committed
    /\ read.record.version >= read.floor.version
    /\ read.record.version = read.floor.version
         => read.record.value = read.floor.value

\* ReadsSeeAcked, as long as no request overlapped a write led by another
\* server, no leader stopped with a write under way, no write was abandoned and
\* every live peer answered DUMP: servers that stop and start between writes,
\* peers that miss REPL and COMMIT requests and requests that are handled late
\* lose nothing.
ReadsSeeAckedOtherwise == seen = {} => ReadsSeeAcked

\* "Acknowledged writes remain readable across leader death" (README.md):
\* ReadsSeeAcked when the only failure is a leader that stops.
LeaderDeathKeepsAcked == seen \subseteq {"crash_in_write"} => ReadsSeeAcked

\* No server answers ERROR to a request that another server sends it: what a
\* leader stages, for a PUT or for a DELETE, its peers can stage.
NoRequestRefused == "refused" \notin seen

\* Under the conditions of ReadsSeeAckedOtherwise two servers never hold
\* different committed values of one version.
CommittedAgree ==
  seen = {} =>
    \A m, n \in Nodes :
      (/\ store[m].committed /\ store[n].committed
       /\ store[m].version = store[n].version) => store[m] = store[n]
=============================================================================
