---------------------------- MODULE ServerProofs ----------------------------
(***************************************************************************)
(* Proofs about the TCP cluster, for every finite set of servers, every    *)
(* set of values and all bounds.                                           *)
(***************************************************************************)
EXTENDS Server, Integers, TLAPS

-----------------------------------------------------------------------------
\* The inductive invariant.

Peers(n) == Nodes \ {n}

\* A request that server n works on.
Operation(n) ==
  [call : {"write", "read"}, value : Values \union {Nil},
   alive : SUBSET Peers(n), left : SUBSET Peers(n),
   phase : {"catch_up", "stage", "commit"},
   floor : ReplicaValue, record : ReplicaValue, oks : SUBSET Peers(n)]

\* What a server may be doing.
Work == {Idle} \union UNION {Operation(n) : n \in Nodes}

Staging(n) == op[n] # Idle /\ op[n].phase = "stage"
Committing(n) == op[n] # Idle /\ op[n].phase = "commit"
CatchingUp(n) == op[n] # Idle /\ op[n].phase = "catch_up"

TypeInv ==
  /\ store \in [Nodes -> ReplicaValue]
  /\ up \subseteq Nodes
  /\ op \in [Nodes -> Work]
  /\ \A n \in Nodes : op[n] # Idle => op[n] \in Operation(n)
  /\ queue \in [Nodes -> Seq(Requests)]
  /\ \A n \in Nodes : n \notin up => op[n] = Idle /\ queue[n] = <<>>
  /\ acked \in ReplicaValue
  /\ read \in [floor : ReplicaValue, record : ReplicaValue]
  /\ seen \subseteq Unhandled

\* Who has answered OK to REPL holds the record or a later one, and so does
\* the leader once it sends COMMIT.
StagedAt(n) ==
  /\ Staging(n) \/ Committing(n) => Writing(n)
  /\ CatchingUp(n) => op[n].oks = {}
  /\ Staging(n) => \A p \in op[n].oks : store[p].version >= op[n].record.version
  /\ Committing(n) => \A p \in op[n].oks \union op[n].left \union {n} :
                        store[p].version >= op[n].record.version

StagedInv == \A n \in Nodes : StagedAt(n)

MajorityOf(S) == 2 * Cardinality(S) > Cardinality(Nodes)

-----------------------------------------------------------------------------
\* Lemmas about records, requests and the operations in progress.

\* What the proofs use of the naturals and of finite sets.  The lemmas take it as
\* a hypothesis, and the theorems discharge it by SetFactsHold: so the library's
\* theorems on finite sets are in scope only where they are needed.
SetFacts ==
  /\ \A T \in SUBSET Nat : T # {} => \E x \in T : \A y \in T : x <= y
  /\ \A S \in SUBSET Nodes : Cardinality(S) \in Nat
  /\ \A S, T \in SUBSET Nodes : S \subseteq T => Cardinality(S) <= Cardinality(T)
  /\ \A S, T \in SUBSET Nodes :
       S \cap T = {} => Cardinality(S) + Cardinality(T) <= Cardinality(Nodes)
  /\ \A S \in SUBSET Nodes : \A n \in Nodes \ S : Cardinality(S \union {n}) = Cardinality(S) + 1
  /\ Cardinality(Nodes) # 0

\* First picks a member: the ids of a cluster are numbers.
LEMMA FirstIsIn ==
  ASSUME SetFacts, NEW ids, ids \subseteq Nodes, ids # {}
  PROVE  First(ids) \in ids
<1>1. ids \in SUBSET Nat
  BY ServerAssumption
<1>2. \E i \in ids : \A j \in ids : i <= j
  BY <1>1, Zenon DEF SetFacts
<1>. QED  BY <1>2 DEF First

\* The missing record is a record of version 0.
LEMMA NoRecordType == NoRecord \in ReplicaValue
BY DEF NoRecord, ReplicaValue

\* merge keeps one of the two records, and never loses a version.
LEMMA MergeIs ==
  ASSUME NEW current \in ReplicaValue, NEW incoming \in ReplicaValue
  PROVE  /\ merge(current, incoming) \in {current, incoming}
         /\ merge(current, incoming) \in ReplicaValue
         /\ merge(current, incoming).version >= current.version
         /\ merge(current, incoming).version >= incoming.version
         /\ merge(current, incoming).version = current.version =>
              /\ current.committed => merge(current, incoming) = current
              /\ incoming.version = current.version /\ incoming.committed
                   => merge(current, incoming).committed
BY DEF merge, ReplicaValue

\* COMMIT changes at most the mark of a record.
LEMMA CommitVersionIs ==
  ASSUME NEW current \in ReplicaValue, NEW version \in Nat
  PROVE  /\ CommitVersion(current, version) \in ReplicaValue
         /\ CommitVersion(current, version).version = current.version
         /\ CommitVersion(current, version).value = current.value
         /\ current.committed => CommitVersion(current, version) = current
         /\ current.version = version => CommitVersion(current, version).committed
BY Zenon DEF CommitVersion, ReplicaValue

\* The requests that servers send each other.
LEMMA RequestTypes ==
  /\ \A r \in ReplicaValue : Repl(r) \in Requests /\ Repl(r).type = "REPL"
                             /\ Repl(r).record = r
  /\ \A v \in Nat : Commit(v) \in Requests /\ Commit(v).type = "COMMIT"
                    /\ Commit(v).version = v
  /\ \A r \in Requests :
       /\ r.type \in {"REPL", "COMMIT", "CLIENT"}
       /\ r.type = "REPL" => r.record \in ReplicaValue
       /\ r.type = "COMMIT" => r.version \in Nat
BY DEF Repl, Commit, Requests

\* What a request between servers does to a record: it stays, it becomes the
\* staged one, or it is marked.
LEMMA HandleIs ==
  ASSUME NEW current \in ReplicaValue, NEW request \in Requests,
         request.type # "CLIENT"
  PROVE  /\ Handle(current, request) \in ReplicaValue
         /\ Handle(current, request).version >= current.version
         /\ Handle(current, request).version = current.version =>
              /\ current.committed => Handle(current, request) = current
         /\ \/ /\ Handle(current, request).version = current.version
               /\ Handle(current, request).value = current.value
            \/ request.type = "REPL" /\ Handle(current, request) = request.record
         /\ request.type = "REPL" /\ Understood(request) =>
              Handle(current, request).version >= request.record.version
         /\ request.type = "COMMIT" =>
              Handle(current, request) = CommitVersion(current, request.version)
<1>1. CASE request.type = "REPL" /\ Understood(request)
  <2>1. request.record \in ReplicaValue
    BY <1>1, RequestTypes
  <2>2. Handle(current, request) = merge(current, request.record)
    BY <1>1 DEF Handle
  <2>. QED  BY <1>1, <2>1, <2>2, MergeIs DEF ReplicaValue
<1>2. CASE request.type = "REPL" /\ ~Understood(request)
  <2>1. Handle(current, request) = current
    BY <1>2 DEF Handle
  <2>. QED  BY <1>2, <2>1 DEF ReplicaValue
<1>3. CASE request.type = "COMMIT"
  <2>1. Understood(request)
    BY <1>3 DEF Understood
  <2>2. Handle(current, request) = CommitVersion(current, request.version)
    BY <1>3, <2>1 DEF Handle
  <2>3. request.version \in Nat
    BY <1>3, RequestTypes
  <2>. QED  BY <1>3, <2>2, <2>3, CommitVersionIs DEF ReplicaValue
<1>. QED  BY <1>1, <1>2, <1>3, RequestTypes

-----------------------------------------------------------------------------
\* Types.

\* A request in progress is not Idle.
LEMMA OperationIsNotIdle ==
  ASSUME NEW n, NEW o \in Operation(n)
  PROVE  o # Idle /\ o.call \in {"write", "read"}
BY DEF Operation, Idle

\* Server n goes on with its request: nobody else's request changes.
LEMMA ProceedsIs ==
  ASSUME TypeInv, NEW n \in Nodes, NEW next, Proceeds(n, next),
         next = Idle \/ next \in Operation(n)
  PROVE  /\ op' \in [Nodes -> Work]
         /\ \A m \in Nodes : op'[m] # Idle => op'[m] \in Operation(m)
         /\ op'[n] = next
         /\ \A m \in Nodes : m # n => op'[m] = op[m]
BY DEF TypeInv, Proceeds, Work

\* The fields of a request in progress.
LEMMA OperationFields ==
  ASSUME NEW n, NEW o \in Operation(n)
  PROVE  /\ o.value \in Values \union {Nil}
         /\ o.alive \subseteq Peers(n)
         /\ o.left \subseteq Peers(n) /\ o.oks \subseteq Peers(n)
         /\ o.phase \in {"catch_up", "stage", "commit"}
         /\ o.floor \in ReplicaValue /\ o.record \in ReplicaValue
BY DEF Operation

\* A request whose list of peers changes is still one.
LEMMA OperationUpdates ==
  ASSUME NEW n, NEW o \in Operation(n), NEW left \in SUBSET Peers(n),
         NEW oks \in SUBSET Peers(n)
  PROVE  /\ [o EXCEPT !.left = left] \in Operation(n)
         /\ [o EXCEPT !.left = left, !.oks = oks] \in Operation(n)
BY Zenon DEF Operation

\* Beginning a request keeps the types.
LEMMA LeadType ==
  ASSUME NEW n \in Nodes, NEW call \in {"write", "read"},
         NEW value \in Values \union {Nil}, NEW alive \in AlivePeers(n),
         TypeInv, Lead(n, call, value, alive, {}), UNCHANGED queue
  PROVE  TypeInv'
<1> DEFINE next == [call |-> call, value |-> value, alive |-> alive,
                    left |-> alive, phase |-> "catch_up",
                    floor |-> IF call = "read" THEN acked ELSE NoRecord,
                    record |-> NoRecord, oks |-> {}]
<1>1. alive \subseteq Peers(n)
  BY DEF AlivePeers, Peers
<1>2. next \in Operation(n)
  BY <1>1, NoRecordType DEF Operation, TypeInv
<1>3. Proceeds(n, next)
  BY DEF Lead
<1> HIDE DEF next
<1>4. /\ op' \in [Nodes -> Work]
      /\ \A m \in Nodes : op'[m] # Idle => op'[m] \in Operation(m)
      /\ \A m \in Nodes : m # n => op'[m] = op[m]
  BY <1>2, <1>3, ProceedsIs
<1>5. seen' \subseteq Unhandled
  BY DEF Lead, TypeInv, Unhandled
<1>6. read' \in [floor : ReplicaValue, record : ReplicaValue]
  BY NoRecordType DEF Lead, NoRead
<1>. QED  BY <1>4, <1>5, <1>6 DEF Lead, TypeInv

\* The three ends of a request to peer p: OK, ERROR, or no answer in time.
SendOutcome(n, p, request) ==
  \/ /\ op'[n] = [op[n] EXCEPT !.left = @ \ {p}, !.oks = @ \union {p}]
     /\ Understood(request)
     /\ store' = [store EXCEPT ![p] = Handle(@, request)]
     /\ UNCHANGED <<queue, seen>>
  \/ /\ op'[n] = [op[n] EXCEPT !.left = @ \ {p}]
     /\ ~Understood(request)
     /\ store' = [store EXCEPT ![p] = Handle(@, request)]
     /\ UNCHANGED queue /\ seen' = seen \union {"refused"}
  \/ /\ op'[n] = [op[n] EXCEPT !.left = @ \ {p}]
     /\ UNCHANGED <<store, seen>>
     /\ \/ UNCHANGED queue
        \/ p \in up /\ queue' = [queue EXCEPT ![p] = Append(@, request)]

\* One request to a peer: what the request changes at the peer, and what its
\* sender notes.
LEMMA SendIs ==
  ASSUME SetFacts, TypeInv, NEW n \in Nodes, NEW phase, NEW request \in Requests,
         Send(n, phase, request)
  PROVE  /\ op[n] \in Operation(n) /\ op[n].phase = phase /\ Writing(n)
         /\ UNCHANGED <<up, acked, read>>
         /\ \A m \in Nodes : m # n => op'[m] = op[m]
         /\ \E p \in op[n].left : p \in Nodes /\ p # n /\ SendOutcome(n, p, request)
<1>1. op[n] \in Operation(n) /\ op[n].phase = phase /\ Writing(n)
  BY DEF Send, Writing, TypeInv, Idle
<1>2. op[n].left # {} /\ op[n].left \subseteq Peers(n)
  BY <1>1, OperationFields DEF Send
<1> DEFINE p == First(op[n].left)
<1>3. p \in op[n].left /\ p \in Nodes /\ p # n
  BY <1>2, FirstIsIn DEF Peers
<1>4. \A next : Proceeds(n, next) =>
        op'[n] = next /\ \A m \in Nodes : m # n => op'[m] = op[m]
  BY DEF Proceeds, TypeInv
<1> HIDE DEF p
<1>5. UNCHANGED <<up, acked, read>>
  BY DEF Send
<1>6. \/ /\ Proceeds(n, [op[n] EXCEPT !.left = @ \ {p}, !.oks = @ \union {p}])
         /\ Understood(request)
         /\ Answered(p, request)
         /\ UNCHANGED seen
      \/ /\ Proceeds(n, [op[n] EXCEPT !.left = @ \ {p}])
         /\ ~Understood(request)
         /\ Answered(p, request)
         /\ seen' = seen \union {"refused"}
      \/ /\ Proceeds(n, [op[n] EXCEPT !.left = @ \ {p}])
         /\ NotAnswered(p, request)
         /\ UNCHANGED seen
  BY Zenon DEF Send, p
<1>7. SendOutcome(n, p, request)
  BY <1>4, <1>6 DEF Answered, NotAnswered, SendOutcome
<1>8. \A m \in Nodes : m # n => op'[m] = op[m]
  BY <1>4, <1>6
<1>. QED  BY <1>1, <1>3, <1>5, <1>7, <1>8

\* A record that is changed to another one.
LEMMA StoreType ==
  ASSUME TypeInv, NEW p \in Nodes, NEW r \in ReplicaValue,
         store' = [store EXCEPT ![p] = r]
  PROVE  /\ store' \in [Nodes -> ReplicaValue]
         /\ store'[p] = r
         /\ \A m \in Nodes : m # p => store'[m] = store[m]
BY DEF TypeInv

\* A request to a peer, answered, lost or queued, keeps the types.
LEMMA SendType ==
  ASSUME SetFacts, TypeInv, NEW n \in Nodes, NEW phase, NEW request \in Requests,
         request.type # "CLIENT", Send(n, phase, request)
  PROVE  TypeInv'
<1>1. PICK p \in op[n].left : p \in Nodes /\ p # n /\ SendOutcome(n, p, request)
  BY SendIs
<1>2. /\ op[n] \in Operation(n) /\ \A m \in Nodes : m # n => op'[m] = op[m]
      /\ UNCHANGED <<up, acked, read>>
  BY SendIs
<1>3. op'[n] \in Operation(n)
  <2>1. \/ op'[n] = [op[n] EXCEPT !.left = @ \ {p}, !.oks = @ \union {p}]
        \/ op'[n] = [op[n] EXCEPT !.left = @ \ {p}]
    BY <1>1 DEF SendOutcome
  <2>2. /\ op[n].left \ {p} \in SUBSET Peers(n)
        /\ op[n].oks \union {p} \in SUBSET Peers(n)
    BY <1>1, <1>2, OperationFields DEF Peers
  <2>3. [op[n] EXCEPT !.left = @ \ {p}] \in Operation(n)
    BY <1>2, <2>2, OperationUpdates, ZenonT(30)
  <2>4. [op[n] EXCEPT !.left = @ \ {p}, !.oks = @ \union {p}] \in Operation(n)
    BY <1>2, <2>2, OperationUpdates, Zenon
  <2>. QED  BY <2>1, <2>3, <2>4
<1>4. op' \in [Nodes -> Work]
  <2>1. \E next : Proceeds(n, next)
    BY Zenon DEF Send
  <2>. QED  BY <1>2, <1>3, <2>1 DEF Proceeds, TypeInv, Work
<1>5. store' \in [Nodes -> ReplicaValue]
  <2>1. Handle(store[p], request) \in ReplicaValue
    BY <1>1, HandleIs DEF TypeInv
  <2>. QED  BY <1>1, <2>1 DEF TypeInv, SendOutcome
<1>6. /\ queue' \in [Nodes -> Seq(Requests)]
      /\ \A m \in Nodes : m \notin up => queue'[m] = queue[m]
  <2>1. \/ UNCHANGED queue
        \/ p \in up /\ queue' = [queue EXCEPT ![p] = Append(@, request)]
    BY <1>1 DEF SendOutcome
  <2>2. queue[p] \in Seq(Requests)
    BY <1>1 DEF TypeInv
  <2>3. Append(queue[p], request) \in Seq(Requests)
    BY <2>2
  <2>. QED  BY <1>1, <2>1, <2>3, Zenon DEF TypeInv
<1>7. n \in up
  BY <1>2, OperationIsNotIdle DEF TypeInv
<1>8. seen' \subseteq Unhandled
  BY <1>1 DEF TypeInv, Unhandled, SendOutcome
<1>9. \A m \in Nodes : op'[m] # Idle => op'[m] \in Operation(m)
  BY <1>2, <1>3 DEF TypeInv
<1>10. \A m \in Nodes : m \notin up' => op'[m] = Idle /\ queue'[m] = <<>>
  BY <1>2, <1>6, <1>7 DEF TypeInv
<1>. QED  BY <1>2, <1>4, <1>5, <1>6, <1>8, <1>9, <1>10 DEF TypeInv

\* A step of the server's own request, with no request sent, keeps the types.
LEMMA ProceedsType ==
  ASSUME TypeInv, NEW n \in Nodes, NEW next, Proceeds(n, next),
         next = Idle \/ (n \in up /\ next \in Operation(n)),
         store' \in [Nodes -> ReplicaValue], UNCHANGED <<up, queue>>,
         acked' \in ReplicaValue, seen' \subseteq Unhandled,
         read' \in [floor : ReplicaValue, record : ReplicaValue]
  PROVE  TypeInv'
<1>1. /\ op' \in [Nodes -> Work]
      /\ \A m \in Nodes : op'[m] # Idle => op'[m] \in Operation(m)
      /\ op'[n] = next
      /\ \A m \in Nodes : m # n => op'[m] = op[m]
  BY ProceedsIs
<1>2. \A m \in Nodes : m \notin up' => op'[m] = Idle /\ queue'[m] = <<>>
  BY <1>1 DEF TypeInv
<1>. QED  BY <1>1, <1>2 DEF TypeInv

\* A server that works on a request runs, and its request has a shape.
LEMMA WorkingIs ==
  ASSUME TypeInv, NEW n \in Nodes, op[n] # Idle
  PROVE  op[n] \in Operation(n) /\ n \in up
BY DEF TypeInv

\* catch_up asks one peer.
LEMMA CatchUpIs ==
  ASSUME SetFacts, TypeInv, NEW n \in Nodes, CatchUp(n)
  PROVE  /\ op[n] \in Operation(n) /\ CatchingUp(n)
         /\ UNCHANGED <<up, queue, acked, read>>
         /\ \E p \in op[n].left :
              /\ p \in Nodes /\ p # n
              /\ Proceeds(n, [op[n] EXCEPT !.left = @ \ {p}])
              /\ \/ /\ store' = [store EXCEPT ![n] = merge(@, Dump(store[p]))]
                    /\ UNCHANGED seen
                 \/ UNCHANGED store /\ seen' = seen \union {"dump_missed"}
<1>1. op[n] \in Operation(n) /\ CatchingUp(n)
  BY DEF CatchUp, CatchingUp, TypeInv
<1>2. op[n].left # {} /\ op[n].left \subseteq Peers(n)
  BY <1>1, OperationFields DEF CatchUp
<1>3. First(op[n].left) \in op[n].left
  BY <1>2, FirstIsIn DEF Peers
<1>4. First(op[n].left) \in Nodes /\ First(op[n].left) # n
  BY <1>2, <1>3 DEF Peers
<1>. QED  BY <1>1, <1>3, <1>4, Zenon DEF CatchUp

\* What DUMP answers is a record.
LEMMA DumpType ==
  ASSUME NEW r \in ReplicaValue
  PROVE  Dump(r) \in ReplicaValue
BY NoRecordType DEF Dump

\* Catching up with a peer keeps the types.
LEMMA CatchUpType ==
  ASSUME SetFacts, TypeInv, NEW n \in Nodes, CatchUp(n)
  PROVE  TypeInv'
<1>1. PICK p \in op[n].left :
              /\ p \in Nodes /\ p # n
              /\ Proceeds(n, [op[n] EXCEPT !.left = @ \ {p}])
              /\ \/ /\ store' = [store EXCEPT ![n] = merge(@, Dump(store[p]))]
                    /\ UNCHANGED seen
                 \/ UNCHANGED store /\ seen' = seen \union {"dump_missed"}
  BY CatchUpIs
<1>2. op[n] \in Operation(n) /\ n \in up /\ UNCHANGED <<up, queue, acked, read>>
  BY CatchUpIs, WorkingIs DEF CatchingUp
<1>3. [op[n] EXCEPT !.left = @ \ {p}] \in Operation(n)
  <2>1. op[n].left \ {p} \in SUBSET Peers(n) /\ op[n].oks \in SUBSET Peers(n)
    BY <1>2, OperationFields
  <2>. QED  BY <1>2, <2>1, OperationUpdates, Zenon
<1>4. store' \in [Nodes -> ReplicaValue]
  <2>1. merge(store[n], Dump(store[p])) \in ReplicaValue
    BY <1>1, DumpType, MergeIs DEF TypeInv
  <2>. QED  BY <1>1, <2>1, Zenon DEF TypeInv
<1>5. seen' \subseteq Unhandled
  BY <1>1 DEF TypeInv, Unhandled
<1>6. acked' \in ReplicaValue /\ read' \in [floor : ReplicaValue, record : ReplicaValue]
  BY <1>2 DEF TypeInv
<1> HIDE DEF Proceeds
<1>. QED  BY <1>1, <1>2, <1>3, <1>4, <1>5, <1>6, ProceedsType

\* Answering a read keeps the types.
LEMMA AnswerReadType ==
  ASSUME TypeInv, NEW n \in Nodes, AnswerRead(n)
  PROVE  TypeInv'
<1>1. op[n] \in Operation(n)
  BY DEF AnswerRead, CaughtUp, TypeInv, Idle
<1>2. read' \in [floor : ReplicaValue, record : ReplicaValue]
  BY <1>1, OperationFields DEF AnswerRead, TypeInv
<1>3. store' \in [Nodes -> ReplicaValue] /\ acked' \in ReplicaValue /\ seen' \subseteq Unhandled
  BY DEF AnswerRead, TypeInv
<1>. QED  BY <1>2, <1>3, ProceedsType DEF AnswerRead

\* The record that client_write stages.
NewRecord(n) ==
  [version |-> store[n].version + 1, committed |-> FALSE, value |-> op[n].value]

\* client_write has caught up and begins to stage.
LEMMA ChooseVersionIs ==
  ASSUME TypeInv, NEW n \in Nodes, ChooseVersion(n)
  PROVE  /\ op[n] \in Operation(n) /\ CatchingUp(n) /\ Writing(n) /\ op[n].left = {}
         /\ Proceeds(n, op'[n]) /\ op'[n] \in Operation(n)
         /\ op'[n].phase = "stage" /\ op'[n].call = "write"
         /\ op'[n].record = NewRecord(n) /\ op'[n].oks = op[n].oks
         /\ NewRecord(n) \in ReplicaValue
         /\ UNCHANGED <<store, up, queue, acked, read, seen>>
<1>1. op[n] \in Operation(n) /\ CatchingUp(n) /\ Writing(n) /\ op[n].left = {}
  BY DEF ChooseVersion, CaughtUp, TypeInv, Idle, CatchingUp, Writing
<1>2. NewRecord(n) \in ReplicaValue
  BY <1>1, OperationFields DEF TypeInv, ReplicaValue, NewRecord
<1> DEFINE next == [op[n] EXCEPT !.phase = "stage", !.left = op[n].alive,
                                 !.record = NewRecord(n)]
<1>3. Proceeds(n, next)
  BY DEF ChooseVersion, NewRecord
<1>4. /\ next \in Operation(n) /\ next.phase = "stage" /\ next.call = "write"
      /\ next.record = NewRecord(n) /\ next.oks = op[n].oks
  BY <1>1, <1>2, Zenon DEF Operation, Writing
<1> HIDE DEF next
<1>5. op'[n] = next
  BY <1>3, <1>4, ProceedsIs
<1>. QED  BY <1>1, <1>2, <1>3, <1>4, <1>5 DEF ChooseVersion

\* Choosing the version of a write keeps the types.
LEMMA ChooseVersionType ==
  ASSUME TypeInv, NEW n \in Nodes, ChooseVersion(n)
  PROVE  TypeInv'
<1>1. /\ Proceeds(n, op'[n]) /\ op'[n] \in Operation(n) /\ n \in up
      /\ UNCHANGED <<store, up, queue, acked, read, seen>>
  BY ChooseVersionIs, WorkingIs DEF CatchingUp
<1>2. /\ store' \in [Nodes -> ReplicaValue] /\ acked' \in ReplicaValue
      /\ seen' \subseteq Unhandled
      /\ read' \in [floor : ReplicaValue, record : ReplicaValue]
  BY <1>1 DEF TypeInv
<1>. QED  BY <1>1, <1>2, ProceedsType

\* The record of a write, once it is committed.
CommittedRecord(n) == [op[n].record EXCEPT !.committed = TRUE]

\* The record of a write, as committed.
LEMMA CommittedRecordIs ==
  ASSUME TypeInv, NEW n \in Nodes, op[n] # Idle
  PROVE  /\ CommittedRecord(n) \in ReplicaValue
         /\ CommittedRecord(n).version = op[n].record.version
         /\ CommittedRecord(n).value = op[n].record.value
         /\ CommittedRecord(n).committed
<1>1. op[n].record \in ReplicaValue
  BY OperationFields DEF TypeInv
<1>. QED  BY <1>1, Zenon DEF ReplicaValue, CommittedRecord

\* Every peer has been sent the record.
LEMMA DecideIs ==
  ASSUME TypeInv, NEW n \in Nodes, Decide(n)
  PROVE  /\ op[n] \in Operation(n) /\ Staging(n) /\ Writing(n)
         /\ UNCHANGED <<up, queue, acked, read>>
         /\ \/ /\ Majority(op[n].oks)
               /\ store' = [store EXCEPT ![n] = merge(@, CommittedRecord(n))]
               /\ Proceeds(n, op'[n]) /\ op'[n] \in Operation(n)
               /\ op'[n].phase = "commit" /\ op'[n].call = "write"
               /\ op'[n].left = op[n].oks /\ op'[n].oks = {}
               /\ op'[n].record = op[n].record
               /\ UNCHANGED seen
            \/ /\ Proceeds(n, Idle) /\ UNCHANGED store
               /\ seen' = seen \union {"indeterminate"}
<1>1. op[n] \in Operation(n) /\ Staging(n) /\ Writing(n)
  BY DEF Decide, Writing, TypeInv, Idle, Staging
<1>2. CASE Majority(op[n].oks)
  <2> DEFINE next == [op[n] EXCEPT !.phase = "commit", !.left = op[n].oks, !.oks = {}]
  <2>1. Proceeds(n, next)
    BY <1>2 DEF Decide
  <2>2. /\ next \in Operation(n) /\ next.phase = "commit" /\ next.call = "write"
        /\ next.left = op[n].oks /\ next.oks = {} /\ next.record = op[n].record
    BY <1>1, Zenon DEF Operation, Writing
  <2> HIDE DEF next
  <2>3. op'[n] = next
    BY <2>1, <2>2, ProceedsIs
  <2>. QED  BY <1>1, <1>2, <2>1, <2>2, <2>3 DEF Decide, CommittedRecord
<1>3. CASE ~Majority(op[n].oks)
  BY <1>1, <1>3 DEF Decide, GiveUp
<1>. QED  BY <1>2, <1>3

\* Deciding whether a write has its majority keeps the types.
LEMMA DecideType ==
  ASSUME TypeInv, NEW n \in Nodes, Decide(n)
  PROVE  TypeInv'
<1>1. PICK next : Proceeds(n, next) /\ (next = Idle \/ next \in Operation(n))
  BY DecideIs
<1>2. n \in up /\ UNCHANGED <<up, queue, acked, read>>
  BY DecideIs, WorkingIs DEF Staging
<1>3. store' \in [Nodes -> ReplicaValue]
  <2>1. CommittedRecord(n) \in ReplicaValue
    BY DecideIs, CommittedRecordIs DEF Staging
  <2>2. merge(store[n], CommittedRecord(n)) \in ReplicaValue
    BY <2>1, MergeIs DEF TypeInv
  <2>3. \/ UNCHANGED store
        \/ store' = [store EXCEPT ![n] = merge(@, CommittedRecord(n))]
    BY DecideIs
  <2>. QED  BY <2>2, <2>3, Zenon DEF TypeInv
<1>4. seen' \subseteq Unhandled
  BY DecideIs, Zenon DEF TypeInv, Unhandled
<1>5. acked' \in ReplicaValue /\ read' \in [floor : ReplicaValue, record : ReplicaValue]
  BY <1>2 DEF TypeInv
<1>. QED  BY <1>1, <1>2, <1>3, <1>4, <1>5, ProceedsType

\* The commit round is over.
LEMMA AnswerWriteIs ==
  ASSUME TypeInv, NEW n \in Nodes, AnswerWrite(n)
  PROVE  /\ op[n] \in Operation(n) /\ Committing(n) /\ Writing(n) /\ op[n].left = {}
         /\ UNCHANGED <<store, up, queue, read>>
         /\ Proceeds(n, Idle)
         /\ \/ /\ Majority(op[n].oks)
               /\ acked' = merge(acked, CommittedRecord(n))
               /\ UNCHANGED seen
            \/ UNCHANGED acked /\ seen' = seen \union {"indeterminate"}
<1>1. op[n] \in Operation(n) /\ Committing(n) /\ Writing(n) /\ op[n].left = {}
  BY DEF AnswerWrite, Writing, TypeInv, Idle, Committing
<1>. QED  BY <1>1 DEF AnswerWrite, GiveUp, CommittedRecord

\* Answering a write keeps the types.
LEMMA AnswerWriteType ==
  ASSUME TypeInv, NEW n \in Nodes, AnswerWrite(n)
  PROVE  TypeInv'
<1>1. acked' \in ReplicaValue
  <2>1. CommittedRecord(n) \in ReplicaValue
    BY AnswerWriteIs, CommittedRecordIs DEF Committing
  <2>2. merge(acked, CommittedRecord(n)) \in ReplicaValue
    BY <2>1, MergeIs DEF TypeInv
  <2>. QED  BY <2>2, AnswerWriteIs DEF TypeInv
<1>2. seen' \subseteq Unhandled
  BY AnswerWriteIs, Zenon DEF TypeInv, Unhandled
<1>3. UNCHANGED <<store, up, queue, read>> /\ Proceeds(n, Idle)
  BY AnswerWriteIs
<1>4. /\ store' \in [Nodes -> ReplicaValue]
      /\ read' \in [floor : ReplicaValue, record : ReplicaValue]
  BY <1>3 DEF TypeInv
<1>. QED  BY <1>1, <1>2, <1>3, <1>4, ProceedsType

\* A request that has waited is handled.
LEMMA HandleLateIs ==
  ASSUME TypeInv, NEW p \in Nodes, HandleLate(p)
  PROVE  /\ queue[p] # <<>> /\ Head(queue[p]) \in Requests
         /\ Head(queue[p]).type # "CLIENT"
         /\ store' = [store EXCEPT ![p] = Handle(@, Head(queue[p]))]
         /\ Handle(store[p], Head(queue[p])) \in ReplicaValue
         /\ store' \in [Nodes -> ReplicaValue]
         /\ queue' = [queue EXCEPT ![p] = Tail(@)]
         /\ UNCHANGED <<up, op, acked, read, seen>>
<1>1. queue[p] \in Seq(Requests) /\ queue[p] # <<>> /\ Head(queue[p]).type # "CLIENT"
  BY DEF HandleLate, TypeInv
<1>2. Head(queue[p]) \in Requests
  BY <1>1
<1>3. Handle(store[p], Head(queue[p])) \in ReplicaValue
  BY <1>1, <1>2, HandleIs DEF TypeInv
<1>. QED  BY <1>1, <1>2, <1>3 DEF HandleLate, TypeInv

\* Handling a queued request keeps the types.
LEMMA HandleLateType ==
  ASSUME TypeInv, NEW p \in Nodes, HandleLate(p)
  PROVE  TypeInv'
<1>0. queue \in [Nodes -> Seq(Requests)] /\ queue[p] # <<>> /\ queue' = [queue EXCEPT ![p] = Tail(@)]
  BY HandleLateIs DEF TypeInv
<1>1. Tail(queue[p]) \in Seq(Requests)
  BY <1>0
<1>2. queue' \in [Nodes -> Seq(Requests)] /\ \A m \in Nodes : m # p => queue'[m] = queue[m]
  BY <1>0, <1>1
<1>3. p \in up
  BY DEF HandleLate
<1>. QED  BY <1>2, <1>3, HandleLateIs DEF TypeInv

\* A server that stops forgets its request and its queue.
LEMMA StopType ==
  ASSUME TypeInv, NEW n \in Nodes, Stop(n)
  PROVE  TypeInv'
<1>1. /\ op' \in [Nodes -> Work]
      /\ \A m \in Nodes : op'[m] # Idle => op'[m] \in Operation(m)
      /\ op'[n] = Idle
      /\ \A m \in Nodes : m # n => op'[m] = op[m]
  BY ProceedsIs DEF Stop
<1>2. <<>> \in Seq(Requests)
  OBVIOUS
<1>3. /\ queue' \in [Nodes -> Seq(Requests)] /\ queue'[n] = <<>>
      /\ \A m \in Nodes : m # n => queue'[m] = queue[m]
  BY <1>2 DEF Stop, TypeInv
<1>4. seen' \subseteq Unhandled
  BY DEF Stop, TypeInv, Unhandled
<1>. QED  BY <1>1, <1>3, <1>4 DEF Stop, TypeInv

\* A server that starts has only its store.
LEMMA StartType ==
  ASSUME TypeInv, NEW n \in Nodes, Start(n)
  PROVE  TypeInv'
BY DEF Start, TypeInv

\* The requests of the two rounds of client_write.
LEMMA SendRequests ==
  ASSUME TypeInv, NEW n \in Nodes
  PROVE  /\ Stage(n) => /\ Repl(op[n].record) \in Requests
                        /\ op[n].record \in ReplicaValue
                        /\ Send(n, "stage", Repl(op[n].record))
         /\ SendCommit(n) => /\ Commit(op[n].record.version) \in Requests
                             /\ op[n].record \in ReplicaValue
                             /\ Send(n, "commit", Commit(op[n].record.version))
<1>1. op[n] # Idle => op[n].record \in ReplicaValue
  BY OperationFields DEF TypeInv
<1>2. Stage(n) \/ SendCommit(n) => op[n] # Idle
  BY DEF Stage, SendCommit, Send, Writing, Idle
<1>3. \A r \in ReplicaValue : r.version \in Nat
  BY DEF ReplicaValue
<1>. QED  BY <1>1, <1>2, <1>3, RequestTypes DEF Stage, SendCommit

\* Every step keeps the types.
LEMMA TypeStep ==
  ASSUME SetFacts, TypeInv, [Next]_vars
  PROVE  TypeInv'
<1>1. CASE UNCHANGED vars
  BY <1>1 DEF vars, TypeInv
<1>2. ASSUME NEW n \in Nodes, NEW alive \in AlivePeers(n),
             NEW value \in Values \union {Nil}, client_write(n, value, alive)
      PROVE  TypeInv'
  BY <1>2, LeadType DEF client_write
<1>3. ASSUME NEW n \in Nodes, NEW alive \in AlivePeers(n), client_read(n, alive)
      PROVE  TypeInv'
  BY <1>3, LeadType DEF client_read
<1>4. ASSUME NEW n \in Nodes, Stage(n)
      PROVE  TypeInv'
  BY <1>4, SendRequests, RequestTypes, SendType
<1>5. ASSUME NEW n \in Nodes, SendCommit(n)
      PROVE  TypeInv'
  <2>1. /\ Commit(op[n].record.version) \in Requests
        /\ Send(n, "commit", Commit(op[n].record.version))
        /\ Commit(op[n].record.version).type # "CLIENT"
    BY <1>5, SendRequests DEF Commit
  <2>. QED  BY <2>1, SendType
<1>. QED
  BY <1>1, <1>2, <1>3, <1>4, <1>5, CatchUpType, AnswerReadType, ChooseVersionType,
     DecideType, AnswerWriteType, HandleLateType, StopType, StartType DEF Next

\* The types hold for a new cluster.
LEMMA TypeInit == Init => TypeInv
<1>1. <<>> \in Seq(Requests)
  OBVIOUS
<1>. QED  BY <1>1, NoRecordType DEF Init, TypeInv, NoRead, Work

\* TypeInv says of an operation in progress what TypeOK says, and more.
LEMMA TypeInvGivesTypeOK == TypeInv => TypeOK
<1> SUFFICES ASSUME TypeInv
             PROVE  TypeOK
  OBVIOUS
<1>1. ASSUME NEW n \in Nodes
      PROVE  op[n] # Idle => op[n].left \subseteq Nodes \ {n}
  BY OperationFields DEF TypeInv, Peers
<1>. QED  BY <1>1 DEF TypeInv, TypeOK

-----------------------------------------------------------------------------
\* Records advance.

\* Record r may be replaced by s.
Advances(r, s) ==
  \/ s.version > r.version
  \/ /\ s.version = r.version
     /\ s.value = r.value \/ ~r.committed
     /\ r.committed => s.committed

\* merge and the handlers never take a record back.
LEMMA RecordAdvances ==
  /\ \A r \in ReplicaValue : Advances(r, r)
  /\ \A r, s \in ReplicaValue : Advances(r, merge(r, s))
  /\ \A r \in ReplicaValue, q \in Requests :
       q.type # "CLIENT" => Advances(r, Handle(r, q))
<1>1. \A r \in ReplicaValue : r.version \in Nat
  BY DEF ReplicaValue
<1>2. ASSUME NEW r \in ReplicaValue
      PROVE  Advances(r, r)
  BY <1>1 DEF Advances
<1>3. ASSUME NEW r \in ReplicaValue, NEW s \in ReplicaValue
      PROVE  Advances(r, merge(r, s))
  BY <1>1, MergeIs DEF Advances
<1>4. ASSUME NEW r \in ReplicaValue, NEW q \in Requests, q.type # "CLIENT"
      PROVE  Advances(r, Handle(r, q))
  BY <1>1, <1>4, HandleIs DEF Advances
<1>. QED  BY <1>2, <1>3, <1>4

\* A step that changes one record by advancing it advances all.
LEMMA StoreStepAdvances ==
  ASSUME TypeInv, NEW p \in Nodes, NEW r,
         UNCHANGED store \/ store' = [store EXCEPT ![p] = r],
         Advances(store[p], r)
  PROVE  \A m \in Nodes : Advances(store[m], store'[m])
<1>1. \A m \in Nodes : store[m] \in ReplicaValue
  BY DEF TypeInv
<1>2. \A m \in Nodes : store'[m] = store[m] \/ (m = p /\ store'[m] = r)
  BY DEF TypeInv
<1>. QED  BY <1>1, <1>2, RecordAdvances

\* Requests to peers only advance records.
LEMMA SendAdvances ==
  ASSUME SetFacts, TypeInv, NEW n \in Nodes, NEW phase, NEW request \in Requests,
         request.type # "CLIENT", Send(n, phase, request)
  PROVE  \A m \in Nodes : Advances(store[m], store'[m])
<1>1. PICK p \in Nodes : SendOutcome(n, p, request)
  BY SendIs
<1>2. UNCHANGED store \/ store' = [store EXCEPT ![p] = Handle(@, request)]
  BY <1>1 DEF SendOutcome
<1>3. Advances(store[p], Handle(store[p], request))
  BY RecordAdvances DEF TypeInv
<1>. QED  BY <1>2, <1>3, StoreStepAdvances

\* No step takes a record back, whoever takes it.
LEMMA StoreAdvances ==
  ASSUME SetFacts, TypeInv, [Next]_vars
  PROVE  \A m \in Nodes : Advances(store[m], store'[m])
<1>1. CASE UNCHANGED store
  BY <1>1, RecordAdvances DEF TypeInv
<1>2. ASSUME NEW n \in Nodes, CatchUp(n)
      PROVE  \A m \in Nodes : Advances(store[m], store'[m])
  <2>1. PICK p \in Nodes :
          \/ store' = [store EXCEPT ![n] = merge(@, Dump(store[p]))]
          \/ UNCHANGED store
    BY <1>2, CatchUpIs, Zenon
  <2>2. Dump(store[p]) \in ReplicaValue
    BY DumpType DEF TypeInv
  <2>3. Advances(store[n], merge(store[n], Dump(store[p])))
    BY <2>2, RecordAdvances DEF TypeInv
  <2>. QED  BY <2>1, <2>3, StoreStepAdvances
<1>3. ASSUME NEW n \in Nodes, Stage(n)
      PROVE  \A m \in Nodes : Advances(store[m], store'[m])
  BY <1>3, SendRequests, RequestTypes, SendAdvances
<1>4. ASSUME NEW n \in Nodes, SendCommit(n)
      PROVE  \A m \in Nodes : Advances(store[m], store'[m])
  <2>1. /\ Commit(op[n].record.version) \in Requests
        /\ Send(n, "commit", Commit(op[n].record.version))
        /\ Commit(op[n].record.version).type # "CLIENT"
    BY <1>4, SendRequests DEF Commit
  <2>. QED  BY <2>1, SendAdvances
<1>5. ASSUME NEW n \in Nodes, Decide(n)
      PROVE  \A m \in Nodes : Advances(store[m], store'[m])
  <2>1. CommittedRecord(n) \in ReplicaValue
    BY <1>5, DecideIs, CommittedRecordIs DEF Staging
  <2>2. \/ UNCHANGED store
        \/ store' = [store EXCEPT ![n] = merge(@, CommittedRecord(n))]
    BY <1>5, DecideIs
  <2>. QED  BY <2>1, <2>2, RecordAdvances DEF TypeInv
<1>6. ASSUME NEW n \in Nodes, HandleLate(n)
      PROVE  \A m \in Nodes : Advances(store[m], store'[m])
  <2>1. Advances(store[n], Handle(store[n], Head(queue[n])))
    BY <1>6, HandleLateIs, RecordAdvances DEF TypeInv
  <2>. QED  BY <1>6, <2>1, HandleLateIs, StoreStepAdvances
<1>. QED
  BY Zenon, <1>1, <1>2, <1>3, <1>4, <1>5, <1>6
     DEF Next, vars, client_write, client_read, Lead, AnswerRead, ChooseVersion,
         AnswerWrite, Stop, Start

-----------------------------------------------------------------------------
\* What a majority has answered OK to stays on a majority.

\* A request that does not go on keeps what its peers have answered.
LEMMA StagedKept ==
  ASSUME SetFacts, TypeInv, StagedInv, [Next]_vars, NEW m \in Nodes, op'[m] = op[m]
  PROVE  StagedAt(m)'
<1>1. \A p \in Nodes : /\ store[p] \in ReplicaValue
                       /\ store'[p] \in ReplicaValue
                       /\ Advances(store[p], store'[p])
  BY TypeStep, StoreAdvances DEF TypeInv
<1>2. \A p \in Nodes : store[p].version \in Nat /\ store'[p].version \in Nat
  BY <1>1 DEF ReplicaValue
<1>3. \A p \in Nodes : store'[p].version >= store[p].version
  BY <1>1, <1>2 DEF Advances
<1>4. op[m] # Idle => /\ op[m].oks \subseteq Nodes /\ op[m].left \subseteq Nodes
                      /\ op[m].record.version \in Nat
  <2>1. op[m] # Idle => op[m] \in Operation(m)
    BY DEF TypeInv
  <2>. QED  BY <2>1, OperationFields DEF Peers, ReplicaValue
<1>5. \A p \in Nodes : op[m] # Idle /\ store[p].version >= op[m].record.version
                         => store'[p].version >= op[m].record.version
  BY <1>2, <1>3, <1>4
<1>6. StagedAt(m)
  BY DEF StagedInv
<1>. QED
  BY <1>4, <1>5, <1>6 DEF StagedAt, Staging, Committing, CatchingUp, Writing

\* A server that is idle or catches up has nothing staged.
LEMMA NothingStaged ==
  ASSUME NEW n, op'[n] = Idle \/ (op'[n].phase = "catch_up" /\ op'[n].oks = {})
  PROVE  StagedAt(n)'
BY DEF StagedAt, Staging, Committing, CatchingUp, Writing, Idle

\* Stage: a peer counted as OK holds the record.
LEMMA SendStaged ==
  ASSUME SetFacts, TypeInv, StagedInv, NEW n \in Nodes, Stage(n), [Next]_vars
  PROVE  StagedAt(n)'
<1>1. /\ Repl(op[n].record) \in Requests /\ op[n].record \in ReplicaValue
      /\ Send(n, "stage", Repl(op[n].record))
  BY SendRequests
<1>2. PICK p \in op[n].left : /\ p \in Nodes /\ p # n
                              /\ SendOutcome(n, p, Repl(op[n].record))
  BY <1>1, SendIs
<1>3. op[n] \in Operation(n) /\ op[n].phase = "stage" /\ Writing(n)
  BY <1>1, SendIs
<1>4. /\ op'[n].call = "write" /\ op'[n].phase = "stage" /\ op'[n] # Idle
      /\ op'[n].record = op[n].record
      /\ \/ op'[n].oks = op[n].oks
         \/ /\ op'[n].oks = op[n].oks \union {p}
            /\ store' = [store EXCEPT ![p] = Handle(@, Repl(op[n].record))]
            /\ Understood(Repl(op[n].record))
  <2>1. /\ op[n].call = "write"
        /\ \/ /\ op'[n] = [op[n] EXCEPT !.left = @ \ {p}, !.oks = @ \union {p}]
              /\ store' = [store EXCEPT ![p] = Handle(@, Repl(op[n].record))]
              /\ Understood(Repl(op[n].record))
           \/ op'[n] = [op[n] EXCEPT !.left = @ \ {p}]
    BY <1>2, <1>3 DEF SendOutcome, Writing
  <2>. QED  BY <1>3, <2>1, Zenon DEF Operation, Idle
<1>5. ASSUME NEW q \in op'[n].oks
      PROVE  store'[q].version >= op[n].record.version
  <2>1. CASE q \in op[n].oks
    <3>1. q \in Nodes /\ store[q].version >= op[n].record.version
      BY <1>3, <2>1, OperationFields, OperationIsNotIdle
         DEF StagedInv, StagedAt, Staging, Peers
    <3>2. store[q] \in ReplicaValue /\ store'[q] \in ReplicaValue
      BY <3>1, TypeStep DEF TypeInv
    <3>3. Advances(store[q], store'[q])
      BY <3>1, StoreAdvances
    <3>. QED  BY <1>1, <3>1, <3>2, <3>3 DEF Advances, ReplicaValue
  <2>2. CASE q \notin op[n].oks
    <3>1. /\ q = p
          /\ store'[p] = Handle(store[p], Repl(op[n].record))
          /\ Understood(Repl(op[n].record))
      BY <1>2, <1>4, <1>5, <2>2 DEF TypeInv
    <3>2. /\ Repl(op[n].record).type = "REPL"
          /\ Repl(op[n].record).record = op[n].record
      BY <1>1, RequestTypes
    <3>3. store[p] \in ReplicaValue
      BY <1>2 DEF TypeInv
    <3>. QED  BY <1>1, <3>1, <3>2, <3>3, HandleIs
  <2>. QED  BY <2>1, <2>2
<1>. QED  BY <1>4, <1>5 DEF StagedAt, Staging, Committing, CatchingUp, Writing

\* SendCommit keeps the peers counted as OK.
LEMMA SendCommitStaged ==
  ASSUME SetFacts, TypeInv, StagedInv, NEW n \in Nodes, SendCommit(n), [Next]_vars
  PROVE  StagedAt(n)'
<1>1. /\ Commit(op[n].record.version) \in Requests /\ op[n].record \in ReplicaValue
      /\ Send(n, "commit", Commit(op[n].record.version))
  BY SendRequests
<1>2. PICK p \in op[n].left : SendOutcome(n, p, Commit(op[n].record.version))
  BY <1>1, SendIs
<1>3. op[n] \in Operation(n) /\ op[n].phase = "commit" /\ Writing(n)
  BY <1>1, SendIs
<1>4. /\ op'[n].call = "write" /\ op'[n].phase = "commit" /\ op'[n] # Idle
      /\ op'[n].record = op[n].record
      /\ op'[n].oks \union op'[n].left \subseteq op[n].oks \union op[n].left
  <2>1. /\ op[n].call = "write"
        /\ \/ op'[n] = [op[n] EXCEPT !.left = @ \ {p}, !.oks = @ \union {p}]
           \/ op'[n] = [op[n] EXCEPT !.left = @ \ {p}]
    BY <1>2, <1>3 DEF SendOutcome, Writing
  <2>2. p \in op[n].left
    BY <1>2
  <2>3. /\ op'[n].call = op[n].call /\ op'[n].phase = op[n].phase
        /\ op'[n].record = op[n].record
        /\ op'[n].left = op[n].left \ {p}
        /\ op'[n].oks = op[n].oks \union {p} \/ op'[n].oks = op[n].oks
    BY <1>3, <2>1, Zenon DEF Operation
  <2>4. op'[n] # Idle
    BY <2>1, <2>3 DEF Idle
  <2>. QED  BY <1>3, <2>1, <2>2, <2>3, <2>4
<1>5. ASSUME NEW q \in op'[n].oks \union op'[n].left \union {n}
      PROVE  store'[q].version >= op[n].record.version
  <2>1. q \in Nodes /\ store[q].version >= op[n].record.version
    BY <1>3, <1>4, OperationFields, OperationIsNotIdle
       DEF StagedInv, StagedAt, Committing, Peers
  <2>2. store[q] \in ReplicaValue /\ store'[q] \in ReplicaValue
    BY <2>1, TypeStep DEF TypeInv
  <2>3. Advances(store[q], store'[q])
    BY <2>1, StoreAdvances
  <2>. QED  BY <1>1, <2>1, <2>2, <2>3 DEF Advances, ReplicaValue
<1>. QED  BY <1>4, <1>5 DEF StagedAt, Staging, Committing, CatchingUp, Writing

\* Decide begins to commit only with a majority staged.
LEMMA DecideStaged ==
  ASSUME SetFacts, TypeInv, StagedInv, NEW n \in Nodes, Decide(n), [Next]_vars
  PROVE  StagedAt(n)'
<1>1. op[n] \in Operation(n) /\ op[n].phase = "stage" /\ op[n] # Idle
  BY DecideIs DEF Staging
<1>2. CASE Proceeds(n, Idle)
  BY <1>2, ProceedsIs, NothingStaged
<1>3. CASE /\ store' = [store EXCEPT ![n] = merge(@, CommittedRecord(n))]
           /\ op'[n] \in Operation(n)
           /\ op'[n].phase = "commit" /\ op'[n].call = "write"
           /\ op'[n].left = op[n].oks /\ op'[n].oks = {}
           /\ op'[n].record = op[n].record
  <2>1. /\ CommittedRecord(n) \in ReplicaValue
        /\ CommittedRecord(n).version = op[n].record.version
    BY <1>1, CommittedRecordIs
  <2>2. op[n].record.version \in Nat
    BY <1>1, OperationFields DEF ReplicaValue
  <2>3. ASSUME NEW q \in op[n].oks
        PROVE  store'[q].version >= op[n].record.version
    <3>1. q \in Nodes /\ store[q].version >= op[n].record.version
      BY <1>1, OperationFields DEF StagedInv, StagedAt, Staging, Peers
    <3>2. store[q] \in ReplicaValue /\ store'[q] \in ReplicaValue
      BY <3>1, TypeStep DEF TypeInv
    <3>3. Advances(store[q], store'[q])
      BY <3>1, StoreAdvances
    <3>. QED  BY <2>2, <3>1, <3>2, <3>3 DEF Advances, ReplicaValue
  <2>4. store'[n].version >= op[n].record.version
    BY <1>3, <2>1, MergeIs DEF TypeInv
  <2>. QED
    BY <1>3, <2>3, <2>4, OperationIsNotIdle
       DEF StagedAt, Staging, Committing, CatchingUp, Writing
<1>. QED  BY <1>2, <1>3, DecideIs

\* Every step keeps what the peers of a write have answered.
LEMMA StagedStep ==
  ASSUME SetFacts, TypeInv, StagedInv, [Next]_vars
  PROVE  StagedInv'
<1> SUFFICES ASSUME NEW m \in Nodes
             PROVE  StagedAt(m)'
  BY DEF StagedInv
<1>1. CASE op'[m] = op[m]
  BY <1>1, StagedKept
<1>2. ASSUME NEW n \in Nodes, NEW call, NEW value, NEW alive, NEW conditions,
             Lead(n, call, value, alive, conditions)
      PROVE  StagedAt(m)'
  <2>1. op' = [op EXCEPT ![n] = [call |-> call, value |-> value, alive |-> alive,
                  left |-> alive, phase |-> "catch_up",
                  floor |-> IF call = "read" THEN acked ELSE NoRecord,
                  record |-> NoRecord, oks |-> {}]]
    BY <1>2 DEF Lead, Proceeds
  <2>2. CASE m = n
    <3>1. op'[n].phase = "catch_up" /\ op'[n].oks = {}
      BY <2>1 DEF TypeInv
    <3>. QED  BY <2>2, <3>1, NothingStaged
  <2>3. CASE m # n
    BY <1>1, <2>1, <2>3 DEF TypeInv
  <2>. QED  BY <2>2, <2>3
<1>3. ASSUME NEW n \in Nodes, CatchUp(n)
      PROVE  StagedAt(m)'
  <2>1. PICK p : op' = [op EXCEPT ![n] = [op[n] EXCEPT !.left = @ \ {p}]]
    BY <1>3, CatchUpIs DEF Proceeds
  <2>2. op[n] \in Operation(n) /\ op[n].phase = "catch_up" /\ op[n].oks = {}
    BY <1>3, CatchUpIs DEF CatchingUp, StagedInv, StagedAt
  <2>3. CASE m = n
    <3>1. op'[n].phase = "catch_up" /\ op'[n].oks = {}
      BY <2>1, <2>2 DEF TypeInv, Operation
    <3>. QED  BY <2>3, <3>1, NothingStaged
  <2>4. CASE m # n
    BY <1>1, <2>1, <2>4 DEF TypeInv
  <2>. QED  BY <2>3, <2>4
<1>4. ASSUME NEW n \in Nodes, Proceeds(n, Idle)
      PROVE  StagedAt(m)'
  BY <1>1, <1>4, ProceedsIs, NothingStaged
<1>5. ASSUME NEW n \in Nodes, ChooseVersion(n)
      PROVE  StagedAt(m)'
  <2>1. \A k \in Nodes : k # n => op'[k] = op[k]
    BY <1>5, ChooseVersionIs, ProceedsIs
  <2>2. CASE m = n
    <3>1. /\ op'[n].phase = "stage" /\ op'[n].call = "write" /\ op'[n].oks = {}
      BY <1>5, ChooseVersionIs DEF StagedInv, StagedAt
    <3>. QED  BY <2>2, <3>1 DEF StagedAt, Staging, Committing, CatchingUp, Writing
  <2>. QED  BY <1>1, <2>1, <2>2
<1>6. ASSUME NEW n \in Nodes, Stage(n)
      PROVE  StagedAt(m)'
  <2>1. \A k \in Nodes : k # n => op'[k] = op[k]
    BY <1>6, SendRequests, SendIs
  <2>. QED  BY <1>1, <1>6, <2>1, SendStaged
<1>7. ASSUME NEW n \in Nodes, SendCommit(n)
      PROVE  StagedAt(m)'
  <2>1. \A k \in Nodes : k # n => op'[k] = op[k]
    BY <1>7, SendRequests, SendIs
  <2>. QED  BY <1>1, <1>7, <2>1, SendCommitStaged
<1>8. ASSUME NEW n \in Nodes, Decide(n)
      PROVE  StagedAt(m)'
  <2>1. \A k \in Nodes : k # n => op'[k] = op[k]
    BY <1>8, DecideIs, ProceedsIs
  <2>. QED  BY <1>1, <1>8, <2>1, DecideStaged
<1>9. CASE UNCHANGED op
  BY <1>1, <1>9
<1>. QED
  BY Zenon, <1>2, <1>3, <1>4, <1>5, <1>6, <1>7, <1>8, <1>9
     DEF Next, vars, client_write, client_read, AnswerRead, AnswerWrite, GiveUp,
         HandleLate, Stop, Start

\* The peers that have answered and the leader are as many as Majority says.
LEMMA MajorityIs ==
  ASSUME SetFacts, NEW n \in Nodes, NEW oks \in SUBSET Peers(n), Majority(oks)
  PROVE  MajorityOf(oks \union {n})
<1>1. oks \in SUBSET Nodes /\ n \in Nodes \ oks /\ Nodes \in SUBSET Nodes
  BY DEF Peers
<1>2. Cardinality(oks \union {n}) = Cardinality(oks) + 1
  BY <1>1, Zenon DEF SetFacts
<1>3. Cardinality(oks) \in Nat /\ Cardinality(Nodes) \in Nat
  BY <1>1, Zenon DEF SetFacts
<1>. QED  BY <1>2, <1>3 DEF Majority, MajorityOf

\* A superset of a majority is a majority.
LEMMA MajorityGrows ==
  ASSUME SetFacts, NEW S, NEW T \in SUBSET Nodes, S \subseteq T, MajorityOf(S)
  PROVE  MajorityOf(T)
<1>1. S \in SUBSET Nodes /\ Nodes \in SUBSET Nodes
  OBVIOUS
<1>2. /\ Cardinality(S) <= Cardinality(T) /\ Cardinality(S) \in Nat /\ Cardinality(T) \in Nat
      /\ Cardinality(Nodes) \in Nat
  BY <1>1, Zenon DEF SetFacts
<1>. QED  BY <1>2 DEF MajorityOf

\* The size of the cluster.
LEMMA AllNodes ==
  ASSUME SetFacts
  PROVE  Cardinality(Nodes) \in Nat /\ Cardinality(Nodes) # 0
<1>1. Nodes \in SUBSET Nodes
  OBVIOUS
<1>. QED  BY <1>1, Zenon DEF SetFacts

\* The servers that store an acknowledged version, or a later one.
Keepers == {n \in Nodes : store[n].version >= acked.version}

\* Every step keeps the acknowledged version on a majority.
LEMMA AckedStep ==
  ASSUME SetFacts, TypeInv, StagedInv, AckedOnMajority, [Next]_vars
  PROVE  AckedOnMajority'
<1>1. /\ \A p \in Nodes : store[p].version \in Nat /\ store'[p].version \in Nat
      /\ \A p \in Nodes : store'[p].version >= store[p].version
      /\ acked \in ReplicaValue /\ acked.version \in Nat
  <2>1. \A p \in Nodes : /\ store[p] \in ReplicaValue
                         /\ store'[p] \in ReplicaValue
                         /\ Advances(store[p], store'[p])
    BY TypeStep, StoreAdvances DEF TypeInv
  <2>2. \A p \in Nodes : store[p].version \in Nat /\ store'[p].version \in Nat
    BY <2>1 DEF ReplicaValue
  <2>3. acked \in ReplicaValue /\ acked.version \in Nat
    BY DEF TypeInv, ReplicaValue
  <2>. QED  BY <2>1, <2>2, <2>3 DEF Advances
<1>2. MajorityOf(Keepers)
  BY DEF AckedOnMajority, MajorityOf, Keepers
<1>3. CASE acked' = acked
  <2>1. Keepers \subseteq Keepers' /\ Keepers' \subseteq Nodes
    BY <1>1, <1>3 DEF Keepers
  <2>2. MajorityOf(Keepers')
    BY <1>2, <2>1, MajorityGrows
  <2>. QED  BY <2>2 DEF AckedOnMajority, MajorityOf, Keepers
<1>4. ASSUME NEW n \in Nodes, AnswerWrite(n)
      PROVE  AckedOnMajority'
  <2>1. /\ op[n] \in Operation(n) /\ Committing(n) /\ UNCHANGED store
        /\ op[n].oks \subseteq Peers(n)
    BY <1>4, AnswerWriteIs, OperationFields
  <2>2. /\ CommittedRecord(n) \in ReplicaValue
        /\ CommittedRecord(n).version = op[n].record.version
    BY <2>1, CommittedRecordIs DEF Committing
  <2>3. CASE Majority(op[n].oks) /\ acked' = CommittedRecord(n)
    <3>1. op[n].oks \union {n} \subseteq Keepers' /\ Keepers' \subseteq Nodes
      BY <2>1, <2>2, <2>3 DEF Keepers, StagedInv, StagedAt, Peers
    <3>2. MajorityOf(op[n].oks \union {n})
      BY <2>1, <2>3, MajorityIs
    <3>3. MajorityOf(Keepers')
      BY <3>1, <3>2, MajorityGrows
    <3>. QED  BY <3>3 DEF AckedOnMajority, MajorityOf, Keepers
  <2>4. acked' = acked \/ (Majority(op[n].oks) /\ acked' = CommittedRecord(n))
    BY <1>1, <1>4, <2>2, AnswerWriteIs, MergeIs
  <2>. QED  BY <1>3, <2>3, <2>4
<1>. QED
  BY ZenonT(30), <1>3, <1>4
     DEF Next, vars, client_write, client_read, Lead, CatchUp, AnswerRead,
         ChooseVersion, Stage, SendCommit, Send, Decide, HandleLate, Stop, Start

-----------------------------------------------------------------------------
\* The inductive invariant: TypeInv and StagedInv always, QuietInv as long as
\* none of the conditions of Unhandled has occurred.

\* The servers that hold the acknowledged version as committed.
Holders == {p \in Nodes : store[p].version = acked.version /\ store[p].committed}

\* Some server is between the choice of a version and the answer to its client.
Choosing == \E n \in Nodes : Staging(n) \/ Committing(n)

\* The records waiting in the queue of server p.
Waiting(p) ==
  {queue[p][i].record : i \in {j \in DOMAIN queue[p] : queue[p][j].type = "REPL"}}

\* The records in the cluster: stored, acknowledged, being written or waiting in
\* a queue; and what stands for no record.
Records ==
  {NoRecord, acked} \union {store[p] : p \in Nodes}
  \union {op[n].record : n \in {m \in Nodes : Staging(m) \/ Committing(m)}}
  \union UNION {Waiting(p) : p \in Nodes}

\* Requests do not overlap, except reads with reads.
Alone ==
  \A m, n \in Nodes : (Writing(n) /\ m # n) => op[m] = Idle

\* No record is newer than the acknowledged one, but for the one being written;
\* a version has one value.
VersionsInv ==
  /\ \A r \in Records : r.version <= acked.version + 1
  /\ ~Choosing => \A r \in Records : r.version <= acked.version
  /\ \A r, s \in Records : r.version = s.version => r.value = s.value

\* The acknowledged record is found: a majority holds it when no record is being
\* written, and a server that catches up has it or will still ask one that has.
HoldersInv ==
  /\ ~Choosing => MajorityOf(Holders)
  /\ \A n \in Nodes : CatchingUp(n) => (op[n].left \union {n}) \intersect Holders # {}

\* What a request in progress has made sure of.
ProgressInv ==
  \A n \in Nodes :
    /\ op[n] # Idle /\ op[n].call = "read" => op[n].floor = acked
    /\ Staging(n) \/ Committing(n) => op[n].record.version = acked.version + 1
    /\ Committing(n) =>
         \A p \in op[n].oks \union {n} :
           store[p].version = op[n].record.version /\ store[p].committed

\* What holds as long as none of the conditions of Unhandled has occurred.
QuietInv ==
  /\ Alone
  /\ VersionsInv
  /\ HoldersInv
  /\ ProgressInv
  /\ ReadsSeeAcked

IInv ==
  /\ TypeInv
  /\ StagedInv
  /\ seen = {} => QuietInv

-----------------------------------------------------------------------------
\* The records of the cluster.

\* Two records of one version and value.
Alike(r, s) == r.version = s.version /\ r.value = s.value

\* Every record after the step is like one before it.
Covered == \A r \in Records' : \E s \in Records : Alike(r, s)

\* Where records are: in stores, in requests in progress and in queues.
LEMMA RecordsHave ==
  /\ NoRecord \in Records /\ acked \in Records
  /\ \A p \in Nodes : store[p] \in Records
  /\ \A n \in Nodes : Staging(n) \/ Committing(n) => op[n].record \in Records
  /\ \A p \in Nodes : \A i \in DOMAIN queue[p] :
       queue[p][i].type = "REPL" => queue[p][i].record \in Records
BY DEF Records, Waiting

\* A record is in one of these places.
LEMMA RecordsAre ==
  ASSUME NEW r \in Records
  PROVE  \/ r \in {NoRecord, acked}
         \/ \E p \in Nodes : r = store[p]
         \/ \E n \in Nodes : (Staging(n) \/ Committing(n)) /\ r = op[n].record
         \/ \E p \in Nodes : r \in Waiting(p)
BY DEF Records

\* They have the type of records.
LEMMA RecordsType ==
  ASSUME TypeInv
  PROVE  Records \subseteq ReplicaValue
<1> SUFFICES ASSUME NEW r \in Records
             PROVE  r \in ReplicaValue
  OBVIOUS
<1>1. CASE r \in {NoRecord, acked}
  BY <1>1, NoRecordType DEF TypeInv
<1>2. CASE \E p \in Nodes : r = store[p]
  BY <1>2 DEF TypeInv
<1>3. CASE \E n \in Nodes : (Staging(n) \/ Committing(n)) /\ r = op[n].record
  BY <1>3, OperationFields DEF TypeInv, Staging, Committing
<1>4. CASE \E p \in Nodes : r \in Waiting(p)
  <2>0. PICK p \in Nodes : r \in Waiting(p)
    BY <1>4
  <2>1. PICK i \in DOMAIN queue[p] : queue[p][i].type = "REPL" /\ r = queue[p][i].record
    BY <2>0 DEF Waiting
  <2>2. queue[p] \in Seq(Requests)
    BY DEF TypeInv
  <2>3. queue[p][i] \in Requests
    BY <2>2
  <2>. QED  BY <2>1, <2>3, RequestTypes
<1>. QED  BY <1>1, <1>2, <1>3, <1>4, RecordsAre

\* Records are covered when those that are stored, acknowledged, being written
\* and waiting are.
LEMMA CoveredIf ==
  ASSUME \E s \in Records : Alike(acked', s),
         \A p \in Nodes : \E s \in Records : Alike(store'[p], s),
         \A n \in Nodes : (Staging(n) \/ Committing(n))' =>
                            \E s \in Records : Alike(op'[n].record, s),
         \A p \in Nodes : Waiting(p)' \subseteq Records
  PROVE  Covered
<1> SUFFICES ASSUME NEW r \in Records'
             PROVE  \E s \in Records : Alike(r, s)
  BY DEF Covered
<1>1. \A s : Alike(s, s)
  BY DEF Alike
<1>2. \/ r = NoRecord
      \/ r = acked'
      \/ \E p \in Nodes : r = store'[p]
      \/ \E n \in Nodes : (Staging(n) \/ Committing(n))' /\ r = op'[n].record
      \/ \E p \in Nodes : r \in Waiting(p)'
  BY DEF Records
<1>. QED  BY <1>1, <1>2, RecordsHave

\* Two likely shapes of the queues after a step.
LEMMA WaitingAppend ==
  ASSUME TypeInv, NEW p \in Nodes, NEW request,
         queue' = [queue EXCEPT ![p] = Append(@, request)],
         request.type = "REPL" => request.record \in Records
  PROVE  \A m \in Nodes : Waiting(m)' \subseteq Records
<1>1. \A m \in Nodes : queue[m] \in Seq(Requests)
  BY DEF TypeInv
<1>2. ASSUME NEW m \in Nodes, NEW i \in DOMAIN queue'[m], queue'[m][i].type = "REPL"
      PROVE  queue'[m][i].record \in Records
  <2>1. CASE m = p
    <3>1. queue'[p] = Append(queue[p], request)
      BY DEF TypeInv
    <3>2. \/ i \in DOMAIN queue[p] /\ queue'[p][i] = queue[p][i]
          \/ queue'[p][i] = request
      BY <1>1, <1>2, <2>1, <3>1
    <3>. QED  BY <1>2, <2>1, <3>2, RecordsHave
  <2>2. CASE m # p
    <3>1. queue'[m] = queue[m]
      BY <2>2 DEF TypeInv
    <3>. QED  BY <1>2, <3>1, RecordsHave
  <2>. QED  BY <2>1, <2>2
<1>. QED  BY <1>2 DEF Waiting

\* Queues that do not change hold no new records.
LEMMA WaitingSame ==
  ASSUME UNCHANGED queue
  PROVE  \A m \in Nodes : Waiting(m)' \subseteq Records
<1>1. \A m \in Nodes : Waiting(m)' = Waiting(m)
  BY DEF Waiting
<1>. QED  BY <1>1, RecordsHave DEF Waiting

\* What Tail does to a queue.
LEMMA TailIs ==
  ASSUME NEW q \in Seq(Requests), q # <<>>, NEW i \in DOMAIN Tail(q)
  PROVE  i + 1 \in DOMAIN q /\ Tail(q)[i] = q[i + 1]
<1>1. Len(q) \in Nat \ {0} /\ Len(Tail(q)) = Len(q) - 1
  OBVIOUS
<1>2. i \in 1..(Len(q) - 1)
  BY <1>1
<1>. QED  BY <1>1, <1>2

\* Taking a request from a queue adds no record.
LEMMA WaitingTail ==
  ASSUME TypeInv, NEW p \in Nodes, queue[p] # <<>>,
         queue' = [queue EXCEPT ![p] = Tail(@)]
  PROVE  \A m \in Nodes : Waiting(m)' \subseteq Records
<1>1. \A m \in Nodes : queue[m] \in Seq(Requests)
  BY DEF TypeInv
<1>2. ASSUME NEW m \in Nodes, NEW i \in DOMAIN queue'[m], queue'[m][i].type = "REPL"
      PROVE  queue'[m][i].record \in Records
  <2>1. CASE m = p
    <3>1. queue'[p] = Tail(queue[p])
      BY DEF TypeInv
    <3>2. i + 1 \in DOMAIN queue[p] /\ queue'[p][i] = queue[p][i + 1]
      BY <1>1, <1>2, <2>1, <3>1, TailIs, ZenonT(30)
    <3>. QED  BY <1>2, <2>1, <3>2, RecordsHave
  <2>2. CASE m # p
    <3>1. queue'[m] = queue[m]
      BY <2>2 DEF TypeInv
    <3>. QED  BY <1>2, <3>1, RecordsHave
  <2>. QED  BY <2>1, <2>2
<1>. QED  BY <1>2 DEF Waiting

\* Emptying a queue adds no record.
LEMMA WaitingGone ==
  ASSUME TypeInv, NEW p \in Nodes, queue' = [queue EXCEPT ![p] = <<>>]
  PROVE  \A m \in Nodes : Waiting(m)' \subseteq Records
<1>1. ASSUME NEW m \in Nodes, NEW i \in DOMAIN queue'[m], queue'[m][i].type = "REPL"
      PROVE  queue'[m][i].record \in Records
  <2>1. m # p
    BY <1>1 DEF TypeInv
  <2>2. queue'[m] = queue[m]
    BY <2>1 DEF TypeInv
  <2>. QED  BY <1>1, <2>2, RecordsHave
<1>. QED  BY <1>1 DEF Waiting

\* The state before a step in which none of the conditions of Unhandled occurs.
Calm == TypeInv /\ StagedInv /\ QuietInv /\ seen = {}

\* A server between choice of version and answer.
Busy(n) == Staging(n) \/ Committing(n)

\* The conditions are never forgotten.
LEMMA SeenGrows ==
  ASSUME TypeInv, [Next]_vars
  PROVE  seen \subseteq seen'
<1>1. ASSUME NEW n \in Nodes, Stage(n) \/ SendCommit(n)
      PROVE  seen \subseteq seen'
  BY <1>1 DEF Stage, SendCommit, Send
<1>. QED
  BY Zenon, <1>1 DEF Next, vars, client_write, client_read, Lead, CatchUp, AnswerRead,
         ChooseVersion, Decide, GiveUp, AnswerWrite, HandleLate, Stop, Start

\* What a busy server writes was being written before.
KeepsRecords ==
  \A m \in Nodes : Busy(m)' => Busy(m) /\ op'[m].record = op[m].record

\* A step after which every record is like one there was before.
LEMMA CoveredWhen ==
  ASSUME TypeInv, KeepsRecords,
         UNCHANGED acked \/ \E s \in Records : Alike(acked', s),
         \A p \in Nodes : UNCHANGED store \/ \E s \in Records : Alike(store'[p], s),
         \A p \in Nodes : Waiting(p)' \subseteq Records
  PROVE  Covered
<1>1. \A s : Alike(s, s)
  BY DEF Alike
<1>2. \E s \in Records : Alike(acked', s)
  BY <1>1, RecordsHave
<1>3. \A p \in Nodes : \E s \in Records : Alike(store'[p], s)
  BY <1>1, RecordsHave
<1>4. \A n \in Nodes : (Staging(n) \/ Committing(n))' =>
                          \E s \in Records : Alike(op'[n].record, s)
  BY <1>1, RecordsHave DEF KeepsRecords, Busy
<1>. QED  BY <1>2, <1>3, <1>4, CoveredIf

\* A server that becomes idle or catches up adds no record.
LEMMA KeepsWhenNotBusy ==
  ASSUME NEW n \in Nodes, op'[n] = Idle \/ op'[n].phase = "catch_up",
         \A m \in Nodes : m # n => op'[m] = op[m]
  PROVE  KeepsRecords
BY DEF KeepsRecords, Busy, Staging, Committing

\* A request to a peer: the record there stays alike or becomes the one sent.
LEMMA SendCovered ==
  ASSUME SetFacts, TypeInv, NEW n \in Nodes, NEW phase, NEW request \in Requests,
         request.type # "CLIENT", Send(n, phase, request),
         phase \in {"stage", "commit"},
         request.type = "REPL" => request.record \in Records
  PROVE  /\ KeepsRecords /\ Busy(n)' /\ Covered
         /\ op'[n].phase = phase /\ op'[n].call = op[n].call
         /\ op'[n].record = op[n].record
<1>1. PICK p \in op[n].left : p \in Nodes /\ p # n /\ SendOutcome(n, p, request)
  BY SendIs
<1>2. op[n] \in Operation(n) /\ op[n].phase = phase /\ Writing(n)
  BY SendIs
<1>3. /\ op'[n].phase = phase /\ op'[n].record = op[n].record /\ op'[n] # Idle
      /\ op'[n].call = op[n].call
  <2>1. \/ op'[n] = [op[n] EXCEPT !.left = @ \ {p}, !.oks = @ \union {p}]
        \/ op'[n] = [op[n] EXCEPT !.left = @ \ {p}]
    BY <1>1 DEF SendOutcome
  <2>. QED  BY <1>2, <2>1, Zenon DEF Operation, Idle
<1>4. KeepsRecords /\ Busy(n)'
  <2>1. \A m \in Nodes : m # n => op'[m] = op[m]
    BY SendIs
  <2>2. op[n] # Idle
    BY <1>2, OperationIsNotIdle
  <2>. QED  BY <1>2, <1>3, <2>1, <2>2 DEF KeepsRecords, Busy, Staging, Committing
<1>5. \A m \in Nodes : UNCHANGED store \/ \E s \in Records : Alike(store'[m], s)
  <2>1. UNCHANGED store \/ store' = [store EXCEPT ![p] = Handle(@, request)]
    BY <1>1 DEF SendOutcome
  <2>2. \/ Alike(Handle(store[p], request), store[p])
        \/ request.type = "REPL" /\ Handle(store[p], request) = request.record
    BY <1>1, HandleIs DEF TypeInv, Alike
  <2>3. \E s \in Records : Alike(Handle(store[p], request), s)
    BY <1>1, <2>2, RecordsHave DEF Alike
  <2>4. \A m \in Nodes : \/ UNCHANGED store
                         \/ store'[m] = Handle(store[p], request)
                         \/ store'[m] = store[m]
    BY <2>1 DEF TypeInv
  <2>. QED  BY <2>3, <2>4, RecordsHave DEF Alike
<1>6. \A m \in Nodes : Waiting(m)' \subseteq Records
  <2>1. UNCHANGED queue \/ queue' = [queue EXCEPT ![p] = Append(@, request)]
    BY <1>1 DEF SendOutcome
  <2>. QED  BY <1>1, <2>1, WaitingSame, WaitingAppend
<1>7. UNCHANGED acked
  BY SendIs
<1>. QED  BY <1>3, <1>4, <1>5, <1>6, <1>7, CoveredWhen

\* Beginning a request makes no new record.
LEMMA LeadCovered ==
  ASSUME TypeInv, NEW n \in Nodes, NEW call, NEW value, NEW alive,
         Lead(n, call, value, alive, {}), UNCHANGED queue
  PROVE  KeepsRecords /\ Covered
<1>1. /\ op'[n].phase = "catch_up"
      /\ \A m \in Nodes : m # n => op'[m] = op[m]
  BY DEF Lead, Proceeds, TypeInv
<1>2. KeepsRecords
  BY <1>1, KeepsWhenNotBusy
<1>. QED  BY <1>2, WaitingSame, CoveredWhen DEF Lead

\* Catching up makes no new record.
LEMMA CatchUpCovered ==
  ASSUME SetFacts, TypeInv, NEW n \in Nodes, CatchUp(n)
  PROVE  KeepsRecords /\ Covered
<1>1. PICK p \in Nodes :
              /\ Proceeds(n, [op[n] EXCEPT !.left = @ \ {p}])
              /\ \/ store' = [store EXCEPT ![n] = merge(@, Dump(store[p]))]
                 \/ UNCHANGED store
  BY CatchUpIs
<1>2. op[n] \in Operation(n) /\ op[n].phase = "catch_up" /\ UNCHANGED <<queue, acked>>
  BY CatchUpIs DEF CatchingUp
<1>3. KeepsRecords
  <2>1. /\ op'[n].phase = "catch_up"
        /\ \A m \in Nodes : m # n => op'[m] = op[m]
    BY <1>1, <1>2 DEF Proceeds, TypeInv, Operation
  <2>. QED  BY <2>1, KeepsWhenNotBusy
<1>4. merge(store[n], Dump(store[p])) \in Records
  <2>1. Dump(store[p]) \in Records /\ Dump(store[p]) \in ReplicaValue
    BY RecordsHave, RecordsType DEF Dump
  <2>2. store[n] \in Records /\ store[n] \in ReplicaValue
    BY RecordsHave DEF TypeInv
  <2>3. merge(store[n], Dump(store[p])) \in {store[n], Dump(store[p])}
    BY <2>1, <2>2, MergeIs
  <2>. QED  BY <2>1, <2>2, <2>3
<1>5. \A m \in Nodes : UNCHANGED store \/ \E s \in Records : Alike(store'[m], s)
  BY <1>1, <1>4, RecordsHave DEF TypeInv, Alike
<1>. QED  BY <1>2, <1>3, <1>5, WaitingSame, CoveredWhen

\* Deciding makes no new record.
LEMMA DecideCovered ==
  ASSUME TypeInv, NEW n \in Nodes, Decide(n)
  PROVE  KeepsRecords /\ Covered
<1>1. /\ op[n] # Idle /\ Staging(n) /\ UNCHANGED <<queue, acked>>
  BY DecideIs DEF Staging
<1>2. KeepsRecords
  <2>1. \A m \in Nodes : m # n => op'[m] = op[m]
    BY DecideIs, ProceedsIs
  <2>2. op'[n] = Idle \/ op'[n].record = op[n].record
    BY DecideIs, ProceedsIs
  <2>. QED  BY <1>1, <2>1, <2>2 DEF KeepsRecords, Busy, Staging, Committing
<1>3. \A m \in Nodes : UNCHANGED store \/ \E s \in Records : Alike(store'[m], s)
  <2>1. /\ CommittedRecord(n) \in ReplicaValue
        /\ Alike(CommittedRecord(n), op[n].record)
    BY <1>1, CommittedRecordIs DEF Alike
  <2>2. merge(store[n], CommittedRecord(n)) \in {store[n], CommittedRecord(n)}
    BY <2>1, MergeIs DEF TypeInv
  <2>3. \E s \in Records : Alike(merge(store[n], CommittedRecord(n)), s)
    BY <1>1, <2>1, <2>2, RecordsHave DEF Alike
  <2>4. \/ UNCHANGED store
        \/ store' = [store EXCEPT ![n] = merge(@, CommittedRecord(n))]
    BY DecideIs
  <2>. QED  BY <2>3, <2>4, RecordsHave, Zenon DEF TypeInv, Alike
<1>. QED  BY <1>1, <1>2, <1>3, WaitingSame, CoveredWhen

\* Answering a write makes no new record.
LEMMA AnswerWriteCovered ==
  ASSUME TypeInv, NEW n \in Nodes, AnswerWrite(n)
  PROVE  KeepsRecords /\ Covered
<1>1. op[n] # Idle /\ Committing(n) /\ UNCHANGED <<queue, store>>
  BY AnswerWriteIs DEF Committing
<1>2. KeepsRecords
  BY AnswerWriteIs, ProceedsIs, KeepsWhenNotBusy
<1>3. UNCHANGED acked \/ \E s \in Records : Alike(acked', s)
  <2>1. /\ CommittedRecord(n) \in ReplicaValue
        /\ Alike(CommittedRecord(n), op[n].record)
    BY <1>1, CommittedRecordIs DEF Alike
  <2>2. merge(acked, CommittedRecord(n)) \in {acked, CommittedRecord(n)}
    BY <2>1, MergeIs DEF TypeInv
  <2>. QED  BY <1>1, <2>1, <2>2, AnswerWriteIs, RecordsHave
<1>. QED  BY <1>1, <1>2, <1>3, WaitingSame, CoveredWhen

\* Handling a queued request makes no new record.
LEMMA HandleLateCovered ==
  ASSUME TypeInv, NEW p \in Nodes, HandleLate(p)
  PROVE  KeepsRecords /\ Covered
<1> DEFINE request == Head(queue[p])
<1>1. /\ queue[p] # <<>> /\ request \in Requests /\ request.type # "CLIENT"
      /\ store' = [store EXCEPT ![p] = Handle(@, request)]
      /\ queue' = [queue EXCEPT ![p] = Tail(@)]
      /\ UNCHANGED <<op, acked>>
  BY HandleLateIs
<1>2. request.type = "REPL" => request.record \in Records
  <2>1. queue[p] \in Seq(Requests)
    BY DEF TypeInv
  <2>2. 1 \in DOMAIN queue[p] /\ request = queue[p][1]
    BY <1>1, <2>1
  <2>. QED  BY <2>2, RecordsHave
<1> HIDE DEF request
<1>3. KeepsRecords
  BY <1>1 DEF KeepsRecords, Busy, Staging, Committing
<1>4. \A m \in Nodes : UNCHANGED store \/ \E s \in Records : Alike(store'[m], s)
  <2>1. \/ Alike(Handle(store[p], request), store[p])
        \/ request.type = "REPL" /\ Handle(store[p], request) = request.record
    BY <1>1, HandleIs DEF TypeInv, Alike
  <2>2. \E s \in Records : Alike(Handle(store[p], request), s)
    BY <1>2, <2>1, RecordsHave DEF Alike
  <2>3. \A m \in Nodes : store'[m] \in {Handle(store[p], request), store[m]}
    BY <1>1 DEF TypeInv
  <2>. QED  BY <2>2, <2>3, RecordsHave DEF Alike
<1>. QED  BY <1>1, <1>3, <1>4, WaitingTail, CoveredWhen, Zenon

\* Only ChooseVersion brings a new version or value into the cluster.
LEMMA CoveredStep ==
  ASSUME SetFacts, TypeInv, [Next]_vars, ~\E n \in Nodes : ChooseVersion(n)
  PROVE  KeepsRecords /\ Covered
<1>1. ASSUME UNCHANGED <<op, store, acked, queue>>
      PROVE  KeepsRecords /\ Covered
  <2>1. KeepsRecords
    BY <1>1 DEF KeepsRecords, Busy, Staging, Committing
  <2>. QED  BY <1>1, <2>1, WaitingSame, CoveredWhen
<1>2. ASSUME NEW n \in Nodes, NEW alive \in AlivePeers(n),
             \/ \E value \in Values \union {Nil} : client_write(n, value, alive)
             \/ client_read(n, alive)
      PROVE  KeepsRecords /\ Covered
  BY <1>2, LeadCovered DEF client_write, client_read
<1>3. ASSUME NEW n \in Nodes, AnswerRead(n)
      PROVE  KeepsRecords /\ Covered
  <2>1. KeepsRecords
    BY <1>3, ProceedsIs, KeepsWhenNotBusy DEF AnswerRead
  <2>. QED  BY <1>3, <2>1, WaitingSame, CoveredWhen DEF AnswerRead
<1>4. ASSUME NEW n \in Nodes, Stage(n)
      PROVE  KeepsRecords /\ Covered
  <2>1. /\ Repl(op[n].record) \in Requests /\ op[n].record \in ReplicaValue
        /\ Send(n, "stage", Repl(op[n].record))
    BY <1>4, SendRequests
  <2>2. Repl(op[n].record).type = "REPL" /\ Repl(op[n].record).record = op[n].record
    BY <2>1, RequestTypes
  <2>3. op[n].record \in Records
    BY <2>1, SendIs, RecordsHave, OperationIsNotIdle DEF Staging
  <2>. QED  BY <2>1, <2>2, <2>3, SendCovered
<1>5. ASSUME NEW n \in Nodes, SendCommit(n)
      PROVE  KeepsRecords /\ Covered
  <2>1. /\ Commit(op[n].record.version) \in Requests
        /\ Send(n, "commit", Commit(op[n].record.version))
        /\ Commit(op[n].record.version).type = "COMMIT"
    BY <1>5, SendRequests DEF Commit
  <2>. QED  BY <2>1, SendCovered
<1>6. ASSUME NEW n \in Nodes, Stop(n)
      PROVE  KeepsRecords /\ Covered
  <2>1. KeepsRecords
    BY <1>6, ProceedsIs, KeepsWhenNotBusy DEF Stop
  <2>. QED  BY <1>6, <2>1, WaitingGone, CoveredWhen, Zenon DEF Stop
<1>7. CASE UNCHANGED vars
  BY <1>1, <1>7 DEF vars
<1>8. ASSUME NEW n \in Nodes, Start(n)
      PROVE  KeepsRecords /\ Covered
  BY <1>1, <1>8 DEF Start
<1>. QED
  BY <1>2, <1>3, <1>4, <1>5, <1>6, <1>7, <1>8, CatchUpCovered, DecideCovered,
     AnswerWriteCovered, HandleLateCovered DEF Next

-----------------------------------------------------------------------------
\* Steps in which none of the conditions of Unhandled occurs.

\* Who goes on with a request has taken one of these steps.
LEMMA OpChanges ==
  ASSUME TypeInv, [Next]_vars, NEW m \in Nodes, op'[m] # op[m]
  PROVE  \/ \E alive \in AlivePeers(m), value \in Values \union {Nil} :
              Lead(m, "write", value, alive, {})
         \/ \E alive \in AlivePeers(m) : Lead(m, "read", Nil, alive, {})
         \/ CatchUp(m) \/ AnswerRead(m) \/ ChooseVersion(m)
         \/ Stage(m) \/ Decide(m) \/ SendCommit(m) \/ AnswerWrite(m) \/ Stop(m)
<1>1. ASSUME NEW n \in Nodes, NEW next, Proceeds(n, next)
      PROVE  m = n
  BY <1>1 DEF Proceeds, TypeInv
<1>2. \A n \in Nodes : Stage(n) \/ SendCommit(n) => m = n
  <2>1. \A n \in Nodes : Stage(n) \/ SendCommit(n) => \E next : Proceeds(n, next)
    BY Zenon DEF Stage, SendCommit, Send
  <2>. QED  BY <1>1, <2>1, Zenon
<1>3. \A n \in Nodes : CatchUp(n) \/ AnswerRead(n) \/ Stop(n) => m = n
  BY <1>1 DEF CatchUp, AnswerRead, Stop
<1>4. \A n \in Nodes : ChooseVersion(n) \/ Decide(n) \/ AnswerWrite(n) => m = n
  BY <1>1, ChooseVersionIs, DecideIs, AnswerWriteIs
<1>5. \A n \in Nodes : \A call, value, alive :
        Lead(n, call, value, alive, {}) => m = n
  BY <1>1, Zenon DEF Lead
<1>6. \A n \in Nodes : ~HandleLate(n) /\ ~Start(n)
  BY DEF HandleLate, Start
<1>7. ~UNCHANGED vars
  BY DEF vars
<1>8. PICK n \in Nodes :
        \/ \E alive \in AlivePeers(n), value \in Values \union {Nil} :
             Lead(n, "write", value, alive, {})
        \/ \E alive \in AlivePeers(n) : Lead(n, "read", Nil, alive, {})
        \/ CatchUp(n) \/ AnswerRead(n)
        \/ ChooseVersion(n) \/ Stage(n) \/ Decide(n) \/ SendCommit(n) \/ AnswerWrite(n)
        \/ Stop(n)
  BY <1>6, <1>7 DEF Next, client_write, client_read
<1>9. m = n
  BY <1>2, <1>3, <1>4, <1>5, <1>8
<1>. QED  BY <1>8, <1>9, Zenon

\* The steps that end a write without an acknowledgement are excluded.
LEMMA CalmSteps ==
  ASSUME Calm, [Next]_vars, seen' = {}, NEW n \in Nodes
  PROVE  /\ Decide(n) =>
              /\ store' = [store EXCEPT ![n] = merge(@, CommittedRecord(n))]
              /\ Proceeds(n, op'[n]) /\ op'[n] \in Operation(n)
              /\ op'[n].phase = "commit" /\ op'[n].call = "write"
              /\ op'[n].left = op[n].oks /\ op'[n].oks = {}
              /\ op'[n].record = op[n].record
         /\ AnswerWrite(n) =>
              Majority(op[n].oks) /\ acked' = merge(acked, CommittedRecord(n))
         /\ Stop(n) => ~Writing(n)
         /\ \A call, value, alive : Lead(n, call, value, alive, {}) =>
              /\ \A m \in Nodes : ~Writing(m)
              /\ call = "write" => \A m \in Nodes : op[m] = Idle
<1>1. TypeInv /\ seen = {}
  BY DEF Calm
<1>2. "indeterminate" \notin seen' /\ "crash_in_write" \notin seen' /\ "overlap" \notin seen'
  OBVIOUS
<1>. QED  BY <1>1, <1>2, DecideIs, AnswerWriteIs, Zenon DEF Stop, Lead

\* A server that has chosen its version is the only one at work.
LEMMA BusyIsAlone ==
  ASSUME Calm, NEW n \in Nodes, Busy(n)
  PROVE  Writing(n) /\ op[n] # Idle /\ \A m \in Nodes : m # n => op[m] = Idle
BY DEF Calm, StagedInv, StagedAt, Busy, Staging, Committing, QuietInv, Alone

\* A request in progress keeps its kind.
LEMMA CallsKept ==
  ASSUME SetFacts, Calm, [Next]_vars, seen' = {}, NEW m \in Nodes
  PROVE  \/ op'[m] = Idle
         \/ op[m] # Idle /\ op'[m].call = op[m].call
         \/ \E call, value, alive : /\ Lead(m, call, value, alive, {})
                                    /\ op'[m].call = call
<1>0. TypeInv
  BY DEF Calm
<1>1. CASE op'[m] = op[m]
  BY <1>1, Zenon
<1>2. CASE \E call, value, alive : Lead(m, call, value, alive, {})
  <2>1. PICK call, value, alive : Lead(m, call, value, alive, {})
    BY <1>2
  <2>2. op'[m].call = call
    BY <1>0, <2>1 DEF Lead, Proceeds, TypeInv
  <2>. QED  BY <2>1, <2>2
<1>3. CASE CatchUp(m)
  <2>1. PICK p : op' = [op EXCEPT ![m] = [op[m] EXCEPT !.left = @ \ {p}]]
    BY <1>0, <1>3, CatchUpIs DEF Proceeds
  <2>2. op[m] \in Operation(m) /\ op[m] # Idle
    BY <1>0, <1>3, CatchUpIs DEF CatchingUp
  <2>. QED  BY <1>0, <2>1, <2>2 DEF TypeInv, Operation
<1>4. CASE AnswerRead(m) \/ AnswerWrite(m) \/ Stop(m)
  BY <1>0, <1>4, AnswerWriteIs, ProceedsIs, ZenonT(30) DEF AnswerRead, Stop
<1>5. CASE ChooseVersion(m)
  BY <1>0, <1>5, ChooseVersionIs, OperationIsNotIdle, ZenonT(30) DEF Writing
<1>6. CASE Decide(m)
  BY <1>0, <1>6, DecideIs, CalmSteps, Zenon DEF Staging, Writing
<1>7. CASE Stage(m)
  <2>1. /\ Repl(op[m].record) \in Requests
        /\ Send(m, "stage", Repl(op[m].record))
    BY <1>0, <1>7, SendRequests
  <2>2. PICK p : SendOutcome(m, p, Repl(op[m].record))
    BY <1>0, <2>1, SendIs
  <2>3. op[m] \in Operation(m) /\ op[m] # Idle
    BY <1>0, <2>1, SendIs, OperationIsNotIdle
  <2>. QED  BY <2>2, <2>3, Zenon DEF SendOutcome, Operation
<1>8. CASE SendCommit(m)
  <2>1. /\ Commit(op[m].record.version) \in Requests
        /\ Send(m, "commit", Commit(op[m].record.version))
    BY <1>0, <1>8, SendRequests
  <2>2. PICK p : SendOutcome(m, p, Commit(op[m].record.version))
    BY <1>0, <2>1, SendIs
  <2>3. op[m] \in Operation(m) /\ op[m] # Idle
    BY <1>0, <2>1, SendIs, OperationIsNotIdle
  <2>. QED  BY <2>2, <2>3, ZenonT(30) DEF SendOutcome, Operation
<1>. QED
  BY <1>0, <1>1, <1>2, <1>3, <1>4, <1>5, <1>6, <1>7, <1>8, OpChanges, Zenon

\* Every quiet step keeps a write alone.
LEMMA AloneStep ==
  ASSUME SetFacts, Calm, [Next]_vars, seen' = {}
  PROVE  Alone'
<1> SUFFICES ASSUME NEW m \in Nodes, NEW n \in Nodes, Writing(n)', m # n,
                    op'[m] # Idle
             PROVE  FALSE
  BY DEF Alone
<1>0. TypeInv /\ Alone
  BY DEF Calm, QuietInv
<1>1. op'[n].call = "write" /\ op'[n] # Idle
  BY DEF Writing, Idle
<1>2. ASSUME NEW k \in Nodes, NEW call, NEW value, NEW alive,
             Lead(k, call, value, alive, {})
      PROVE  \A j \in Nodes : j # k => op'[j] = op[j]
  BY <1>0, <1>2 DEF Lead, Proceeds, TypeInv
<1>3. CASE \E call, value, alive : /\ Lead(n, call, value, alive, {})
                                   /\ op'[n].call = call
  <2>0. PICK call, value, alive : Lead(n, call, value, alive, {}) /\ op'[n].call = call
    BY <1>3
  <2>1. op'[m] = op[m] /\ op[m] = Idle
    <3>1. \A j \in Nodes : op[j] = Idle
      BY <1>1, <2>0, CalmSteps, ZenonT(30)
    <3>. QED  BY <1>2, <2>0, <3>1
  <2>. QED  BY <2>1
<1>4. CASE \E call, value, alive : Lead(m, call, value, alive, {})
  <2>1. op'[n] = op[n] /\ ~Writing(n)
    BY <1>2, <1>4, CalmSteps, Zenon
  <2>. QED  BY <1>1, <2>1 DEF Writing
<1>5. CASE /\ op[n] # Idle /\ op'[n].call = op[n].call
           /\ op[m] # Idle
  BY <1>0, <1>1, <1>5 DEF Alone, Writing
<1>. QED  BY <1>1, <1>3, <1>4, <1>5, CallsKept

\* A write that has chosen its version ends with an acknowledgement.
LEMMA ChoosingEnds ==
  ASSUME SetFacts, Calm, [Next]_vars, seen' = {}, Choosing, ~Choosing'
  PROVE  \E n \in Nodes : AnswerWrite(n)
<1>0. TypeInv
  BY DEF Calm
<1>1. PICK n \in Nodes : Busy(n)
  BY DEF Choosing, Busy
<1>2. Writing(n) /\ op[n] # Idle /\ ~CatchingUp(n)
  BY <1>1, BusyIsAlone DEF Busy, Staging, Committing, CatchingUp
<1>3. ~Busy(n)'
  BY DEF Choosing, Busy
<1>4. op'[n] # op[n]
  BY <1>1, <1>3 DEF Busy, Staging, Committing
<1>5. \A call, value, alive : ~Lead(n, call, value, alive, {})
  BY <1>2 DEF Lead
<1>6. ~CatchUp(n) /\ ~AnswerRead(n) /\ ~ChooseVersion(n)
  BY <1>0, <1>2, CatchUpIs, ChooseVersionIs DEF AnswerRead, CaughtUp, Writing
<1>7. ~Stop(n)
  BY <1>2, CalmSteps, ZenonT(30)
<1>8. ~Decide(n)
  BY <1>3, CalmSteps, OperationIsNotIdle, Zenon DEF Busy, Committing
<1>9. ~Stage(n)
  <2> SUFFICES ASSUME Stage(n)
               PROVE  FALSE
    OBVIOUS
  <2>1. /\ Repl(op[n].record) \in Requests /\ op[n].record \in ReplicaValue
        /\ Send(n, "stage", Repl(op[n].record))
    BY <1>0, SendRequests
  <2>2. Repl(op[n].record).type = "REPL" /\ Repl(op[n].record).record = op[n].record
    BY <2>1, RequestTypes
  <2>3. op[n].record \in Records
    BY <1>1, RecordsHave DEF Busy
  <2>. QED  BY <1>0, <1>3, <2>1, <2>2, <2>3, SendCovered
<1>10. ~SendCommit(n)
  <2> SUFFICES ASSUME SendCommit(n)
               PROVE  FALSE
    OBVIOUS
  <2>1. /\ Commit(op[n].record.version) \in Requests
        /\ Send(n, "commit", Commit(op[n].record.version))
        /\ Commit(op[n].record.version).type = "COMMIT"
    BY <1>0, SendRequests DEF Commit
  <2>. QED  BY <1>0, <1>3, <2>1, SendCovered
<1>. QED  BY <1>0, <1>4, <1>5, <1>6, <1>7, <1>8, <1>9, <1>10, OpChanges

\* Only AnswerWrite acknowledges.
LEMMA AckedChanges ==
  ASSUME [Next]_vars, acked' # acked
  PROVE  \E n \in Nodes : AnswerWrite(n)
BY ZenonT(30) DEF Next, vars, client_write, client_read, Lead, CatchUp, AnswerRead,
       ChooseVersion, Stage, SendCommit, Send, Decide, HandleLate, Stop, Start

\* The versions of records are numbers.
LEMMA VersionNumbers ==
  ASSUME TypeInv
  PROVE  /\ \A r \in Records : r.version \in Nat
         /\ \A p \in Nodes : store[p].version \in Nat /\ store[p] \in ReplicaValue
         /\ acked.version \in Nat /\ acked \in ReplicaValue
         /\ \A n \in Nodes : op[n] # Idle => op[n].record.version \in Nat
<1>1. \A r \in ReplicaValue : r.version \in Nat
  BY DEF ReplicaValue
<1>2. \A n \in Nodes : op[n] # Idle => op[n].record \in ReplicaValue
  BY OperationFields DEF TypeInv
<1>. QED  BY <1>1, <1>2, RecordsType DEF TypeInv

\* The acknowledged record is the one that was written.
LEMMA AnswerWriteAcks ==
  ASSUME Calm, [Next]_vars, seen' = {}, NEW n \in Nodes, AnswerWrite(n)
  PROVE  /\ acked' = CommittedRecord(n) /\ acked'.version = acked.version + 1
         /\ Majority(op[n].oks) /\ Busy(n) /\ Committing(n)
         /\ op[n].record.version = acked.version + 1
         /\ UNCHANGED store /\ \A m \in Nodes : op'[m] = Idle
<1>0. TypeInv /\ ProgressInv
  BY DEF Calm, QuietInv
<1>1. Committing(n) /\ op[n] # Idle /\ UNCHANGED store /\ Busy(n)
  BY <1>0, AnswerWriteIs, ZenonT(30) DEF Committing, Busy
<1>2. /\ op[n].record.version = acked.version + 1 /\ acked.version \in Nat
      /\ CommittedRecord(n).version = acked.version + 1
  BY <1>0, <1>1, CommittedRecordIs, VersionNumbers, Zenon DEF ProgressInv
<1>3. merge(acked, CommittedRecord(n)) = CommittedRecord(n)
  <2> DEFINE r == CommittedRecord(n)
  <2>1. r.version > acked.version
    BY <1>2
  <2> HIDE DEF r
  <2>2. merge(acked, r) = r
    BY <2>1 DEF merge
  <2>. QED  BY <2>2 DEF r
<1>4. \A m \in Nodes : op'[m] = Idle
  BY <1>0, <1>1, AnswerWriteIs, ProceedsIs, BusyIsAlone
<1>. QED  BY <1>1, <1>2, <1>3, <1>4, CalmSteps, Zenon

\* A write that has caught up is the only request, and its server holds the
\* acknowledged record.
LEMMA ChooseVersionFinds ==
  ASSUME Calm, NEW n \in Nodes, ChooseVersion(n)
  PROVE  /\ ~Choosing /\ n \in Holders
         /\ NewRecord(n).version = acked.version + 1
<1>0. TypeInv /\ StagedInv /\ Alone /\ HoldersInv
  BY DEF Calm, QuietInv
<1>1. CatchingUp(n) /\ Writing(n) /\ op[n].left = {}
  BY <1>0, ChooseVersionIs
<1>2. ~Choosing
  BY <1>0, <1>1 DEF Choosing, Staging, Committing, CatchingUp, Alone
<1>3. n \in Holders
  BY <1>0, <1>1 DEF HoldersInv
<1>. QED  BY <1>2, <1>3 DEF Holders, NewRecord

\* ChooseVersion makes a version that no record has yet.
LEMMA ChooseVersionVersions ==
  ASSUME Calm, NEW n \in Nodes, ChooseVersion(n)
  PROVE  VersionsInv'
<1>0. TypeInv /\ VersionsInv
  BY DEF Calm, QuietInv
<1>1. /\ UNCHANGED <<store, queue, acked>> /\ Proceeds(n, op'[n])
      /\ op'[n] \in Operation(n) /\ op'[n].phase = "stage"
      /\ op'[n].record = NewRecord(n)
  BY <1>0, ChooseVersionIs
<1>2. \A m \in Nodes : m # n => op'[m] = op[m]
  BY <1>0, <1>1, ProceedsIs
<1>3. /\ ~Choosing /\ NewRecord(n).version = acked.version + 1
  BY ChooseVersionFinds
<1>4. Choosing'
  BY <1>1, OperationIsNotIdle DEF Choosing, Staging
<1>5. Records' \subseteq Records \union {NewRecord(n)}
  <2> SUFFICES ASSUME NEW r \in Records', r # NewRecord(n)
               PROVE  r \in Records
    OBVIOUS
  <2>1. \A m \in Nodes : Waiting(m)' = Waiting(m)
    BY <1>1 DEF Waiting
  <2>2. \A m \in Nodes : m # n /\ (Staging(m) \/ Committing(m))' =>
                            op'[m].record \in Records
    BY <1>2, RecordsHave DEF Staging, Committing
  <2>3. \/ r = NoRecord
        \/ r = acked
        \/ \E p \in Nodes : r = store[p]
        \/ \E m \in Nodes : (Staging(m) \/ Committing(m))' /\ r = op'[m].record
        \/ \E p \in Nodes : r \in Waiting(p)
    BY <1>1, <2>1 DEF Records
  <2>. QED  BY <1>1, <2>2, <2>3, RecordsHave, Zenon DEF Records
<1>6. acked.version \in Nat /\ \A r \in Records : r.version \in Nat
  BY <1>0, VersionNumbers
<1>. QED
  BY <1>0, <1>1, <1>3, <1>4, <1>5, <1>6 DEF VersionsInv

\* Every quiet step keeps VersionsInv.
LEMMA VersionsStep ==
  ASSUME SetFacts, Calm, [Next]_vars, seen' = {}
  PROVE  VersionsInv'
<1>0. TypeInv /\ VersionsInv
  BY DEF Calm, QuietInv
<1>1. CASE \E n \in Nodes : ChooseVersion(n)
  BY <1>1, ChooseVersionVersions
<1>2. CASE ~\E n \in Nodes : ChooseVersion(n)
  <2>1. Covered
    BY <1>0, <1>2, CoveredStep
  <2>2. /\ acked.version \in Nat /\ \A r \in Records : r.version \in Nat
    BY <1>0, VersionNumbers
  <2>3. \A r, s \in Records' : r.version = s.version => r.value = s.value
    <3> SUFFICES ASSUME NEW r \in Records', NEW s \in Records', r.version = s.version
                 PROVE  r.value = s.value
      OBVIOUS
    <3>1. PICK x \in Records : Alike(r, x)
      BY <2>1 DEF Covered
    <3>2. PICK y \in Records : Alike(s, y)
      BY <2>1 DEF Covered
    <3>. QED  BY <1>0, <3>1, <3>2, Zenon DEF VersionsInv, Alike
  <2>4. CASE \E n \in Nodes : AnswerWrite(n)
    <3>1. acked'.version = acked.version + 1
      BY <2>4, AnswerWriteAcks
    <3>2. \A r \in Records' : r.version <= acked'.version /\ r.version \in Nat
      BY <1>0, <2>1, <2>2, <3>1 DEF VersionsInv, Covered, Alike
    <3>. QED  BY <2>2, <2>3, <3>1, <3>2 DEF VersionsInv
  <2>5. CASE ~\E n \in Nodes : AnswerWrite(n)
    <3>1. acked' = acked /\ (~Choosing' => ~Choosing)
      BY <2>5, AckedChanges, ChoosingEnds
    <3>. QED  BY <1>0, <2>1, <2>3, <3>1 DEF VersionsInv, Covered, Alike
  <2>. QED  BY <2>4, <2>5
<1>. QED  BY <1>1, <1>2

\* A leader and the peers it finds alive meet every majority.
LEMMA MajoritiesMeet ==
  ASSUME SetFacts, NEW n \in Nodes, NEW alive \in SUBSET Peers(n), Leads(n, alive),
         NEW S \in SUBSET Nodes, MajorityOf(S)
  PROVE  (alive \union {n}) \intersect S # {}
<1> DEFINE T == alive \union {n}
<1> SUFFICES ASSUME T \intersect S = {}
             PROVE  FALSE
  OBVIOUS
<1>1. /\ alive \in SUBSET Nodes /\ T \in SUBSET Nodes /\ Nodes \in SUBSET Nodes
      /\ n \in Nodes \ alive
  BY DEF Peers
<1>2. Cardinality(T) = Cardinality(alive) + 1
  BY <1>1, Zenon DEF SetFacts
<1>3. Cardinality(T) + Cardinality(S) <= Cardinality(Nodes)
  BY <1>1, Zenon DEF SetFacts
<1>7. /\ Cardinality(alive) \in Nat /\ Cardinality(S) \in Nat
      /\ Cardinality(Nodes) \in Nat /\ Cardinality(T) \in Nat
  BY <1>1, Zenon DEF SetFacts
<1>8. ~(Cardinality(alive) + 1 <= (Cardinality(Nodes) - 1) \div 2)
  BY DEF Leads
<1>9. Cardinality(alive) + 1 + Cardinality(S) <= Cardinality(Nodes)
  BY <1>2, <1>3, <1>7
<1>10. 2 * Cardinality(S) > Cardinality(Nodes)
  BY DEF MajorityOf
<1>. QED
  <2> HIDE DEF T
  <2>1. \A a, s, k \in Nat : a + 1 + s <= k /\ 2 * s > k => a + 1 <= (k - 1) \div 2
    OBVIOUS
  <2>. QED  BY <1>7, <1>8, <1>9, <1>10, <2>1

\* While no record is being written, who holds the acknowledged record keeps it.
LEMMA HoldersKept ==
  ASSUME SetFacts, Calm, [Next]_vars, seen' = {}, ~Choosing', UNCHANGED acked
  PROVE  Holders \subseteq Holders'
<1>0. TypeInv /\ TypeInv' /\ VersionsInv'
  BY VersionsStep, TypeStep DEF Calm
<1> SUFFICES ASSUME NEW p \in Holders
             PROVE  p \in Holders'
  OBVIOUS
<1>1. p \in Nodes /\ store[p].version = acked.version /\ store[p].committed
  BY DEF Holders
<1>2. Advances(store[p], store'[p])
  BY <1>0, <1>1, StoreAdvances
<1>3. store'[p] \in Records'
  BY <1>1 DEF Records
<1>4. store'[p].version <= acked.version
  BY <1>0, <1>3 DEF VersionsInv
<1>5. store'[p].version \in Nat /\ acked.version \in Nat
  BY <1>0, <1>1 DEF TypeInv, ReplicaValue
<1>. QED  BY <1>1, <1>2, <1>4, <1>5 DEF Advances, Holders

\* The next peer of catch_up: its committed record is merged.
LEMMA CatchUpHolds ==
  ASSUME SetFacts, Calm, [Next]_vars, seen' = {}, ~Choosing', UNCHANGED acked,
         NEW n \in Nodes, CatchUp(n)
  PROVE  (op'[n].left \union {n}) \intersect Holders' # {}
<1>0. TypeInv /\ TypeInv' /\ HoldersInv /\ VersionsInv'
  BY VersionsStep, TypeStep DEF Calm, QuietInv
<1>1. op[n] \in Operation(n) /\ CatchingUp(n)
  BY <1>0, CatchUpIs
<1>2. PICK p \in op[n].left :
        /\ p \in Nodes /\ p # n
        /\ Proceeds(n, [op[n] EXCEPT !.left = @ \ {p}])
        /\ \/ /\ store' = [store EXCEPT ![n] = merge(@, Dump(store[p]))]
              /\ UNCHANGED seen
           \/ UNCHANGED store /\ seen' = seen \union {"dump_missed"}
  BY <1>0, CatchUpIs
<1>3. store' = [store EXCEPT ![n] = merge(@, Dump(store[p]))]
  BY <1>2
<1>4. op'[n] = [op[n] EXCEPT !.left = @ \ {p}]
  BY <1>0, <1>2 DEF Proceeds, TypeInv
<1>5. op'[n].left = op[n].left \ {p}
  BY <1>1, <1>4, OperationUpdates, Zenon DEF Operation
<1>6. PICK q \in op[n].left \union {n} : q \in Holders
  BY <1>0, <1>1 DEF HoldersInv
<1>7. CASE q # p
  BY <1>5, <1>6, <1>7, HoldersKept
<1>8. CASE q = p
  <2>1. store[p].version = acked.version /\ store[p].committed
    BY <1>6, <1>8 DEF Holders
  <2>2. Dump(store[p]) = store[p]
    BY <2>1 DEF Dump
  <2>3. store[n] \in ReplicaValue /\ store[p] \in ReplicaValue
    BY <1>0, <1>2 DEF TypeInv
  <2>4. store'[n] = merge(store[n], store[p])
    BY <1>0, <1>3, <2>2 DEF TypeInv
  <2>5. store'[n].version <= acked.version
    <3>1. store'[n] \in Records'
      BY DEF Records
    <3>. QED  BY <1>0, <3>1 DEF VersionsInv
  <2>6. /\ store'[n].version >= store[p].version /\ store'[n].version >= store[n].version
        /\ (/\ store'[n].version = store[n].version
            /\ store[n].committed \/ store[p].version = store[n].version)
             => store'[n].committed
        /\ store'[n] \in {store[n], store[p]}
    <3> DEFINE r == merge(store[n], store[p])
    <3>1. /\ r \in {store[n], store[p]} /\ r.version >= store[n].version
          /\ r.version >= store[p].version
          /\ r.version = store[n].version =>
               /\ store[n].committed => r = store[n]
               /\ store[p].version = store[n].version /\ store[p].committed => r.committed
      BY <2>3, MergeIs
    <3>2. store'[n] = r
      BY <2>4
    <3> HIDE DEF r
    <3>. QED  BY <2>1, <3>1, <3>2
  <2>7. /\ store[n].version \in Nat /\ store[p].version \in Nat
        /\ store'[n].version \in Nat
    BY <2>3, <2>6 DEF ReplicaValue
  <2>8. store'[n].version = acked.version
    BY <2>1, <2>5, <2>6, <2>7
  <2>9. store'[n].committed
    BY <2>1, <2>6, <2>8
  <2>. QED  BY <2>8, <2>9 DEF Holders
<1>. QED  BY <1>7, <1>8

\* Every quiet step keeps the acknowledged record to be found.
LEMMA HoldersStep ==
  ASSUME SetFacts, Calm, [Next]_vars, seen' = {}
  PROVE  HoldersInv'
<1>0. TypeInv /\ TypeInv' /\ StagedInv' /\ Alone' /\ HoldersInv /\ ProgressInv
  BY AloneStep, TypeStep, StagedStep DEF Calm, QuietInv
<1>1. CASE Choosing'
  <2>1. PICK m \in Nodes : (Staging(m) \/ Committing(m))'
    BY <1>1 DEF Choosing
  <2>2. Writing(m)' /\ ~CatchingUp(m)'
    BY <1>0, <2>1 DEF StagedInv, StagedAt, Staging, Committing, CatchingUp
  <2>3. \A n \in Nodes : ~CatchingUp(n)'
    BY <1>0, <2>2 DEF Alone, CatchingUp
  <2>. QED  BY <1>1, <2>3 DEF HoldersInv
<1>2. CASE ~Choosing' /\ \E n \in Nodes : AnswerWrite(n)
  <2>1. PICK n \in Nodes : AnswerWrite(n)
    BY <1>2
  <2>2. /\ acked' = CommittedRecord(n) /\ Majority(op[n].oks) /\ Committing(n)
        /\ op[n].record.version = acked'.version
        /\ UNCHANGED store /\ \A m \in Nodes : op'[m] = Idle
    BY <2>1, AnswerWriteAcks, ZenonT(30)
  <2>3. op[n].oks \in SUBSET Peers(n)
    BY <1>0, <2>1, AnswerWriteIs, OperationFields, ZenonT(30)
  <2>4. op[n].oks \union {n} \subseteq Holders'
    BY <1>0, <2>2, <2>3, Zenon DEF ProgressInv, Holders, Peers
  <2>5. MajorityOf(op[n].oks \union {n})
    BY <2>2, <2>3, MajorityIs
  <2>6. Holders' \subseteq Nodes
    BY DEF Holders
  <2>7. MajorityOf(Holders')
    BY <2>4, <2>5, <2>6, MajorityGrows
  <2>8. \A m \in Nodes : ~CatchingUp(m)'
    BY <2>2 DEF CatchingUp
  <2>. QED  BY <2>7, <2>8 DEF HoldersInv, MajorityOf
<1>3. CASE ~Choosing' /\ ~\E n \in Nodes : AnswerWrite(n)
  <2>1. UNCHANGED acked /\ ~Choosing
    BY <1>3, AckedChanges, ChoosingEnds
  <2>2. Holders \subseteq Holders' /\ Holders' \subseteq Nodes /\ MajorityOf(Holders)
    BY <1>0, <1>3, <2>1, HoldersKept DEF Holders, HoldersInv
  <2>3. MajorityOf(Holders')
    BY <2>2, MajorityGrows
  <2>4. ASSUME NEW m \in Nodes, CatchingUp(m)'
        PROVE  (op'[m].left \union {m}) \intersect Holders' # {}
    <3>1. CASE op'[m] = op[m]
      BY <1>0, <2>2, <2>4, <3>1 DEF HoldersInv, CatchingUp
    <3>2. CASE \E call, value : \E alive \in AlivePeers(m) : Lead(m, call, value, alive, {})
      <4>1. PICK call, value : \E alive \in AlivePeers(m) : Lead(m, call, value, alive, {})
        BY <3>2
      <4>2. PICK alive \in AlivePeers(m) : Lead(m, call, value, alive, {})
        BY <4>1
      <4>3. alive \in SUBSET Peers(m) /\ Leads(m, alive)
        BY <4>2 DEF AlivePeers, Peers, Lead
      <4>4. op'[m].left = alive
        BY <1>0, <4>2 DEF Lead, Proceeds, TypeInv
      <4>5. (alive \union {m}) \intersect Holders # {}
        BY <2>2, <4>3, MajoritiesMeet DEF Holders
      <4>. QED  BY <2>2, <4>4, <4>5
    <3>3. CASE CatchUp(m)
      BY <1>3, <2>1, <3>3, CatchUpHolds
    <3>4. CASE AnswerRead(m) \/ Stop(m)
      <4>1. op'[m] = Idle
        BY <1>0, <3>4, ZenonT(30) DEF AnswerRead, Stop, Proceeds, TypeInv
      <4>. QED  BY <2>4, <4>1 DEF CatchingUp
    <3>5. CASE ChooseVersion(m)
      BY <1>0, <2>4, <3>5, ChooseVersionIs, ZenonT(30) DEF CatchingUp
    <3>6. ~Stage(m) /\ ~Decide(m) /\ ~SendCommit(m)
      <4>1. ~Staging(m) /\ ~Committing(m)
        BY <2>1 DEF Choosing
      <4>2. \A phase : \A request \in Requests :
              Send(m, phase, request) => op[m] # Idle /\ op[m].phase = phase
        BY <1>0, SendIs, OperationIsNotIdle
      <4>3. ~Decide(m)
        BY <1>0, <4>1, DecideIs
      <4>. QED  BY <1>0, <4>1, <4>2, <4>3, SendRequests, Zenon DEF Staging, Committing
    <3>. QED  BY <1>0, <1>3, <3>1, <3>2, <3>3, <3>4, <3>5, <3>6, OpChanges, ZenonT(30)
  <2>. QED  BY <2>3, <2>4 DEF HoldersInv, MajorityOf
<1>. QED  BY <1>1, <1>2, <1>3

\* Versions in the stores before and after the step.
LEMMA StoredVersions ==
  ASSUME SetFacts, Calm, [Next]_vars, seen' = {}, NEW p \in Nodes
  PROVE  /\ store[p].version \in Nat /\ store'[p].version \in Nat
         /\ acked.version \in Nat /\ acked'.version \in Nat
         /\ store[p].version <= acked.version + 1
         /\ store'[p].version <= acked'.version + 1
         /\ Advances(store[p], store'[p])
<1>0. TypeInv /\ TypeInv' /\ VersionsInv /\ VersionsInv'
  BY VersionsStep, TypeStep DEF Calm, QuietInv
<1>1. store[p] \in Records /\ store'[p] \in Records'
  BY DEF Records
<1>2. /\ store[p] \in ReplicaValue /\ store'[p] \in ReplicaValue
      /\ acked \in ReplicaValue /\ acked' \in ReplicaValue
  BY <1>0 DEF TypeInv
<1>3. /\ store[p].version \in Nat /\ store'[p].version \in Nat
      /\ acked.version \in Nat /\ acked'.version \in Nat
  BY <1>2 DEF ReplicaValue
<1>. QED  BY <1>0, <1>1, <1>3, StoreAdvances DEF VersionsInv

\* Who holds the record being written as committed keeps it.
LEMMA NewestKept ==
  ASSUME SetFacts, Calm, [Next]_vars, seen' = {}, UNCHANGED acked, NEW p \in Nodes,
         store[p].version = acked.version + 1, store[p].committed
  PROVE  store'[p].version = acked.version + 1 /\ store'[p].committed
BY StoredVersions DEF Advances

\* ProgressInv for one server.
ProgressAt(n) ==
  /\ op[n] # Idle /\ op[n].call = "read" => op[n].floor = acked
  /\ Staging(n) \/ Committing(n) => op[n].record.version = acked.version + 1
  /\ Committing(n) =>
       \A p \in op[n].oks \union {n} :
         store[p].version = op[n].record.version /\ store[p].committed

\* Decide commits the record on the leader itself.
LEMMA DecideProgress ==
  ASSUME SetFacts, Calm, [Next]_vars, seen' = {}, NEW n \in Nodes, Decide(n)
  PROVE  ProgressAt(n)'
<1>0. TypeInv /\ ProgressInv
  BY DEF Calm, QuietInv
<1>1. /\ store' = [store EXCEPT ![n] = merge(@, CommittedRecord(n))]
      /\ op'[n].phase = "commit" /\ op'[n].call = "write"
      /\ op'[n].oks = {} /\ op'[n].record = op[n].record
  BY CalmSteps, ZenonT(30)
<1>2. Staging(n) /\ UNCHANGED acked
  BY <1>0, DecideIs, Zenon
<1>3. op[n].record.version = acked.version + 1
  BY <1>0, <1>2 DEF ProgressInv
<1>4. store'[n] = merge(store[n], CommittedRecord(n))
  BY <1>0, <1>1 DEF TypeInv
<1>5. /\ CommittedRecord(n).version = acked.version + 1
      /\ CommittedRecord(n).committed
  BY <1>0, <1>2, <1>3, CommittedRecordIs DEF Staging
<1>6. store'[n].version = acked.version + 1 /\ store'[n].committed
  BY <1>2, <1>4, <1>5, StoredVersions DEF merge
<1>. QED  BY <1>1, <1>2, <1>3, <1>6 DEF ProgressAt

\* SendCommit counts only servers that have committed the record.
LEMMA SendCommitProgress ==
  ASSUME SetFacts, Calm, [Next]_vars, seen' = {}, NEW n \in Nodes, SendCommit(n)
  PROVE  ProgressAt(n)'
<1>0. TypeInv /\ ProgressInv /\ StagedInv
  BY DEF Calm, QuietInv
<1> DEFINE request == Commit(op[n].record.version)
<1>1. /\ request \in Requests /\ Send(n, "commit", request)
      /\ op[n].record \in ReplicaValue
  BY <1>0, SendRequests
<1>2. op[n].record.version \in Nat /\ request.type = "COMMIT"
      /\ request.version = op[n].record.version
  BY <1>1 DEF ReplicaValue, Commit
<1>3. /\ op[n] \in Operation(n) /\ op[n].phase = "commit" /\ Writing(n)
      /\ UNCHANGED acked
  BY <1>0, <1>1, SendIs
<1>4. op'[n].phase = "commit" /\ op'[n].call = "write" /\ op'[n].record = op[n].record
  BY <1>0, <1>1, <1>2, <1>3, SendCovered DEF Writing
<1>5. PICK p \in op[n].left : p \in Nodes /\ p # n /\ SendOutcome(n, p, request)
  BY <1>0, <1>1, SendIs, ZenonT(30)
<1> HIDE DEF request
<1>6. Committing(n)
  BY <1>3, OperationIsNotIdle DEF Committing
<1>7. op[n].record.version = acked.version + 1
  BY <1>0, <1>6 DEF ProgressInv
<1>8. store[p].version = acked.version + 1
  <2>1. store[p].version >= op[n].record.version
    BY <1>0, <1>5, <1>6 DEF StagedInv, StagedAt
  <2>2. /\ store[p].version \in Nat /\ acked.version \in Nat
        /\ store[p].version <= acked.version + 1
    BY <1>5, StoredVersions
  <2>. QED  BY <1>7, <2>1, <2>2
<1>9. ASSUME NEW q \in op[n].oks \union {n}
      PROVE  store'[q].version = acked.version + 1 /\ store'[q].committed
  <2>1. q \in Nodes
    BY <1>3, OperationFields DEF Peers
  <2>2. store[q].version = acked.version + 1 /\ store[q].committed
    BY <1>0, <1>6, <1>7, <1>9 DEF ProgressInv
  <2>. QED  BY <1>3, <2>1, <2>2, NewestKept
<1>10. \/ op'[n].oks = op[n].oks
       \/ /\ op'[n].oks = op[n].oks \union {p}
          /\ store' = [store EXCEPT ![p] = Handle(@, request)]
  <2>1. /\ [op[n] EXCEPT !.left = @ \ {p}, !.oks = @ \union {p}].oks = op[n].oks \union {p}
        /\ [op[n] EXCEPT !.left = @ \ {p}].oks = op[n].oks
    BY <1>3 DEF Operation
  <2>. QED  BY <1>5, <2>1, Zenon DEF SendOutcome
<1>11. CASE store' = [store EXCEPT ![p] = Handle(@, request)]
  <2>1. store[p] \in ReplicaValue /\ store'[p] = Handle(store[p], request)
    BY <1>0, <1>5, <1>11, ZenonT(30) DEF TypeInv
  <2>2. Handle(store[p], request) = CommitVersion(store[p], op[n].record.version)
    BY ZenonT(30), <1>1, <1>2, <2>1, HandleIs
  <2> DEFINE after == CommitVersion(store[p], op[n].record.version)
  <2>3. after.version = store[p].version /\ after.committed
    BY <1>2, <1>7, <1>8, <2>1, CommitVersionIs
  <2>4. store'[p].version = acked.version + 1 /\ store'[p].committed
    BY <1>8, <2>1, <2>2, <2>3
  <2>. QED  BY <1>3, <1>4, <1>7, <1>9, <1>10, <2>4, ZenonT(30) DEF ProgressAt
<1>12. CASE op'[n].oks = op[n].oks
  BY <1>3, <1>4, <1>7, <1>9, <1>12 DEF ProgressAt
<1>. QED  BY <1>10, <1>11, <1>12

\* Every quiet step keeps ProgressInv.
LEMMA ProgressStep ==
  ASSUME SetFacts, Calm, [Next]_vars, seen' = {}
  PROVE  ProgressInv'
<1>0. TypeInv /\ ProgressInv /\ StagedInv
  BY DEF Calm, QuietInv
<1> SUFFICES ASSUME NEW n \in Nodes, op'[n] # Idle
             PROVE  ProgressAt(n)'
  BY DEF ProgressInv, ProgressAt, Staging, Committing
<1>1. UNCHANGED acked
  BY AckedChanges, AnswerWriteAcks
<1>2. CASE op'[n] = op[n]
  <2>1. /\ Staging(n)' = Staging(n) /\ Committing(n)' = Committing(n)
    BY <1>2 DEF Staging, Committing
  <2>2. ASSUME Committing(n), NEW p \in op[n].oks \union {n}
        PROVE  store'[p].version = op[n].record.version /\ store'[p].committed
    <3>1. p \in Nodes
      BY <1>0, <2>2, OperationFields DEF TypeInv, Committing, Peers
    <3>2. op[n].record.version = acked.version + 1
      BY <1>0, <2>2, Zenon DEF ProgressInv
    <3>. QED  BY <1>0, <1>1, <2>2, <3>1, <3>2, NewestKept DEF ProgressInv
  <2>. QED  BY <1>0, <1>1, <1>2, <2>1, <2>2 DEF ProgressAt, ProgressInv
<1>3. CASE \E call, value, alive : Lead(n, call, value, alive, {})
  <2>1. PICK call, value, alive : Lead(n, call, value, alive, {})
    BY <1>3
  <2>2. /\ op'[n].call = call /\ op'[n].phase = "catch_up"
        /\ op'[n].floor = IF call = "read" THEN acked ELSE NoRecord
    BY <1>0, <2>1 DEF Lead, Proceeds, TypeInv
  <2>. QED  BY <1>1, <2>2 DEF ProgressAt, Staging, Committing
<1>4. CASE CatchUp(n)
  <2>1. op[n] \in Operation(n) /\ CatchingUp(n)
    BY <1>0, <1>4, CatchUpIs
  <2>2. PICK p \in op[n].left : Proceeds(n, [op[n] EXCEPT !.left = @ \ {p}])
    BY <1>0, <1>4, CatchUpIs
  <2>3. /\ op'[n].call = op[n].call /\ op'[n].phase = op[n].phase
        /\ op'[n].floor = op[n].floor
    BY <1>0, <2>1, <2>2 DEF Operation, Proceeds, TypeInv
  <2>. QED  BY <1>0, <1>1, <2>1, <2>3 DEF ProgressAt, ProgressInv, Staging, Committing, CatchingUp
<1>5. CASE ChooseVersion(n)
  BY <1>0, <1>1, <1>5, ChooseVersionIs, ChooseVersionFinds, ZenonT(30) DEF ProgressAt, Committing
<1>6. CASE Stage(n)
  <2>1. /\ Repl(op[n].record) \in Requests /\ op[n].record \in ReplicaValue
        /\ Send(n, "stage", Repl(op[n].record))
    BY <1>0, <1>6, SendRequests
  <2>2. Repl(op[n].record).type = "REPL" /\ Repl(op[n].record).record = op[n].record
    BY <2>1, RequestTypes
  <2>3. Staging(n) /\ Writing(n)
    BY <1>0, <2>1, SendIs, OperationIsNotIdle DEF Staging
  <2>4. op[n].record \in Records
    BY <2>3, RecordsHave
  <2>5. op'[n].phase = "stage" /\ op'[n].call = "write" /\ op'[n].record = op[n].record
    BY <1>0, <2>1, <2>2, <2>3, <2>4, SendCovered DEF Writing
  <2>. QED  BY <1>0, <1>1, <2>3, <2>5 DEF ProgressAt, ProgressInv, Committing
<1>7. CASE Decide(n) \/ SendCommit(n)
  BY <1>7, DecideProgress, SendCommitProgress
<1>8. ~AnswerRead(n) /\ ~AnswerWrite(n) /\ ~Stop(n)
  BY <1>0, AnswerWriteAcks, ZenonT(30) DEF AnswerRead, Stop, Proceeds, TypeInv
<1>. QED  BY <1>0, <1>2, <1>3, <1>4, <1>5, <1>6, <1>7, <1>8, OpChanges, Zenon

\* client_read answers with the acknowledged record or a later one.
LEMMA AnswerReadSees ==
  ASSUME Calm, NEW n \in Nodes, AnswerRead(n)
  PROVE  ReadsSeeAcked'
<1>0. TypeInv /\ HoldersInv /\ ProgressInv /\ VersionsInv
  BY DEF Calm, QuietInv
<1>1. /\ op[n].call = "read" /\ op[n].phase = "catch_up" /\ op[n].left = {}
      /\ read' = [floor |-> op[n].floor, record |-> store[n]]
  BY ZenonT(30) DEF AnswerRead, CaughtUp
<1>2. op[n] # Idle /\ CatchingUp(n)
  BY <1>1, SMTT(30) DEF Idle, CatchingUp
<1>3. op[n].floor = acked
  BY <1>0, <1>1, <1>2 DEF ProgressInv
<1>4. n \in Holders
  BY <1>0, <1>1, <1>2 DEF HoldersInv
<1>5. store[n].version = acked.version /\ store[n].committed
  BY <1>4 DEF Holders
<1>6. store[n].value = acked.value
  BY <1>0, <1>5, RecordsHave DEF VersionsInv
<1>7. acked.version \in Nat
  BY <1>0, VersionNumbers
<1>8. read'.floor = acked /\ read'.record = store[n]
  BY <1>1, <1>3
<1>9. /\ read'.floor.version = acked.version /\ read'.record.version = acked.version
      /\ read'.record.committed /\ read'.record.value = read'.floor.value
  BY <1>5, <1>6, <1>8
<1>. QED  BY <1>7, <1>9 DEF ReadsSeeAcked

\* Every quiet step keeps what reads have seen.
LEMMA ReadsStep ==
  ASSUME Calm, [Next]_vars, seen' = {}
  PROVE  ReadsSeeAcked'
<1>0. ReadsSeeAcked
  BY DEF Calm, QuietInv
<1>1. CASE UNCHANGED read
  BY <1>0, <1>1 DEF ReadsSeeAcked
<1>2. CASE read' = NoRead
  BY <1>2 DEF ReadsSeeAcked, NoRead, NoRecord
<1>3. CASE \E n \in Nodes : AnswerRead(n)
  BY <1>3, AnswerReadSees
<1>4. \/ UNCHANGED read \/ read' = NoRead \/ \E n \in Nodes : AnswerRead(n)
  BY ZenonT(30) DEF Next, vars, client_write, client_read, Lead, CatchUp, ChooseVersion,
         Stage, SendCommit, Send, Decide, AnswerWrite, HandleLate, Stop, Start
<1>. QED  BY <1>1, <1>2, <1>3, <1>4

\* The invariant holds for a new cluster.
LEMMA QuietInit ==
  ASSUME SetFacts, Init
  PROVE  QuietInv
<1>1. \A n \in Nodes : /\ op[n] = Idle /\ ~Writing(n) /\ ~Staging(n)
                       /\ ~Committing(n) /\ ~CatchingUp(n)
                       /\ store[n] = NoRecord /\ queue[n] = <<>>
  BY DEF Init, Writing, Staging, Committing, CatchingUp, Idle
<1>2. Records = {NoRecord}
  <2>1. acked = NoRecord /\ \A p \in Nodes : Waiting(p) = {}
    <3>1. acked = NoRecord
      BY DEF Init
    <3>2. ASSUME NEW p \in Nodes
          PROVE  Waiting(p) = {}
      <4>1. DOMAIN queue[p] = {}
        BY <1>1
      <4>. QED  BY <4>1 DEF Waiting
    <3>. QED  BY <3>1, <3>2
  <2>. QED  BY <1>1, <2>1, RecordsAre, RecordsHave
<1>3. VersionsInv
  BY <1>1, <1>2 DEF VersionsInv, Init, NoRecord
<1>4. HoldersInv
  <2>1. Holders = Nodes
    BY <1>1 DEF Holders, Init, NoRecord
  <2>2. Cardinality(Nodes) \in Nat /\ Cardinality(Nodes) # 0
    BY AllNodes
  <2>. QED  BY <1>1, <2>1, <2>2 DEF HoldersInv, MajorityOf
<1>5. Alone /\ ProgressInv
  BY <1>1 DEF Alone, ProgressInv
<1>6. ReadsSeeAcked
  <2>1. read.floor.version = 0
    BY DEF Init, NoRead, NoRecord
  <2>. QED  BY <2>1 DEF ReadsSeeAcked
<1>. QED  BY <1>3, <1>4, <1>5, <1>6 DEF QuietInv

-----------------------------------------------------------------------------
\* From here on the library's theorems are in scope.
INSTANCE FiniteSetTheorems
INSTANCE WellFoundedInduction

\* The hypotheses of the lemmas, from the library.
LEMMA SetFactsHold == SetFacts
<1>1. ASSUME NEW T \in SUBSET Nat, T # {} PROVE \E x \in T : \A y \in T : x <= y
  <2> DEFINE R == OpToRel(<, Nat)
  <2>1. PICK x \in T : \A y \in T : ~(<<y, x>> \in R)
    BY <1>1, NatLessThanWellFounded, WFMin, Zenon
  <2>2. \A y \in T : ~(y < x)
    BY <2>1, Zenon DEF OpToRel
  <2> HIDE DEF R
  <2>. QED  BY <2>2
<1>2. IsFiniteSet(Nodes) /\ Nodes # {}
  BY ServerAssumption
<1>3. \A S \in SUBSET Nodes : IsFiniteSet(S) /\ Cardinality(S) <= Cardinality(Nodes)
  BY <1>2, FS_Subset
<1>4. \A S \in SUBSET Nodes : Cardinality(S) \in Nat
  BY <1>3, FS_CardinalityType
<1>5. \A S, T \in SUBSET Nodes : S \subseteq T => Cardinality(S) <= Cardinality(T)
  BY <1>3, FS_Subset
<1>6. ASSUME NEW S \in SUBSET Nodes, NEW T \in SUBSET Nodes, S \cap T = {}
      PROVE  Cardinality(S) + Cardinality(T) <= Cardinality(Nodes)
  <2>1. Cardinality(S \union T) = Cardinality(S) + Cardinality(T) - Cardinality(S \cap T)
    BY <1>3, FS_Union
  <2>2. Cardinality(S \cap T) = 0
    BY <1>6, FS_EmptySet
  <2>3. Cardinality(S \union T) <= Cardinality(Nodes)
    BY <1>3
  <2>. QED  BY <1>4, <2>1, <2>2, <2>3
<1>7. \A S \in SUBSET Nodes : \A n \in Nodes \ S : Cardinality(S \union {n}) = Cardinality(S) + 1
  BY <1>3, FS_AddElement, Zenon
<1>8. Cardinality(Nodes) # 0
  BY <1>2, FS_EmptySet
<1>. QED  BY <1>1, <1>4, <1>5, <1>6, <1>7, <1>8 DEF SetFacts

\* The state of the cluster keeps its shape, and a stopped server has no request
\* in progress and none waiting.
THEOREM TypeCorrect == Spec => []TypeOK
<1>1. Init => TypeInv
  BY TypeInit
<1>2. TypeInv /\ [Next]_vars => TypeInv'
  BY TypeStep, SetFactsHold
<1>3. TypeInv => TypeOK
  BY TypeInvGivesTypeOK
<1>. QED  BY <1>1, <1>2, <1>3, PTL DEF Spec

\* The version a server stores never goes back, and a committed record is only
\* replaced by a later one: what merge and the COMMIT handler maintain, whatever
\* requests arrive late, twice or out of order.
THEOREM RecordsOnlyAdvance == Spec => RecordsAdvance
<1>1. Init => TypeInv
  BY TypeInit
<1>2. TypeInv /\ [Next]_vars => TypeInv'
  BY TypeStep, SetFactsHold
<1>3. TypeInv /\ [Next]_vars =>
        [\A n \in Nodes :
           \/ store'[n].version > store[n].version
           \/ /\ store'[n].version = store[n].version
              /\ store'[n].value = store[n].value \/ ~store[n].committed
              /\ store[n].committed => store'[n].committed]_store
  BY StoreAdvances, SetFactsHold DEF Advances
<1>. QED  BY <1>1, <1>2, <1>3, PTL DEF Spec, RecordsAdvance

\* An acknowledged version is on a majority from the answer OK on and for good,
\* whatever else happens: overlapping requests, servers that stop in the middle
\* of a write, requests that are lost or handled late.
THEOREM AckedSurvives == Spec => []AckedOnMajority
<1> DEFINE I == TypeInv /\ StagedInv /\ AckedOnMajority
<1>1. Init => I
  <2>1. Init => StagedInv
    BY DEF Init, StagedInv, StagedAt, Staging, Committing, CatchingUp
  <2>2. ASSUME Init
        PROVE  AckedOnMajority
    <3>1. Keepers = Nodes
      BY <2>2 DEF Init, NoRecord, Keepers
    <3>2. Cardinality(Nodes) \in Nat /\ Cardinality(Nodes) # 0
      BY AllNodes, SetFactsHold
    <3>3. MajorityOf(Keepers)
      BY <3>1, <3>2 DEF MajorityOf
    <3>. QED  BY <3>3 DEF AckedOnMajority, MajorityOf, Keepers
  <2>. QED  BY <2>1, <2>2, TypeInit
<1>2. I /\ [Next]_vars => I'
  BY TypeStep, StagedStep, AckedStep, SetFactsHold
<1>3. I => AckedOnMajority
  OBVIOUS
<1>. QED  BY <1>1, <1>2, <1>3, PTL DEF Spec

\* The invariants of a cluster in which no condition of Unhandled has occurred,
\* with those that hold in any case.
LEMMA Quiet == Spec => []IInv
<1>1. Init => IInv
  BY TypeInit, QuietInit, SetFactsHold
     DEF IInv, Init, StagedInv, StagedAt, Staging, Committing, CatchingUp
<1>2. IInv /\ [Next]_vars => IInv'
  <2> SUFFICES ASSUME IInv, [Next]_vars
               PROVE  IInv'
    OBVIOUS
  <2>1. TypeInv' /\ StagedInv'
    BY TypeStep, StagedStep, SetFactsHold DEF IInv
  <2>2. ASSUME seen' = {}
        PROVE  QuietInv'
    <3>1. Calm
      BY <2>2, SeenGrows DEF Calm, IInv
    <3>. QED
      BY <2>2, <3>1, AloneStep, VersionsStep, HoldersStep, ProgressStep, ReadsStep,
         SetFactsHold
         DEF QuietInv
  <2>. QED  BY <2>1, <2>2 DEF IInv
<1>. QED  BY <1>1, <1>2, PTL DEF Spec

\* Acknowledged writes remain readable, for a cluster of any size: as long as
\* requests do not overlap a write, no leader stops within one, none is given up
\* and live peers answer DUMP, client_read answers with a record at least as new
\* as what had been acknowledged when the read began.
THEOREM AckedReadable == Spec => []ReadsSeeAckedOtherwise
<1>1. IInv => ReadsSeeAckedOtherwise
  BY DEF IInv, QuietInv, ReadsSeeAckedOtherwise
<1>. QED  BY <1>1, Quiet, PTL

\* Under the same conditions merge, REPL and COMMIT never leave two servers with
\* different committed records of one version.
THEOREM CommittedRecordsAgree == Spec => []CommittedAgree
<1>1. IInv => CommittedAgree
  <2> SUFFICES ASSUME TypeInv, QuietInv, NEW m \in Nodes, NEW n \in Nodes,
                      store[m].committed, store[n].committed,
                      store[m].version = store[n].version
               PROVE  store[m] = store[n]
    BY DEF CommittedAgree, IInv
  <2>1. store[m].value = store[n].value
    BY RecordsHave DEF QuietInv, VersionsInv
  <2>2. store[m] \in ReplicaValue /\ store[n] \in ReplicaValue
    BY DEF TypeInv
  <2>. QED  BY <2>1, <2>2 DEF ReplicaValue
<1>. QED  BY <1>1, Quiet, PTL

=============================================================================
