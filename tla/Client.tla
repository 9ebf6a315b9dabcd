------------------------------- MODULE Client -------------------------------
(***************************************************************************)
(* A ClusterClient (client.rs) on top of the servers: it asks one server   *)
(* after the other, follows redirects and repeats its request until it is  *)
(* answered or its attempts are used up.  A request that it has given up   *)
(* may still be worked on, or be handled much later by a server that was   *)
(* paused.  What the client sees is recorded as a history, the way         *)
(* tests/cluster.rs does, and Linearizability judges it.                   *)
(***************************************************************************)
EXTENDS Server

INSTANCE Linearizability

\* A bound also has the client's attempts (8 in the code), the number of calls
\* it makes and what they may be, and the entries of histories that are made up
\* for the checker, without a cluster.
ASSUME ClientAssumption ==
  \A b \in Bounds : /\ b.attempts \in Nat \ {0} /\ b.calls \in Nat
                    /\ b.kinds \subseteq {"put", "delete", "get"}

VARIABLES
  client,     \* the call in progress, and the server that is asked
  history     \* history: the calls that have returned

clientVars == <<client, history>>
allVars == <<vars, clientVars>>

NoCall == [call |-> "none", node |-> 0]

\* The servers in the order in which an attempt asks them.
Ids(preferred) ==
  LET others == Nodes \ {preferred}
  IN  <<preferred>> \o
      [i \in 1..Cardinality(others) |->
         CHOOSE n \in others : Cardinality({m \in others : m < n}) = i - 1]

ClientInit == Init /\ client = NoCall /\ history = <<>>

-----------------------------------------------------------------------------
\* put, delete and get up to the loops of request.
Call(call, value) ==
  /\ client = NoCall /\ Len(history) < bound.calls
  /\ client' = [call |-> call, value |-> value, attempt |-> 1,
                preferred |-> First(Nodes), ids |-> Ids(First(Nodes)), node |-> 0]
  /\ UNCHANGED <<vars, history>>

\* The value of every put is a new one: values are only stored and compared.
put == "put" \in bound.kinds /\ Call("write", Len(history) + 1)
delete == "delete" \in bound.kinds /\ Call("write", Nil)
get == "get" \in bound.kinds /\ Call("read", Nil)

Calling == client # NoCall
Asks(n) == Calling /\ client.node = 0 /\ client.ids # <<>> /\ Head(client.ids) = n

\* The call returns; an error is recorded as info.  The clock of the history
\* ticks when a call begins and when it returns.
Return(outcome, value) ==
  /\ client' = NoCall
  /\ history' = Append(history,
       [invoke |-> 2 * Len(history) + 1, complete |-> 2 * Len(history) + 2,
        op |-> client.call,
        value |-> IF client.call = "read" THEN value ELSE client.value,
        outcome |-> outcome])

Waits(next) == client' = next /\ UNCHANGED history

\* An error or RETRY: the next server of this attempt.
NextServer == Waits([client EXCEPT !.ids = Tail(@), !.node = 0])

\* Mutant of NextAttempt: an attempt that was redirected does not count.
NextAttemptUncounted(preferred) ==
  IF client.attempt = bound.attempts /\ client.ids = <<>> THEN Return("info", Nil)
  ELSE Waits([client EXCEPT !.preferred = preferred, !.ids = Ids(preferred),
                            !.attempt = IF client.ids = <<>> THEN @ + 1 ELSE @])

\* The attempt is over.
NextAttempt(preferred) ==
  IF client.attempt = bound.attempts THEN Return("info", Nil)
  ELSE Waits([client EXCEPT !.attempt = @ + 1, !.preferred = preferred,
                            !.ids = Ids(preferred)])

\* The server cannot be reached in time.
Unreachable(n) == Asks(n) /\ NextServer /\ UNCHANGED vars

\* The server is paused or busy: the request waits, and the client does not.
NotTaken(n) ==
  /\ Asks(n) /\ n \in up /\ late < bound.late /\ late' = late + 1
  /\ queue' = [queue EXCEPT ![n] = Append(@, ClientRequest(client.call, client.value))]
  /\ NextServer
  /\ UNCHANGED <<store, up, op, acked, read, seen, requests, crashes, bound>>

\* REDIRECT, RETRY no-quorum, or the server leads the request.
Taken(n, alive) ==
  /\ Asks(n) /\ Responsive(n)
  /\ \/ /\ \E p \in alive : p < n
        /\ NextAttempt(First(alive)) /\ UNCHANGED vars
     \/ /\ \A p \in alive : n < p
        /\ ~Leads(n, alive) /\ NextServer /\ UNCHANGED vars
     \/ /\ IF client.call = "write" THEN client_write(n, client.value, alive)
                                    ELSE client_read(n, alive)
        /\ Waits([client EXCEPT !.node = n]) /\ UNCHANGED bound

AttemptOver ==
  /\ Calling /\ client.node = 0 /\ client.ids = <<>>
  /\ NextAttempt(client.preferred)
  /\ UNCHANGED vars

\* The client gives up a request that a server works on.
Timeout == client.node # 0 /\ NextServer /\ UNCHANGED vars

\* The steps that the client takes when it hears nothing.
ClientGivesUp ==
  \/ \E n \in Nodes : Unreachable(n)
  \/ AttemptOver \/ Timeout

request ==
  \/ ClientGivesUp
  \/ \E n \in Nodes : NotTaken(n) \/ \E alive \in AlivePeers(n) : Taken(n, alive)

-----------------------------------------------------------------------------
(* The servers, with the client that waits for one of them.                *)

\* The answer of a server: OK, VALUE and NIL end the call, RETRY does not.  It
\* may get lost, and nobody waits for it when the client has given up.
Answer(n, outcome, value) ==
  \/ client.node # n /\ UNCHANGED clientVars
  \/ client.node = n /\ NextServer
  \/ client.node = n /\ outcome = "ok" /\ Return("ok", value)

\* A record that is not committed is answered with NIL.
Visible(record) == IF record.committed THEN record.value ELSE Nil

\* A client's request that was given up is taken from the queue.
HandleLateRequest(n, alive) ==
  /\ n \in up /\ op[n] = Idle /\ queue[n] # <<>> /\ Head(queue[n]).type = "CLIENT"
  /\ queue' = [queue EXCEPT ![n] = Tail(@)]
  /\ \/ Lead(n, Head(queue[n]).call, Head(queue[n]).value, alive, {"late_request"})
     \/ /\ ~Leads(n, alive)
        /\ UNCHANGED <<store, up, op, acked, read, seen, requests, late, crashes>>

ServerStep(n) ==
  /\ UNCHANGED bound
  /\ \/ /\ \/ CatchUp(n) \/ ChooseVersion(n) \/ Stage(n) \/ SendCommit(n)
           \/ HandleLate(n)
           \/ \E alive \in AlivePeers(n) : HandleLateRequest(n, alive)
        /\ UNCHANGED clientVars
     \/ AnswerRead(n) /\ Answer(n, "ok", Visible(store[n]))
     \/ AnswerWrite(n) /\ Answer(n, IF Majority(op[n].oks) THEN "ok" ELSE "retry", Nil)
     \/ /\ Decide(n)
        /\ IF Majority(op[n].oks) THEN UNCHANGED clientVars
                                  ELSE Answer(n, "retry", Nil)

\* A client's connection breaks with the server.
StopOrStart(n) ==
  /\ UNCHANGED bound
  /\ \/ Stop(n) /\ (IF client.node = n THEN NextServer ELSE UNCHANGED clientVars)
     \/ Start(n) /\ UNCHANGED clientVars

\* An entry of a history that is made up for the checker.
Record(entry) ==
  /\ history' = Append(history, entry)
  /\ UNCHANGED <<vars, client>>

ClientNext ==
  \/ put \/ delete \/ get \/ request
  \/ \E n \in Nodes : ServerStep(n) \/ StopOrStart(n)
  \/ Len(history) < bound.calls /\ \E entry \in bound.entries : Record(entry)

\* Each request of the client has a timeout.  Nothing is assumed of the servers,
\* which may hang.
ClientSpec == ClientInit /\ [][ClientNext]_allVars /\ WF_allVars(ClientGivesUp)

-----------------------------------------------------------------------------
(* Properties.                                                             *)

\* The history that a client records is linearizable as long as none of the
\* conditions of Unhandled occurs: redirects, lost answers, requests that are
\* repeated and carried out twice, and servers that stop between two requests
\* do not show.
HistoryLinearizable == seen = {} /\ bound.entries = {} => Linearizable(history)

\* The search of the checker finds an order exactly when there is one, also for
\* operations that overlap, failed ones and those whose outcome is unknown.
CheckerDecides == is_linearizable(history) = Linearizable(history)

\* The client "retries with a bounded backoff" (docs/milestones/
\* milestone-5-cluster.md): every call returns, whatever the servers do
\* or fail to do, redirects in a circle included.
CallsReturn == Calling ~> ~Calling
=============================================================================
