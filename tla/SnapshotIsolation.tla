------------------------- MODULE SnapshotIsolation -------------------------
(***************************************************************************)
(* What the transaction layer promises (docs/06-mvcc.md), without versions,*)
(* timestamps, logs or garbage collection.  A transaction works on its own *)
(* copy of the database as it was when the transaction began; it commits   *)
(* unless another transaction has committed a change to a key it wrote.    *)
(***************************************************************************)
CONSTANTS Keys, Values, None, Ids

VARIABLES
  database,   \* the committed value of each key
  certain,    \* the same without the commit that a crash has left in doubt
  views,      \* for each open transaction, what it reads for each key
  written,    \* for each open transaction, the keys it has written
  stale       \* for each open transaction, the keys that commits of others
              \* have changed since it began

vars == <<database, certain, views, written, stale>>

Cell == Values \cup {None}

\* A function without the argument t.
Without(f, t) == [u \in DOMAIN f \ {t} |-> f[u]]

\* A function with the value x at the argument t.
With(f, t, x) == [u \in DOMAIN f \cup {t} |-> IF u = t THEN x ELSE f[u]]

\* The database after t's writes.
After(t) == [k \in Keys |-> IF k \in written[t] THEN views[t][k]
                                                ELSE database[k]]

\* The keys t's writes change.  Deleting a key that is absent changes nothing,
\* and no other transaction conflicts with it.
Changes(t) == {k \in written[t] : views[t][k] # None \/ database[k] # None}

Conflicts(t) == written[t] \cap stale[t] # {}

Init ==
  /\ database = [k \in Keys |-> None]
  /\ certain = database
  /\ views = <<>>
  /\ written = <<>>
  /\ stale = <<>>

\* A transaction reads what no crash takes back.
Begin(t) ==
  /\ t \notin DOMAIN views
  /\ views' = With(views, t, database)
  /\ written' = With(written, t, {})
  /\ stale' = With(stale, t, {})
  /\ certain' = database
  /\ UNCHANGED database

Write(t, k, value) ==
  /\ t \in DOMAIN views
  /\ views' = [views EXCEPT ![t][k] = value]
  /\ written' = [written EXCEPT ![t] = @ \cup {k}]
  /\ UNCHANGED <<database, certain, stale>>

Commit(t) ==
  /\ t \in DOMAIN views
  /\ ~Conflicts(t)
  /\ database' = After(t)
  /\ certain' = database'
  /\ views' = Without(views, t)
  /\ written' = Without(written, t)
  /\ stale' = [u \in DOMAIN stale \ {t} |-> stale[u] \cup Changes(t)]

\* Abort, a commit that is refused, or a transaction that is dropped.
Abort(t) ==
  /\ t \in DOMAIN views
  /\ views' = Without(views, t)
  /\ written' = Without(written, t)
  /\ stale' = Without(stale, t)
  /\ UNCHANGED <<database, certain>>

\* Open transactions are lost; one that was committing may have succeeded, and
\* until a transaction begins another crash may undo it.
Crash ==
  /\ \/ UNCHANGED <<database, certain>>
     \/ \E t \in DOMAIN views :
          ~Conflicts(t) /\ database' = After(t) /\ certain' = database
     \/ database' = certain /\ UNCHANGED certain
  /\ views' = <<>>
  /\ written' = <<>>
  /\ stale' = <<>>

Next ==
  \/ \E t \in Ids : Begin(t) \/ Commit(t) \/ Abort(t)
  \/ \E t \in Ids, k \in Keys, value \in Cell : Write(t, k, value)
  \/ Crash

Spec == Init /\ [][Next]_vars
=============================================================================
