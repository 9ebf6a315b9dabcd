----------------------------- MODULE SqlEngine -----------------------------
(***************************************************************************)
(* The SQL engine (sql/executor.rs): texts are parsed as a whole, then run *)
(* statement by statement, in the open transaction or each in its own.     *)
(*                                                                         *)
(* The engine owns its store, so it is the store's only client and its     *)
(* transactions never overlap: the store is the committed database, and a  *)
(* transaction is a copy of it (SnapshotIsolation).  Calls of the store    *)
(* may fail.  What a failed COMMIT leaves in the log is examined in Mvcc.  *)
(***************************************************************************)
EXTENDS SqlExecutor, SqlText

CONSTANT Bounds   \* [chunks, length] of texts that are typed token by token;
                  \* [sources, errors] of texts that are run; [asked] of
                  \* statements whose meaning is examined in every database

VARIABLES
  bound,      \* the member of Bounds in force
  typed,      \* the chunks of tokens typed so far
  source,     \* history: the statements of the text that is run
  pending,    \* the statements that execute has still to run
  committed,  \* the database in the store
  active,     \* the open transaction: <<>>, or <<what it reads>>
  errors      \* store calls that have failed

vars == <<bound, typed, source, pending, committed, active, errors>>

Init ==
  /\ bound \in Bounds
  /\ typed = <<>> /\ source = <<>> /\ pending = <<>>
  /\ committed = <<>> /\ active = <<>>
  /\ errors = 0

-----------------------------------------------------------------------------
\* A user types the next tokens of a filter.
Type(chunk) ==
  /\ Len(typed) < bound.length
  /\ typed' = Append(typed, chunk)
  /\ UNCHANGED <<bound, source, pending, committed, active, errors>>

-----------------------------------------------------------------------------
(* The engine.                                                             *)

\* execute up to its loop.
execute(statements, rest) ==
  /\ pending = <<>>
  /\ LET parsed == Parser!parse(WrittenText(statements, rest))
     IN  pending' = IF parsed.ok THEN parsed.node ELSE <<>>
  /\ source' = IF pending' = <<>> THEN <<>> ELSE statements
  /\ UNCHANGED <<bound, typed, committed, active, errors>>

Current(kinds) == pending # <<>> /\ Head(pending).kind \in kinds

\* The statement is over; an error also ends the loop of execute.
Succeeds == /\ pending' = Tail(pending)
            /\ source' = IF pending' = <<>> THEN <<>> ELSE source
Ends == pending' = <<>> /\ source' = <<>>

Fault == errors < bound.errors /\ errors' = errors + 1

BeginStatement ==
  /\ Current({"Begin"})
  /\ \/ active # <<>> /\ Ends /\ UNCHANGED <<active, errors>>
     \/ active = <<>> /\ active' = <<committed>> /\ Succeeds /\ UNCHANGED errors
     \/ active = <<>> /\ Fault /\ Ends /\ UNCHANGED active
  /\ UNCHANGED <<bound, typed, committed>>

\* The transaction is given up whether or not commit succeeds.
CommitStatement ==
  /\ Current({"Commit"})
  /\ active' = <<>>
  /\ \/ active = <<>> /\ Ends /\ UNCHANGED <<committed, errors>>
     \/ active # <<>> /\ committed' = active[1] /\ Succeeds /\ UNCHANGED errors
     \/ active # <<>> /\ Fault /\ Ends /\ UNCHANGED committed
  /\ UNCHANGED <<bound, typed>>

RollbackStatement ==
  /\ Current({"Rollback"})
  /\ active' = <<>>
  /\ \/ active = <<>> /\ Ends /\ UNCHANGED errors
     \/ active # <<>> /\ Succeeds /\ UNCHANGED errors
     \/ active # <<>> /\ Fault /\ Ends
  /\ UNCHANGED <<bound, typed, committed>>

DataKinds == {"CreateTable", "Insert", "Select", "Update", "Delete", "Explain"}

\* All appends to the log succeed.
AllLogged == -1

\* A transaction that reads db before it runs a statement.
Open(db, left) == [db |-> db, left |-> left, result |-> "ok"]

\* The outcomes of the current statement: every append succeeds, or one fails.
Outcomes(db) ==
  LET run(left) == execute_data(Open(db, left), Head(pending))
      most == 2 * Cardinality(DOMAIN db) + 1
  IN  {run(AllLogged)} \cup
      {t \in {run(left) : left \in 0..most} : t.result = "io" /\ errors < bound.errors}

Counted(txn) == errors' = errors + (IF txn.result = "io" THEN 1 ELSE 0)

\* with_transaction when a transaction is open: it stays open after an error.
DataInTransaction ==
  /\ Current(DataKinds) /\ active # <<>>
  /\ \E txn \in Outcomes(active[1]) :
       /\ active' = <<txn.db>>
       /\ IF Running(txn) THEN Succeeds ELSE Ends
       /\ Counted(txn)
  /\ UNCHANGED <<bound, typed, committed>>

\* Mutant of Finished: the transaction commits even if the statement failed.
FinishedAnyhow(txn) == committed' = txn.db /\ (IF Running(txn) THEN Succeeds ELSE Ends)

\* commit, or abort after an error.
Finished(txn) ==
  IF Running(txn) THEN committed' = txn.db /\ Succeeds
                  ELSE Ends /\ UNCHANGED committed

\* with_transaction otherwise; begin, the operation or commit may fail.
DataAlone ==
  /\ Current(DataKinds) /\ active = <<>>
  /\ \/ \E txn \in Outcomes(committed) : Finished(txn) /\ Counted(txn)
     \/ Fault /\ Ends /\ UNCHANGED committed
  /\ UNCHANGED <<bound, typed, active>>

\* The process ends, and open reads the store again.
Reopen ==
  /\ Ends /\ active' = <<>>
  /\ UNCHANGED <<bound, typed, committed, errors>>

Next ==
  \/ \E chunk \in bound.chunks : Type(chunk)
  \/ \E statements \in bound.sources, rest \in {<<>>, <<"FORM">>} :
       execute(statements, rest)
  \/ BeginStatement \/ CommitStatement \/ RollbackStatement
  \/ DataInTransaction \/ DataAlone \/ Reopen

Spec == Init /\ [][Next]_vars

-----------------------------------------------------------------------------
(* Properties.                                                             *)

View == IF active = <<>> THEN committed ELSE active[1]

\* The statements that are examined, each time a text has been run.
Asked(kinds) ==
  {s \in bound.asked : s.kind \in kinds /\ pending = <<>> /\ Known(View, s.table)}

TableRows(db, table) == {decode_row(db[k]) : k \in RowKeys(db, table)}

\* Every row, committed or seen by the open transaction, belongs to a table,
\* has the types of its columns and is stored under the key of its own
\* primary value, also after an UPDATE that stopped half-way in an open
\* transaction: otherwise an index lookup would miss it.
RowsUnderOwnKey ==
  \A db \in {committed, View} : \A k \in DOMAIN db : k[1] = "__ROW" =>
    /\ Known(db, k[2])
    /\ LET columns == Columns(db, k[2])
           row == decode_row(db[k])
       IN  /\ Len(row) = Len(columns)
           /\ \A i \in DOMAIN row : check_type(row[i], columns[i].data_type)
           /\ row[primary_index(columns)] # Null
           /\ k = row_key(k[2], columns, row)

\* The rule-based planner changes no answer: a SELECT gives what it would give
\* with a full scan.  Only on an empty table an index lookup may refuse a
\* literal of the wrong type, which a scan would never compare.
LookupAgreesWithScan ==
  \A s \in Asked({"Select"}) :
    \/ select_rows(View, s) = Answer(View, s, FullScan)
    \/ RowKeys(View, s.table) = {} /\ select_rows(View, s) = Refused

\* UPDATE assigns to all matching rows at once, although the code moves one row
\* after the other: it succeeds exactly if no row is in error and the new rows
\* have different keys, and no row is ever lost or duplicated on the way.
UpdatesAreSimultaneous ==
  \A s \in Asked({"Update"}) :
    LET columns == Columns(View, s.table)
        rows == TableRows(View, s.table)
        Verdict(row) == matches_filter(s.filter, row, columns)
        matching == {row \in rows : Kept(Verdict(row))}
        New(row) == IF row \in matching THEN Assigned(row, columns, s.assignments) ELSE row
        Primary(row) == New(row)[primary_index(columns)]
        txn == update(Open(View, AllLogged), s)
    IN  /\ Cardinality(RowKeys(txn.db, s.table)) = Cardinality(rows)
        /\ Running(txn) <=>
             /\ \A row \in rows : Verdict(row) # Error
             /\ matching # {} => Assignable(columns, s.assignments)
             /\ \A row \in matching : Primary(row) # Null
             /\ \A r1, r2 \in rows : Primary(r1) = Primary(r2) => r1 = r2
        /\ Running(txn) => TableRows(txn.db, s.table) = {New(row) : row \in rows}

\* "Comparisons involving NULL return unknown" and "WHERE retains only true"
\* (docs/08-sql.md): a row that a filter keeps although a column is NULL is
\* kept whatever value of its type that column has.
NullIsUnknown ==
  \A s \in Asked({"Select", "Update", "Delete"}) :
    LET columns == Columns(View, s.table)
    IN  \A row \in TableRows(View, s.table) : \A i \in DOMAIN row :
          row[i] = Null /\ Kept(matches_filter(s.filter, row, columns)) =>
            \A n \in 0..2 : LET known == [row EXCEPT ![i] = <<columns[i].data_type, n>>]
                            IN  Kept(matches_filter(s.filter, known, columns))

\* "Without BEGIN, each statement is one transaction" (docs/08-sql.md): outside
\* a transaction the store changes only by a statement that succeeds as a
\* whole, and in a transaction only by COMMIT, whatever store calls fail and
\* wherever the process ends.
ChangesAreWhole ==
  [][committed' = committed \/
       /\ pending # <<>> /\ pending' = Tail(pending)
       /\ IF active = <<>>
          THEN LET txn == execute_data(Open(committed, AllLogged), Head(pending))
               IN  Running(txn) /\ committed' = txn.db
          ELSE Head(pending) = Commit /\ committed' = active[1]]_vars

\* What is run is what was written, and a text with an error in its last
\* statement is not run at all.
ParsedAsWritten ==
  \E n \in 0..Len(source) : pending = SubSeq(source, n + 1, Len(source))

\* The parser reads a filter if and only if the grammar has a reading of it,
\* which is then the only one: OR joins AND terms, AND joins comparisons, both
\* from the left, and a comparison does not chain.
ParserFollowsGrammar ==
  LET tokens == FlattenSeq(typed)
      parsed == Parser!parse(Words(<<"DELETE", "FROM", "T", "WHERE">>)
                               \o tokens \o <<Parser!End>>)
  IN  Readings(tokens, 1) =
        IF parsed.ok THEN {parsed.node[1].filter[1]} ELSE {}
=============================================================================
