---------------------------- MODULE SqlExecutor ----------------------------
(***************************************************************************)
(* Running one statement inside a transaction: the catalog (catalog.rs),   *)
(* the planner (sql/plan.rs) and the operators of sql/executor.rs.         *)
(*                                                                         *)
(* db is what the transaction reads: a function from keys to encoded       *)
(* schemas and rows.  A transaction under way is a record [db, left, result]*)
(* where left counts the log appends that will still succeed.              *)
(***************************************************************************)
EXTENDS SqlAst, FiniteSets, SequencesExt

CONSTANT Base    \* an integer has two bytes, each below Base

ASSUME BaseAssumption == Base \in Nat /\ Base > 1 /\ Base % 2 = 0

-----------------------------------------------------------------------------
(* catalog.rs                                                              *)

Primaries(columns) == {i \in DOMAIN columns : columns[i].primary_key}

validate(columns) ==
  /\ Cardinality(Primaries(columns)) = 1
  /\ \A i, j \in DOMAIN columns : columns[i].name = columns[j].name => i = j

primary_index(columns) == CHOOSE i \in Primaries(columns) : TRUE

\* 0 is None.
column_index(columns, name) == SelectInSeq(columns, LAMBDA c : c.name = name)

check_type(value, data_type) == value = Null \/ value[1] = data_type

\* A tag and the bytes; an integer is written from its low byte, in two's
\* complement.
encode_value(value) ==
  CASE value = Null            -> <<78>>
    [] value[1] = "Integer"    -> <<73, value[2] % Base, (value[2] \div Base) % Base>>
    [] value[1] = "Text"       -> <<84, value[2]>>
    [] value[1] = "Boolean"    -> <<66, value[2]>>

Signed(low, high) ==
  low + Base * (IF 2 * high < Base THEN high ELSE high - Base)

decode_value(bytes) ==
  CASE bytes[1] = 78 -> Null
    [] bytes[1] = 73 -> Integer(Signed(bytes[2], bytes[3]))
    [] bytes[1] = 84 -> Text(bytes[2])
    [] bytes[1] = 66 -> Boolean(bytes[2])

encode_row(row) == [i \in DOMAIN row |-> encode_value(row[i])]

\* Every row in the database has the columns and types of its schema, so the
\* errors of decode_row are left out.
decode_row(encoded) == [i \in DOMAIN encoded |-> decode_value(encoded[i])]

TypeTags == [Integer |-> "I", Text |-> "T", Boolean |-> "B"]

encode_schema(columns) ==
  [i \in DOMAIN columns |-> <<columns[i].name, TypeTags[columns[i].data_type],
                              IF columns[i].primary_key THEN "1" ELSE "0">>]

\* Only encode_schema writes schemas, so its errors are left out.
decode_schema(encoded) ==
  [i \in DOMAIN encoded |->
     [name |-> encoded[i][1],
      data_type |-> CHOOSE t \in DOMAIN TypeTags : TypeTags[t] = encoded[i][2],
      primary_key |-> encoded[i][3] = "1"]]

catalog_key(table) == <<"__CATALOG", table>>

row_key_for_primary(table, primary) == <<"__ROW", table, encode_value(primary)>>

row_key(table, columns, row) ==
  row_key_for_primary(table, row[primary_index(columns)])

-----------------------------------------------------------------------------
(* Calls of the transaction (txn.rs).                                      *)

Known(db, table) == catalog_key(table) \in DOMAIN db

Columns(db, table) == decode_schema(db[catalog_key(table)])

RowKeys(db, table) == {k \in DOMAIN db : k[1] = "__ROW" /\ k[2] = table}

\* Keys in the order of their bytes; hex keeps that order.
Before(a, b) ==
  \E i \in DOMAIN a[3] : /\ a[3][i] < b[3][i]
                         /\ \A j \in 1..(i - 1) : a[3][j] = b[3][j]

\* The members of S as a sequence in the order Precedes.
Arranged(S, Precedes(_, _)) ==
  [i \in 1..Cardinality(S) |->
     CHOOSE x \in S : Cardinality({y \in S : Precedes(y, x)}) = i - 1]

\* The keys of a table as scan_prefix gives them.
Scan(db, table) == Arranged(RowKeys(db, table), Before)

all_rows(db, table) ==
  LET keys == Scan(db, table)
  IN  [i \in DOMAIN keys |-> [key |-> keys[i], row |-> decode_row(db[keys[i]])]]

Running(txn) == txn.result = "ok"

Fails(txn, result) == [txn EXCEPT !.result = result]

\* One append to the log, then the change of what the transaction reads.
\* Nothing happens after an error.
Logged(txn, db) ==
  CASE ~Running(txn)                  -> txn
    [] Running(txn) /\ txn.left = 0   -> Fails(txn, "io")
    [] Running(txn) /\ txn.left # 0   -> [txn EXCEPT !.db = db, !.left = @ - 1]

set(txn, key, encoded) ==
  Logged(txn, [k \in DOMAIN txn.db \cup {key} |->
                 IF k = key THEN encoded ELSE txn.db[k]])

remove(txn, key) == Logged(txn, [k \in DOMAIN txn.db \ {key} |-> txn.db[k]])

-----------------------------------------------------------------------------
(* Expressions.                                                            *)

Error == <<"Error">>

Ordered(op, a, b) ==
  CASE op = "Eq" -> a = b  [] op = "Ne" -> a # b
    [] op = "Lt" -> a < b  [] op = "Le" -> a <= b
    [] op = "Gt" -> a > b  [] op = "Ge" -> a >= b

compare(op, left, right) ==
  IF Null \in {left, right} THEN Null
  ELSE IF left[1] # right[1] THEN Error
  ELSE BoolOf(Ordered(op, left[2], right[2]))

\* The operand is true, false or unknown.
truth(value) == value = Null \/ value[1] = "Boolean"

\* Mutant of logic: AND and OR ignore an unknown operand.
logic_ignoring(op, left, right) ==
  LET decides == BoolOf(op = "OR")
  IN  IF ~truth(left) \/ ~truth(right) THEN Error
      ELSE IF decides \in {left, right} THEN decides
      ELSE BoolOf(op # "OR")

\* logic_and and logic_or: one operand can decide, otherwise unknown wins.
logic(op, left, right) ==
  LET decides == BoolOf(op = "OR")
  IN  IF ~truth(left) \/ ~truth(right) THEN Error
      ELSE IF decides \in {left, right} THEN decides
      ELSE IF Null \in {left, right} THEN Null
      ELSE BoolOf(op # "OR")

\* Both operands are evaluated, whatever the first one is.
RECURSIVE eval(_, _, _)
eval(e, row, columns) ==
  CASE e[1] = "Literal" -> e[2]
    [] e[1] = "Column"  -> LET i == column_index(columns, e[2])
                           IN  IF i = 0 THEN Error ELSE row[i]
    [] e[1] = "Binary"  ->
         LET left == eval(e[3], row, columns)
             right == eval(e[4], row, columns)
         IN  IF Error \in {left, right} THEN Error
             ELSE IF e[2] \in Comparisons THEN compare(e[2], left, right)
             ELSE logic(e[2], left, right)

\* The row is kept when this is true; Error ends the statement.
matches_filter(filter, row, columns) ==
  IF filter = <<>> THEN Boolean(1) ELSE eval(filter[1], row, columns)

Kept(verdict) == verdict = Boolean(1)

-----------------------------------------------------------------------------
(* SELECT: sql/plan.rs and select_rows.                                    *)

FullScan == <<>>

\* Mutant of primary_equality: a comparison with the key of any kind.
primary_comparison(e, primary) ==
  CASE e[1] # "Binary" -> FullScan
    [] e[1] = "Binary" /\ e[3] = Column(primary) /\ e[4][1] = "Literal" -> <<e[4][2]>>
    [] OTHER -> FullScan

\* The literal that the primary key must equal.
primary_equality(e, primary) ==
  IF e[1] # "Binary" THEN FullScan
  ELSE IF e[2] = "Eq" /\ e[3] = Column(primary) /\ e[4][1] = "Literal" THEN <<e[4][2]>>
  ELSE IF e[2] = "Eq" /\ e[4] = Column(primary) /\ e[3][1] = "Literal" THEN <<e[3][2]>>
  ELSE FullScan

plan_select(select, columns) ==
  IF select.filter = <<>> THEN FullScan
  ELSE primary_equality(select.filter[1], columns[primary_index(columns)].name)

Rows(rows) == [result |-> "ok", rows |-> rows]
Refused == [result |-> "error"]

access_rows(db, table, columns, access) ==
  LET key == row_key_for_primary(table, access[1])
  IN  IF access = FullScan
      THEN Rows([i \in DOMAIN all_rows(db, table) |-> all_rows(db, table)[i].row])
      ELSE IF access[1] = Null THEN Rows(<<>>)
      ELSE IF ~check_type(access[1], columns[primary_index(columns)].data_type) THEN Refused
      ELSE IF key \in DOMAIN db THEN Rows(<<decode_row(db[key])>>)
      ELSE Rows(<<>>)

compare_for_sort(left, right) == right # Null /\ (left = Null \/ left[2] < right[2])

\* sort_by is stable, in both directions.
Sorted(rows, index, ascending) ==
  LET Less(p, q) == IF ascending THEN compare_for_sort(rows[p][index], rows[q][index])
                                 ELSE compare_for_sort(rows[q][index], rows[p][index])
      order == Arranged(DOMAIN rows, LAMBDA p, q : Less(p, q) \/ (~Less(q, p) /\ p < q))
  IN  [i \in DOMAIN rows |-> rows[order[i]]]

Truncated(rows, limit) ==
  IF limit = <<>> \/ limit[1] >= Len(rows) THEN rows ELSE SubSeq(rows, 1, limit[1])

\* select_rows with the rows that the access gives.
Answer(db, select, access) ==
  LET columns == Columns(db, select.table)
      accessed == access_rows(db, select.table, columns, access)
      Verdict(row) == matches_filter(select.filter, row, columns)
      kept == SelectSeq(accessed.rows, LAMBDA row : Kept(Verdict(row)))
      order == IF select.order_by = <<>> THEN 0
               ELSE column_index(columns, select.order_by[1])
      sorted == IF order = 0 THEN kept ELSE Sorted(kept, order, select.order_by[2])
      indexes == IF select.projection = <<>> THEN [i \in DOMAIN columns |-> i]
                 ELSE [i \in DOMAIN select.projection |->
                         column_index(columns, select.projection[i])]
  IN  IF \/ accessed.result = "error"
         \/ \E i \in DOMAIN accessed.rows : Verdict(accessed.rows[i]) = Error
         \/ select.order_by # <<>> /\ order = 0
         \/ \E i \in DOMAIN indexes : indexes[i] = 0
      THEN Refused
      ELSE Rows([n \in DOMAIN Truncated(sorted, select.limit) |->
                   [i \in DOMAIN indexes |-> sorted[n][indexes[i]]]])

select_rows(db, select) ==
  Answer(db, select, plan_select(select, Columns(db, select.table)))

-----------------------------------------------------------------------------
(* Statements that write.                                                  *)

\* Every column exists, and the value has its type.
Assignable(columns, assignments) ==
  \A i \in DOMAIN assignments :
    LET index == column_index(columns, assignments[i][1])
    IN  index # 0 /\ check_type(assignments[i][2], columns[index].data_type)

Assigned(row, columns, assignments) ==
  FoldLeft(LAMBDA r, a : [r EXCEPT ![column_index(columns, a[1])] = a[2]],
           row, assignments)

insert(txn, stmt) ==
  LET columns == Columns(txn.db, stmt.table)
      pairs == [i \in DOMAIN stmt.columns |-> <<stmt.columns[i], stmt.values[i]>>]
      row == Assigned([i \in DOMAIN columns |-> Null], columns, pairs)
      key == row_key(stmt.table, columns, row)
  IN  IF \/ Len(stmt.columns) # Len(stmt.values)
         \/ Cardinality(ToSet(stmt.columns)) # Len(stmt.columns)
         \/ ~Assignable(columns, pairs)
      THEN Fails(txn, "error")
      ELSE IF row[primary_index(columns)] = Null \/ key \in DOMAIN txn.db
      THEN Fails(txn, "error")
      ELSE set(txn, key, encode_row(row))

\* Mutant of Moved: the row is stored under its old key.
MovedInPlace(txn, old, new, row) == set(txn, old, encode_row(row))

\* Mutant of Moved: the row stays under its old key as well.
MovedAndKept(txn, old, new, row) == set(txn, new, encode_row(row))

Moved(txn, old, new, row) == set(remove(txn, old), new, encode_row(row))

\* One turn of the loop of update; a row whose key changes is moved.
update_row(txn, entry, stmt, columns) ==
  LET verdict == matches_filter(stmt.filter, entry.row, columns)
      row == Assigned(entry.row, columns, stmt.assignments)
      key == row_key(stmt.table, columns, row)
  IN  IF ~Running(txn) THEN txn
      ELSE IF verdict = Error THEN Fails(txn, "error")
      ELSE IF ~Kept(verdict) THEN txn
      ELSE IF ~Assignable(columns, stmt.assignments) THEN Fails(txn, "error")
      ELSE IF row[primary_index(columns)] = Null THEN Fails(txn, "error")
      ELSE IF key = entry.key THEN set(txn, key, encode_row(row))
      ELSE IF key \in DOMAIN txn.db THEN Fails(txn, "error")
      ELSE Moved(txn, entry.key, key, row)

\* The rows are read before the first of them is written.
update(txn, stmt) ==
  FoldLeft(LAMBDA t, entry : update_row(t, entry, stmt, Columns(txn.db, stmt.table)),
           txn, all_rows(txn.db, stmt.table))

delete_row(txn, entry, stmt, columns) ==
  LET verdict == matches_filter(stmt.filter, entry.row, columns)
  IN  IF ~Running(txn) THEN txn
      ELSE IF verdict = Error THEN Fails(txn, "error")
      ELSE IF Kept(verdict) THEN remove(txn, entry.key)
      ELSE txn

delete(txn, stmt) ==
  FoldLeft(LAMBDA t, entry : delete_row(t, entry, stmt, Columns(txn.db, stmt.table)),
           txn, all_rows(txn.db, stmt.table))

create_table(txn, stmt) ==
  IF ~validate(stmt.columns) \/ Known(txn.db, stmt.table) THEN Fails(txn, "error")
  ELSE set(txn, catalog_key(stmt.table), encode_schema(stmt.columns))

\* Every statement but CREATE TABLE begins with load_schema.
execute_data(txn, stmt) ==
  IF stmt.kind # "CreateTable" /\ ~Known(txn.db, stmt.table) THEN Fails(txn, "error")
  ELSE CASE stmt.kind = "CreateTable" -> create_table(txn, stmt)
         [] stmt.kind = "Insert"      -> insert(txn, stmt)
         [] stmt.kind = "Update"      -> update(txn, stmt)
         [] stmt.kind = "Delete"      -> delete(txn, stmt)
         [] stmt.kind = "Select"      -> Fails(txn, select_rows(txn.db, stmt).result)
         [] stmt.kind = "Explain"     -> txn
=============================================================================
