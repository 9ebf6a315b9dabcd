------------------------------- MODULE MCSql -------------------------------
(***************************************************************************)
(* Bounded instances of SqlEngine: filters of up to five tokens or six     *)
(* chunks, and one table with three integer keys, whose bytes are not in   *)
(* numeric order, and a column that may be NULL.                           *)
(***************************************************************************)
EXTENDS SqlEngine

A == Parser!Word("A")

Tokens == {<<A>>, <<Parser!Word("NULL")>>, <<Integer(1)>>, <<<<"Eq">>>>,
           <<Parser!Word("AND")>>, <<Parser!Word("OR")>>,
           <<Parser!LeftParen>>, <<Parser!RightParen>>}

Pieces == {<<A>>, <<Parser!LeftParen, A>>, <<A, Parser!RightParen>>,
           <<Parser!Word("AND")>>, <<Parser!Word("OR")>>}

Is(column, op, value) == Binary(op, Column(column), Literal(value))

Filters ==
  { Is("ID", "Eq", Integer(1)),
    Is("ID", "Gt", Integer(1)),
    Is("ID", "Eq", Boolean(1)),
    Binary("Eq", Literal(Integer(4)), Column("ID")),
    Binary("OR", Is("N", "Ne", Integer(1)), Is("ID", "Eq", Integer(-3))),
    Binary("OR", Is("ID", "Eq", Integer(1)),
           Binary("AND", Is("N", "Eq", Integer(1)), Is("ID", "Le", Integer(4)))),
    Binary("AND", Is("ID", "Lt", Integer(4)),
           Binary("OR", Is("N", "Ge", Integer(1)), Literal(Null))),
    Column("X") }

Where == {<<>>} \cup {<<f>> : f \in Filters}

Def(name, type, key) == [name |-> name, data_type |-> type, primary_key |-> key]

Create(columns) == [kind |-> "CreateTable", table |-> "T", columns |-> columns]
Insert(columns, values) ==
  [kind |-> "Insert", table |-> "T", columns |-> columns, values |-> values]
Update(assignments, filter) ==
  [kind |-> "Update", table |-> "T", assignments |-> assignments, filter |-> filter]
Select(kind, projection, filter, order, n) ==
  [kind |-> kind, table |-> "T", projection |-> projection, filter |-> filter,
   order_by |-> order, limit |-> n]

Table == Create(<<Def("ID", "Integer", TRUE), Def("N", "Integer", FALSE)>>)

Reads(filters) ==
  {Select("Select", <<>>, f, <<"N", FALSE>>, <<>>) : f \in filters}
  \cup {Select("Select", <<"N", "ID">>, f, <<>>, <<1>>) : f \in filters}

Changes(filters) ==
  {Update(<<<<"N", Integer(1)>>>>, f) : f \in filters}
  \cup {Update(<<<<"ID", Integer(4)>>>>, f) : f \in filters}
  \cup {[kind |-> "Delete", table |-> "T", filter |-> f] : f \in filters}

Inserts ==
  {Insert(<<"ID", "N">>, <<Integer(i), v>>) : i \in {-3, 1, 4}, v \in {Null, Integer(1)}}

Wrong ==
  { Create(<<Def("ID", "Text", FALSE)>>),
    Insert(<<"N">>, <<Integer(1)>>),
    Insert(<<"ID", "ID">>, <<Integer(1), Integer(2)>>),
    Insert(<<"ID">>, <<Boolean(1)>>),
    Update(<<<<"ID", Null>>>>, <<>>) }

Control == {Begin, Commit, Rollback}

Move == Update(<<<<"ID", Integer(4)>>>>, <<>>)

Mixed == <<Binary("AND", Is("ID", "Lt", Integer(4)),
                  Binary("OR", Is("N", "Ge", Integer(1)), Literal(Null)))>>

\* Single statements, and texts in which an error is followed by more.
Sources ==
  {<<s>> : s \in {Table} \cup Inserts \cup Wrong \cup Control}
  \cup {<<s>> : s \in Changes({<<>>, <<Is("ID", "Eq", Integer(1))>>, Mixed})}
  \cup {<<Select(kind, <<"N", "ID">>, Mixed, <<"ID", TRUE>>, <<1>>)>> :
          kind \in {"Select", "Explain"}}
  \cup {<<Begin, Move, Commit>>, <<Move, Begin>>}

MCBounds ==
  { [chunks |-> Tokens, length |-> 5, sources |-> {}, asked |-> {}, errors |-> 0],
    [chunks |-> Pieces, length |-> 6, sources |-> {}, asked |-> {}, errors |-> 0],
    [chunks |-> {}, length |-> 0, sources |-> Sources,
     asked |-> Reads(Where) \cup Changes(Where) \cup Wrong, errors |-> 1] }
=============================================================================
