----------------------------- MODULE SqlParser -----------------------------
(***************************************************************************)
(* The recursive-descent parser (sql/parser.rs) over the tokens of         *)
(* sql/lexer.rs, giving the statements and expressions of sql/ast.rs.      *)
(*                                                                         *)
(* A token is <<"Word", w>>, <<"Integer", n>>, <<"String", s>> or a single *)
(* mark.  A text literal is a number: only the order of texts matters.     *)
(* Every operator takes the tokens and an offset, and gives the node read  *)
(* from there with the offset behind it.  A sequence is applied only to    *)
(* its own indexes, so an offset that runs past the last token (a panic in *)
(* peek) has no value.                                                     *)
(***************************************************************************)
EXTENDS SqlAst

Word(w) == <<"Word", w>>
Comma == <<"Comma">>
LeftParen == <<"LeftParen">>
RightParen == <<"RightParen">>
Star == <<"Star">>
Semicolon == <<"Semicolon">>
End == <<"End">>

-----------------------------------------------------------------------------
Parsed(node, at) == [ok |-> TRUE, node |-> node, at |-> at]
Expected == [ok |-> FALSE]

\* The operator ?: the error, or what follows.
Then(r, Rest(_, _)) == IF r.ok THEN Rest(r.node, r.at) ELSE Expected

\* expect_word and expect_simple.
expect(t, i, token) == IF t[i] = token THEN Parsed(token, i + 1) ELSE Expected

\* word and identifier: any word, keywords included.
word(t, i) == IF t[i][1] = "Word" THEN Parsed(t[i][2], i + 1) ELSE Expected

literal(t, i) ==
  CASE t[i][1] = "Integer"   -> Parsed(Integer(t[i][2]), i + 1)
    [] t[i][1] = "String"    -> Parsed(Text(t[i][2]), i + 1)
    [] t[i] = Word("NULL")   -> Parsed(Null, i + 1)
    [] t[i] = Word("TRUE")   -> Parsed(Boolean(1), i + 1)
    [] t[i] = Word("FALSE")  -> Parsed(Boolean(0), i + 1)
    [] OTHER                 -> Expected

-----------------------------------------------------------------------------
RECURSIVE expr(_, _), operands(_, _, _)

primary(t, i) ==
  CASE t[i] = LeftParen  -> Then(expr(t, i + 1), LAMBDA e, j :
                            Then(expect(t, j, RightParen), LAMBDA x, k :
                                 Parsed(e, k)))
    [] literal(t, i).ok  -> Then(literal(t, i), LAMBDA v, j : Parsed(Literal(v), j))
    [] OTHER             -> Then(word(t, i), LAMBDA w, j : Parsed(Column(w), j))

\* At most one comparison between two primaries.
comparison(t, i) ==
  Then(primary(t, i), LAMBDA left, j :
       IF t[j][1] \notin Comparisons THEN Parsed(left, j)
       ELSE Then(primary(t, j + 1), LAMBDA right, k :
                 Parsed(Binary(t[j][1], left, right), k)))

\* Mutant of Operand: AND does not bind tighter than OR.
OperandFlat(t, i, op) == comparison(t, i)

\* What or and and read between their keywords.
Operand(t, i, op) ==
  IF op = "OR" THEN Then(comparison(t, i), LAMBDA e, j : operands(t, Parsed(e, j), "AND"))
               ELSE comparison(t, i)

\* The loop of or and of and: operands joined from the left.
operands(t, left, op) ==
  IF left.ok /\ t[left.at] = Word(op)
  THEN operands(t, Then(Operand(t, left.at + 1, op), LAMBDA right, j :
                        Parsed(Binary(op, left.node, right), j)), op)
  ELSE left

expr(t, i) == operands(t, Operand(t, i, "OR"), "OR")

\* The optional WHERE clause.
where(t, i) ==
  IF t[i] = Word("WHERE") THEN Then(expr(t, i + 1), LAMBDA e, j : Parsed(<<e>>, j))
                          ELSE Parsed(<<>>, i)

-----------------------------------------------------------------------------
DataTypes == [INT |-> "Integer", INTEGER |-> "Integer", TEXT |-> "Text",
              BOOL |-> "Boolean", BOOLEAN |-> "Boolean"]

column_def(t, i) ==
  Then(word(t, i), LAMBDA name, j :
  Then(word(t, j), LAMBDA type, k :
       IF type \notin DOMAIN DataTypes THEN Expected
       ELSE LET def(primary_key) == [name |-> name, data_type |-> DataTypes[type],
                                     primary_key |-> primary_key]
            IN  IF t[k] = Word("PRIMARY")
                THEN Then(expect(t, k + 1, Word("KEY")), LAMBDA x, l :
                          Parsed(def(TRUE), l))
                ELSE Parsed(def(FALSE), k)))

assignment(t, i) ==
  Then(word(t, i), LAMBDA column, j :
  Then(expect(t, j, <<"Eq">>), LAMBDA x, k :
  Then(literal(t, k), LAMBDA value, l : Parsed(<<column, value>>, l))))

Item(t, i, of) ==
  CASE of = "columns"     -> column_def(t, i)
    [] of = "assignments" -> assignment(t, i)
    [] of = "values"      -> literal(t, i)
    [] of = "names"       -> word(t, i)

\* The loops over items that commas separate.
RECURSIVE list(_, _, _)
list(t, i, of) ==
  Then(Item(t, i, of), LAMBDA node, j :
       IF t[j] = Comma
       THEN Then(list(t, j + 1, of), LAMBDA nodes, k : Parsed(<<node>> \o nodes, k))
       ELSE Parsed(<<node>>, j))

\* A list in parentheses.
listed(t, i, of) ==
  Then(expect(t, i, LeftParen), LAMBDA x, j :
  Then(list(t, j, of), LAMBDA nodes, k :
  Then(expect(t, k, RightParen), LAMBDA y, l : Parsed(nodes, l))))

create_table(t, i) ==
  Then(word(t, i), LAMBDA table, j :
  Then(listed(t, j, "columns"), LAMBDA columns, k :
       Parsed([kind |-> "CreateTable", table |-> table, columns |-> columns], k)))

insert(t, i) ==
  Then(word(t, i), LAMBDA table, j :
  Then(listed(t, j, "names"), LAMBDA columns, k :
  Then(expect(t, k, Word("VALUES")), LAMBDA x, l :
  Then(listed(t, l, "values"), LAMBDA values, m :
       Parsed([kind |-> "Insert", table |-> table, columns |-> columns,
               values |-> values], m)))))

\* Mutant of Ascending: the directions are confused.
AscendingConfused(token) == token # Word("ASC")

Ascending(token) == token # Word("DESC")

order_by(t, i) ==
  IF t[i] # Word("ORDER") THEN Parsed(<<>>, i)
  ELSE Then(expect(t, i + 1, Word("BY")), LAMBDA x, j :
       Then(word(t, j), LAMBDA column, k :
            Parsed(<<column, Ascending(t[k])>>,
                   IF t[k] \in {Word("DESC"), Word("ASC")} THEN k + 1 ELSE k)))

limit(t, i) ==
  CASE t[i] # Word("LIMIT")                                -> Parsed(<<>>, i)
    [] t[i] = Word("LIMIT") /\ t[i + 1][1] # "Integer"     -> Expected
    [] t[i] = Word("LIMIT") /\ t[i + 1][1] = "Integer"
         -> IF t[i + 1][2] >= 0 THEN Parsed(<<t[i + 1][2]>>, i + 2) ELSE Expected

select_after_keyword(t, i, kind) ==
  Then(IF t[i] = Star THEN Parsed(<<>>, i + 1) ELSE list(t, i, "names"),
       LAMBDA projection, j :
  Then(expect(t, j, Word("FROM")), LAMBDA x, k :
  Then(word(t, k), LAMBDA table, l :
  Then(where(t, l), LAMBDA filter, m :
  Then(order_by(t, m), LAMBDA order, n :
  Then(limit(t, n), LAMBDA lim, o :
       Parsed([kind |-> kind, table |-> table, projection |-> projection,
               filter |-> filter, order_by |-> order, limit |-> lim], o)))))))

update(t, i) ==
  Then(word(t, i), LAMBDA table, j :
  Then(expect(t, j, Word("SET")), LAMBDA x, k :
  Then(list(t, k, "assignments"), LAMBDA assignments, l :
  Then(where(t, l), LAMBDA filter, m :
       Parsed([kind |-> "Update", table |-> table, assignments |-> assignments,
               filter |-> filter], m)))))

delete(t, i) ==
  Then(word(t, i), LAMBDA table, j :
  Then(where(t, j), LAMBDA filter, k :
       Parsed([kind |-> "Delete", table |-> table, filter |-> filter], k)))

statement(t, i) ==
  CASE t[i] = Word("CREATE")   -> Then(expect(t, i + 1, Word("TABLE")), LAMBDA x, j :
                                       create_table(t, j))
    [] t[i] = Word("INSERT")   -> Then(expect(t, i + 1, Word("INTO")), LAMBDA x, j :
                                       insert(t, j))
    [] t[i] = Word("SELECT")   -> select_after_keyword(t, i + 1, "Select")
    [] t[i] = Word("UPDATE")   -> update(t, i + 1)
    [] t[i] = Word("DELETE")   -> Then(expect(t, i + 1, Word("FROM")), LAMBDA x, j :
                                       delete(t, j))
    [] t[i] = Word("BEGIN")    -> Parsed(Begin, i + 1)
    [] t[i] = Word("COMMIT")   -> Parsed(Commit, i + 1)
    [] t[i] = Word("ROLLBACK") -> Parsed(Rollback, i + 1)
    [] t[i] = Word("EXPLAIN")  -> Then(expect(t, i + 1, Word("SELECT")), LAMBDA x, j :
                                       select_after_keyword(t, j, "Explain"))
    [] OTHER                   -> Expected

RECURSIVE statements(_, _)
statements(t, i) ==
  CASE t[i] = End       -> Parsed(<<>>, i)
    [] t[i] = Semicolon -> statements(t, i + 1)
    [] OTHER            -> Then(statement(t, i), LAMBDA node, j :
                                IF t[j] \notin {Semicolon, End} THEN Expected
                                ELSE Then(statements(t, j), LAMBDA nodes, k :
                                          Parsed(<<node>> \o nodes, k)))

\* A text is run as a whole or, with an error in any statement, not at all.
parse(t) ==
  Then(statements(t, 1), LAMBDA nodes, i :
       IF nodes = <<>> THEN Expected ELSE Parsed(nodes, i))
=============================================================================
