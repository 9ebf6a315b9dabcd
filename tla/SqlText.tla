------------------------------ MODULE SqlText ------------------------------
(***************************************************************************)
(* What a user writes: the tokens of a statement, the engine's input.      *)
(***************************************************************************)
EXTENDS SqlAst, SequencesExt

Parser == INSTANCE SqlParser

\* Parentheses are written where AND binding tighter than OR requires them.
Binding(op) == CASE op = "OR" -> 1 [] op = "AND" -> 2 [] OTHER -> 3

LiteralToken(value) ==
  CASE value = Null          -> Parser!Word("NULL")
    [] value = Boolean(1)    -> Parser!Word("TRUE")
    [] value = Boolean(0)    -> Parser!Word("FALSE")
    [] value[1] = "Text"     -> <<"String", value[2]>>
    [] value[1] = "Integer"  -> value

RECURSIVE Written(_, _)
Written(e, binding) ==
  CASE e[1] = "Literal" -> <<LiteralToken(e[2])>>
    [] e[1] = "Column"  -> <<Parser!Word(e[2])>>
    [] e[1] = "Binary"  ->
         LET own == Binding(e[2])
             token == IF own = 3 THEN <<e[2]>> ELSE Parser!Word(e[2])
             tokens == Written(e[3], IF own = 3 THEN 4 ELSE own)
                         \o <<token>> \o Written(e[4], own + 1)
         IN  IF own >= binding THEN tokens
             ELSE <<Parser!LeftParen>> \o tokens \o <<Parser!RightParen>>

Words(ws) == [i \in DOMAIN ws |-> Parser!Word(ws[i])]

RECURSIVE Separated(_)
Separated(parts) ==
  IF Len(parts) <= 1 THEN FlattenSeq(parts)
  ELSE Head(parts) \o <<Parser!Comma>> \o Separated(Tail(parts))

Enclosed(parts) == <<Parser!LeftParen>> \o Separated(parts) \o <<Parser!RightParen>>

Each(s, Tokens(_)) == [i \in DOMAIN s |-> Tokens(s[i])]

WrittenFilter(filter) ==
  IF filter = <<>> THEN <<>> ELSE Words(<<"WHERE">>) \o Written(filter[1], 1)

TypeNames == [Integer |-> "INT", Text |-> "TEXT", Boolean |-> "BOOLEAN"]

WrittenColumn(c) ==
  Words(<<c.name, TypeNames[c.data_type]>>)
    \o IF c.primary_key THEN Words(<<"PRIMARY", "KEY">>) ELSE <<>>

WrittenSelect(s) ==
  (IF s.projection = <<>> THEN <<Parser!Star>>
   ELSE Separated(Each(s.projection, LAMBDA n : Words(<<n>>))))
    \o Words(<<"FROM", s.table>>) \o WrittenFilter(s.filter)
    \o (IF s.order_by = <<>> THEN <<>>
        ELSE Words(<<"ORDER", "BY", s.order_by[1],
                     IF s.order_by[2] THEN "ASC" ELSE "DESC">>))
    \o (IF s.limit = <<>> THEN <<>>
        ELSE <<Parser!Word("LIMIT"), Integer(s.limit[1])>>)

WrittenStatement(s) ==
  CASE s.kind = "CreateTable" ->
         Words(<<"CREATE", "TABLE", s.table>>) \o Enclosed(Each(s.columns, WrittenColumn))
    [] s.kind = "Insert" ->
         Words(<<"INSERT", "INTO", s.table>>)
           \o Enclosed(Each(s.columns, LAMBDA n : Words(<<n>>))) \o Words(<<"VALUES">>)
           \o Enclosed(Each(s.values, LAMBDA v : <<LiteralToken(v)>>))
    [] s.kind = "Select"  -> Words(<<"SELECT">>) \o WrittenSelect(s)
    [] s.kind = "Explain" -> Words(<<"EXPLAIN", "SELECT">>) \o WrittenSelect(s)
    [] s.kind = "Update" ->
         Words(<<"UPDATE", s.table, "SET">>)
           \o Separated(Each(s.assignments, LAMBDA a :
                <<Parser!Word(a[1]), <<"Eq">>, LiteralToken(a[2])>>))
           \o WrittenFilter(s.filter)
    [] s.kind = "Delete"   -> Words(<<"DELETE", "FROM", s.table>>) \o WrittenFilter(s.filter)
    [] s.kind = "Begin"    -> Words(<<"BEGIN">>)
    [] s.kind = "Commit"   -> Words(<<"COMMIT">>)
    [] s.kind = "Rollback" -> Words(<<"ROLLBACK">>)

\* A text; a word behind its last semicolon is an error.
WrittenText(statements, rest) ==
  FlattenSeq(Each(statements, LAMBDA s : WrittenStatement(s) \o <<Parser!Semicolon>>))
    \o Words(rest) \o <<Parser!End>>

-----------------------------------------------------------------------------
(* The grammar of expressions (docs/08-sql.md).                            *)

\* What a single token stands for.
Leaves(token) ==
  CASE token[1] = "Integer"           -> {Literal(token)}
    [] token = Parser!Word("NULL")    -> {Literal(Null)}
    [] token[1] = "Word" /\ token # Parser!Word("NULL") -> {Column(token[2])}
    [] OTHER                          -> {}

\* The operators of a level of the grammar: OR, AND, comparisons.
Joins(level, token) ==
  CASE level = 1 -> token = Parser!Word("OR")
    [] level = 2 -> token = Parser!Word("AND")
    [] level = 3 -> token[1] \in Comparisons

\* The expressions that the tokens can be read as, from a level upwards.
RECURSIVE Readings(_, _)
Readings(tokens, level) ==
  LET n == Len(tokens)
      Inner == IF n > 2 /\ tokens[1] = Parser!LeftParen /\ tokens[n] = Parser!RightParen
               THEN Readings(SubSeq(tokens, 2, n - 1), 1) ELSE {}
      Split(i) ==
        {Binary(IF level = 3 THEN tokens[i][1] ELSE tokens[i][2], left, right) :
           left \in Readings(SubSeq(tokens, 1, i - 1), IF level = 3 THEN 4 ELSE level),
           right \in Readings(SubSeq(tokens, i + 1, n), level + 1)}
  IN  IF n = 0 THEN {}
      ELSE IF level = 4 THEN Inner \cup (IF n = 1 THEN Leaves(tokens[1]) ELSE {})
      ELSE Readings(tokens, level + 1)
             \cup UNION {Split(i) : i \in {j \in 1..n : Joins(level, tokens[j])}}
=============================================================================
