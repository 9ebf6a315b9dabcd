------------------------------- MODULE SqlAst -------------------------------
(***************************************************************************)
(* The values, expressions and statements of sql/ast.rs.  A text is        *)
(* represented by a number, since only the order of texts matters; a       *)
(* Boolean is 0 or 1.                                                      *)
(***************************************************************************)
EXTENDS Integers, Sequences

Null == <<"Null">>
Integer(n) == <<"Integer", n>>
Text(s) == <<"Text", s>>
Boolean(b) == <<"Boolean", b>>

BoolOf(condition) == Boolean(IF condition THEN 1 ELSE 0)

\* The comparisons of BinaryOp; the other two are "AND" and "OR".
Comparisons == {"Eq", "Ne", "Lt", "Le", "Gt", "Ge"}

Column(name) == <<"Column", name>>
Literal(value) == <<"Literal", value>>
Binary(op, left, right) == <<"Binary", op, left, right>>

\* The other statements are records that the parser builds.  An optional part
\* is an empty sequence when it is absent.
Begin == [kind |-> "Begin"]
Commit == [kind |-> "Commit"]
Rollback == [kind |-> "Rollback"]
=============================================================================
