------------------------------ MODULE CSyntax -------------------------------
(***************************************************************************)
(* The C that both code generators emit, as data: expressions, and         *)
(* statements, of which a block is a sequence.                             *)
(***************************************************************************)
EXTENDS Integers, Sequences

-----------------------------------------------------------------------------
(* C expressions.                                                          *)
Num(n) == [e |-> "num", n |-> n]
Var(v) == [e |-> "var", v |-> v]
Bin(op, l, r) == [e |-> op, l |-> l, r |-> r]
Negation(x) == [e |-> "not", l |-> x]
Call(f, args) == [e |-> "call", f |-> f, args |-> args]
Inlined(f, args) == [e |-> "inlined", f |-> f, args |-> args]
Symbol(id) == [e |-> "symbol", id |-> id]

BinOps == {"+", "-", "*", "/", "%", "<", "<=", ">", ">=", "==", "!=",
           "&&", "||"}

(* The functions an expression calls and the objects it names.             *)
RECURSIVE CalledIn(_)
CalledIn(x) ==
  CASE x.e = "call" ->
         {x.f} \union UNION {CalledIn(x.args[i]) : i \in DOMAIN x.args}
    [] x.e = "not" -> CalledIn(x.l)
    [] x.e \in BinOps -> CalledIn(x.l) \union CalledIn(x.r)
    [] OTHER -> {}

RECURSIVE SymbolsIn(_)
SymbolsIn(x) ==
  CASE x.e = "symbol" -> {x.id}
    [] x.e \in {"call", "inlined"} ->
         UNION {SymbolsIn(x.args[i]) : i \in DOMAIN x.args}
    [] x.e = "not" -> SymbolsIn(x.l)
    [] x.e \in BinOps -> SymbolsIn(x.l) \union SymbolsIn(x.r)
    [] OTHER -> {}

Truth(b) == IF b THEN 1 ELSE 0

(* Division truncates.                                                     *)
Quotient(a, b) ==
  LET abs(x) == IF x < 0 THEN -x ELSE x
      q == abs(a) \div abs(b)
  IN  IF (a < 0) = (b < 0) THEN q ELSE -q

Arith(op, a, b) ==
  CASE op = "+" -> a + b
    [] op = "-" -> a - b
    [] op = "*" -> a * b
    [] op = "/" -> Quotient(a, b)
    [] op = "%" -> a - b * Quotient(a, b)
    [] op = "<" -> Truth(a < b)
    [] op = "<=" -> Truth(a <= b)
    [] op = ">" -> Truth(a > b)
    [] op = ">=" -> Truth(a >= b)
    [] op = "==" -> Truth(a = b)
    [] op = "!=" -> Truth(a # b)
    [] op = "&&" -> Truth(a # 0 /\ b # 0)
    [] op = "||" -> Truth(a # 0 \/ b # 0)

-----------------------------------------------------------------------------
(* C statements.  A block is a sequence of them.                           *)
Decl(v, x) == [s |-> "decl", v |-> v, x |-> x]
Set(v, x) == [s |-> "set", v |-> v, x |-> x]
Effect(f, dst, src, inline) ==
  [s |-> "effect", f |-> f, dst |-> dst, src |-> src, inline |-> inline]
If(cond, then) == [s |-> "if", x |-> cond, then |-> then]
Push(v, x) == [s |-> "push", v |-> v, x |-> x]
Continue == << [s |-> "continue"] >>
Break == << [s |-> "break"] >>
=============================================================================
