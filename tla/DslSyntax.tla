----------------------------- MODULE DslSyntax ------------------------------
(***************************************************************************)
(* The language of core/tools: the tokens its lexer tells apart and the    *)
(* recursive descent of dsl_parser.c, which builds a tree for every        *)
(* function and chain.  A token is its text.  A parse result is            *)
(* [at, tree]: the position after what was read, or 0 when the parser gave *)
(* up; a position of 0 makes everything after it fail.                     *)
(***************************************************************************)
EXTENDS Integers, Sequences, SequencesExt

CONSTANT Numbers    \* the values of the number tokens that occur

Punctuation == {"(", ")", "{", "}", ",", ".", ";", "=", "=>"}

(* A character the lexer has no token for is taken for the end of file.    *)
Stray == "@"
EndToken == "<eof>"

Token(text, i) == IF i \in DOMAIN text THEN text[i] ELSE EndToken

KindOf(token) ==
  CASE token \in Punctuation -> token
    [] token \in DOMAIN Numbers -> "number"
    [] token \in {Stray, EndToken} -> "eof"
    [] OTHER -> "ident"

KindAt(text, i) == KindOf(Token(text, i))

(* Some words are compared by their text alone.                            *)
Words == {"return", "pipe", "subscribe", "assign"}

Matches(token, wanted) ==
  CASE wanted = "value" -> KindOf(token) \in {"ident", "number"}
    [] wanted \in Words -> token = wanted
    [] OTHER -> KindOf(token) = wanted

(* The position after the tokens that are wanted at i.                     *)
Expect(text, i, wanted) ==
  IF i # 0 /\ \A k \in DOMAIN wanted :
                Matches(Token(text, i + k - 1), wanted[k])
  THEN i + Len(wanted) ELSE 0

Found(at, tree) == [at |-> at, tree |-> tree]
Failed == Found(0, << >>)

(* The capacity of an argument list.                                       *)
MaxArgs == 8

-----------------------------------------------------------------------------
(* Expressions and functions.                                              *)
ExprOf(kind, token, args) == [e |-> kind, t |-> token, args |-> args]

CallExpr(name, args) == Found(args.at, ExprOf("call", name, args.tree))

RECURSIVE ParseExpr(_, _), ParseArgs(_, _, _), AfterArg(_, _, _)
ParseExpr(text, i) ==
  LET kind == IF i = 0 THEN "none" ELSE KindAt(text, i)
  IN  CASE kind = "number" ->
             Found(i + 1, ExprOf("number", Token(text, i), << >>))
        [] kind = "ident" /\ KindAt(text, i + 1) # "(" ->
             Found(i + 1, ExprOf("ident", Token(text, i), << >>))
        [] kind = "ident" /\ KindAt(text, i + 1) = "(" ->
             CallExpr(Token(text, i),
                      IF KindAt(text, i + 2) = ")" THEN Found(i + 3, << >>)
                      ELSE ParseArgs(text, i + 2, << >>))
        [] OTHER -> Failed

ParseArgs(text, i, read) ==
  IF Len(read) = MaxArgs THEN Failed
  ELSE AfterArg(text, ParseExpr(text, i), read)

AfterArg(text, arg, read) ==
  CASE arg.at = 0 -> Failed
    [] arg.at # 0 /\ KindAt(text, arg.at) = "," ->
         ParseArgs(text, arg.at + 1, Append(read, arg.tree))
    [] OTHER -> Found(Expect(text, arg.at, << ")" >>), Append(read, arg.tree))

(* At most two parameters.                                                 *)
ParseParams(text, i) ==
  LET none == Expect(text, i, << ")" >>)
      one == Expect(text, i, << "ident", ")" >>)
      two == Expect(text, i, << "ident", ",", "ident", ")" >>)
  IN  IF none # 0 THEN Found(none, << >>)
      ELSE IF one # 0 THEN Found(one, << Token(text, i) >>)
      ELSE Found(two, << Token(text, i), Token(text, i + 2) >>)

(* fn name(params) { return body; }                                        *)
FnOf(text, name, params, body) ==
  Found(Expect(text, body.at, << ";", "}" >>),
        [name |-> name, params |-> params, body |-> body.tree])

FnWith(text, name, params) ==
  FnOf(text, name, params.tree,
       ParseExpr(text, Expect(text, params.at, << "{", "return" >>)))

ParseFnDef(text, i) ==
  FnWith(text, Token(text, i + 1),
         ParseParams(text, Expect(text, i + 1, << "ident", "(" >>)))

-----------------------------------------------------------------------------
(* Sources.                                                                *)
SourceKinds == {"range", "of", "empty", "never", "interval", "timer", "defer",
                "from", "zip"}

NoSource == [kind |-> "none", values |-> << >>, sources |-> << >>]

RECURSIVE ParseSource(_, _), ParseSourceArgs(_, _, _), NestedArg(_, _, _),
          AfterSourceArg(_, _, _)
ParseSource(text, i) ==
  LET open == Expect(text, i, << "ident", "(" >>)
      kind == Token(text, i)
  IN  CASE kind \notin SourceKinds \/ open = 0 -> Failed
        [] kind \in SourceKinds /\ open # 0 /\ KindAt(text, open) = ")" ->
             Found(open + 1, [NoSource EXCEPT !.kind = kind])
        [] OTHER ->
             ParseSourceArgs(text, open, [NoSource EXCEPT !.kind = kind])

(* The arguments of a zip that are named like a source are sources.        *)
ParseSourceArgs(text, i, source) ==
  LET nested == source.kind = "zip" /\ Token(text, i) \in SourceKinds
  IN  CASE nested /\ Len(source.sources) < MaxArgs ->
             NestedArg(text, ParseSource(text, i), source)
        [] ~nested /\ Len(source.values) < MaxArgs ->
             AfterSourceArg(text, Expect(text, i, << "value" >>),
                            [source EXCEPT !.values =
                               Append(@, Token(text, i))])
        [] OTHER -> Failed

NestedArg(text, arg, source) ==
  AfterSourceArg(text, arg.at,
                 [source EXCEPT !.sources = Append(@, arg.tree)])

AfterSourceArg(text, at, source) ==
  CASE at = 0 -> Failed
    [] at # 0 /\ KindAt(text, at) = "," ->
         ParseSourceArgs(text, at + 1, source)
    [] OTHER -> Found(Expect(text, at, << ")" >>), source)

-----------------------------------------------------------------------------
(* Operators.                                                              *)
FunctionOps == {"map", "filter", "scan", "takeWhile", "skipWhile", "distinct",
                "distinctUntilChanged"}
LiteralOps == {"mapTo", "take", "skip", "takeUntil", "skipUntil",
               "throttleTime"}
FunctionAndLiteralOps == {"reduce", "scanfrom"}
BareOps == {"last", "first"}
SourceOps == {"mergeMap", "buffer"}

OpOf(kind, symbol, extra, source) ==
  [kind |-> kind, symbol |-> symbol, extra |-> extra, source |-> source]

(* Mutant: the second argument is dropped.                                 *)
FunctionAndLiteralNoLiteral(text, open, kind) ==
  LET one == Expect(text, open, << "ident", ")" >>)
      two == Expect(text, open, << "ident", ",", "value", ")" >>)
  IN  Found(IF one # 0 THEN one ELSE two,
            OpOf(kind, Token(text, open), "", NoSource))

FunctionAndLiteral(text, open, kind) ==
  LET one == Expect(text, open, << "ident", ")" >>)
      two == Expect(text, open, << "ident", ",", "value", ")" >>)
  IN  IF one # 0 THEN Found(one, OpOf(kind, Token(text, open), "", NoSource))
      ELSE Found(two, OpOf(kind, Token(text, open), Token(text, open + 2),
                           NoSource))

OpWithSource(text, kind, source) ==
  Found(Expect(text, source.at, << ")" >>), OpOf(kind, "", "", source.tree))

ParseOperator(text, i) ==
  LET kind == Token(text, i)
      open == Expect(text, i, << "ident", "(" >>)
  IN  CASE kind \in BareOps ->
             Found(Expect(text, open, << ")" >>), OpOf(kind, "", "", NoSource))
        [] kind \in FunctionOps ->
             Found(Expect(text, open, << "ident", ")" >>),
                   OpOf(kind, Token(text, open), "", NoSource))
        [] kind \in LiteralOps ->
             Found(Expect(text, open, << "value", ")" >>),
                   OpOf(kind, "", Token(text, open), NoSource))
        [] kind \in FunctionAndLiteralOps ->
             FunctionAndLiteral(text, open, kind)
        [] kind \in SourceOps /\ open # 0 ->
             OpWithSource(text, kind, ParseSource(text, open))
        [] OTHER -> Failed

RECURSIVE ParseOperators(_, _, _), AfterOperator(_, _, _)
ParseOperators(text, i, read) ==
  AfterOperator(text, ParseOperator(text, i), read)

AfterOperator(text, op, read) ==
  CASE op.at = 0 -> Failed
    [] op.at # 0 /\ KindAt(text, op.at) = "," ->
         ParseOperators(text, op.at + 1, Append(read, op.tree))
    [] OTHER -> Found(Expect(text, op.at, << ")" >>), Append(read, op.tree))

-----------------------------------------------------------------------------
(* Chains.                                                                 *)

(* (assign(target)); or (v => target = v);                                 *)
ParseSubscribe(text, i) ==
  LET assigned == Expect(text, i, << "(", "assign", "(", "ident", ")",
                                     ")", ";" >>)
      lambda == Expect(text, i, << "(", "ident", "=>", "ident", "=", "ident",
                                   ")", ";" >>)
  IN  IF assigned # 0 THEN Found(assigned, Token(text, i + 3))
      ELSE IF lambda = 0 \/ Token(text, i + 1) # Token(text, i + 5)
              \/ Token(text, i + 1) = "assign" THEN Failed
      ELSE Found(lambda, Token(text, i + 3))

ParsePipe(text, from) ==
  LET piped == Expect(text, from, << ".", "pipe", "(" >>)
  IN  CASE piped = 0 -> Found(from, << >>)
        [] piped # 0 /\ KindAt(text, piped) = ")" -> Found(piped + 1, << >>)
        [] OTHER -> ParseOperators(text, piped, << >>)

ChainOf(source, ops, target) ==
  Found(target.at, [source |-> source, ops |-> ops, target |-> target.tree])

ChainWith(text, source, ops) ==
  ChainOf(source, ops.tree,
          ParseSubscribe(text, Expect(text, ops.at, << ".", "subscribe" >>)))

ChainFrom(text, source) ==
  ChainWith(text, source.tree, ParsePipe(text, source.at))

ParseChain(text, i) == ChainFrom(text, ParseSource(text, i))

-----------------------------------------------------------------------------
(* The ways to write a tree, for what the parser should accept.            *)
Separated(parts) ==
  FoldLeftDomain(LAMBDA out, i : IF i = 1 THEN parts[i]
                                 ELSE out \o << "," >> \o parts[i],
                 << >>, parts)
InParens(parts) == << "(" >> \o Separated(parts) \o << ")" >>

RECURSIVE WriteExpr(_)
WriteExpr(x) ==
  << x.t >> \o IF x.e # "call" THEN << >>
               ELSE InParens([i \in DOMAIN x.args |-> WriteExpr(x.args[i])])

WriteFn(fn) ==
  << "fn", fn.name >>
  \o InParens([i \in DOMAIN fn.params |-> << fn.params[i] >>])
  \o << "{", "return" >> \o WriteExpr(fn.body) \o << ";", "}" >>

(* The values of a zip, which mean nothing, stand before its sources here. *)
RECURSIVE WriteSource(_)
WriteSource(s) ==
  << s.kind >>
  \o InParens([i \in DOMAIN s.values |-> << s.values[i] >>]
              \o [i \in DOMAIN s.sources |-> WriteSource(s.sources[i])])

WriteOp(op) ==
  << op.kind >>
  \o InParens((IF op.symbol = "" THEN << >> ELSE << << op.symbol >> >>)
              \o (IF op.extra = "" THEN << >> ELSE << << op.extra >> >>)
              \o (IF op.source = NoSource THEN << >>
                  ELSE << WriteSource(op.source) >>))

(* form is the lambda's parameter, or "assign"; piped, whether a chain     *)
(* without operators has an empty pipe.                                    *)
WriteChain(chain, form, piped) ==
  WriteSource(chain.source) \o << "." >>
  \o (IF chain.ops = << >> /\ ~piped THEN << >>
      ELSE << "pipe" >>
           \o InParens([i \in DOMAIN chain.ops |-> WriteOp(chain.ops[i])])
           \o << "." >>)
  \o << "subscribe", "(" >>
  \o (IF form = "assign" THEN << "assign", "(", chain.target, ")" >>
      ELSE << form, "=>", chain.target, "=", form >>)
  \o << ")", ";" >>

IsWritingOf(part, chain) ==
  \E form \in Range(part) \union {"assign"}, piped \in BOOLEAN :
    part = WriteChain(chain, form, piped)
=============================================================================
