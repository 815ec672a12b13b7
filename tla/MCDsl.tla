------------------------------- MODULE MCDsl --------------------------------
(***************************************************************************)
(* Programs for DslCompile: every pair of operators over five sources,     *)
(* programs that the compiler should stop, and texts with a token lost or  *)
(* replaced.                                                               *)
(***************************************************************************)
EXTENDS DslMeaning

MCNumbers ==
  [t \in {"0", "1", "2", "3", "4", "5", "7"} |->
     CASE t = "0" -> 0 [] t = "1" -> 1 [] t = "2" -> 2 [] t = "3" -> 3
       [] t = "4" -> 4 [] t = "5" -> 5 [] t = "7" -> 7]
MCDefines == [LIMIT |-> 3]

N(t) == ExprOf("number", t, << >>)
I(t) == ExprOf("ident", t, << >>)
Ap(f, args) == ExprOf("call", f, args)
Fn(name, params, body) == [name |-> name, params |-> params, body |-> body]
S(kind, values) == [NoSource EXCEPT !.kind = kind, !.values = values]
O(kind, symbol, extra) ==
  [kind |-> kind, symbol |-> symbol, extra |-> extra, source |-> NoSource]
OS(kind, source) ==
  [kind |-> kind, symbol |-> "", extra |-> "", source |-> source]
Ch(source, ops, target) == [source |-> source, ops |-> ops, target |-> target]

Write(fns, chains, form) ==
  FlattenSeq([i \in DOMAIN fns |-> WriteFn(fns[i])])
  \o FlattenSeq([i \in DOMAIN chains |-> WriteChain(chains[i], form, FALSE)])

-----------------------------------------------------------------------------
Inc == Fn("inc", << "x" >>, Ap("plus", << I("x"), N("1") >>))
Odd == Fn("odd", << "x" >>, Ap("mod", << I("x"), N("2") >>))
Small == Fn("small", << "next" >>, Ap("lt", << I("next"), I("LIMIT") >>))
Half ==
  Fn("half", << "x" >>,
     Ap("plus", << Ap("div", << I("x"), N("2") >>), N("1") >>))
Mix == Fn("mix", << "accum", "next" >>,
          Ap("plus", << Ap("mul", << I("accum"), N("2") >>), I("next") >>))

FunctionsFor(op) ==
  CASE op.symbol = "inc" -> << Inc >> [] op.symbol = "odd" -> << Odd >>
    [] op.symbol = "small" -> << Small >> [] op.symbol = "half" -> << Half >>
    [] op.symbol = "mix" -> << Mix >> [] op.symbol = "" -> << >>

PairOps ==
  {O("map", "inc", ""), O("filter", "odd", ""), O("reduce", "mix", ""),
   O("reduce", "mix", "5"), O("scan", "mix", ""), O("scanfrom", "mix", "2"),
   O("mapTo", "", "7"), O("take", "", "2"), O("take", "", "0"),
   O("skip", "", "1"), O("takeWhile", "small", ""),
   O("skipWhile", "small", ""), O("distinct", "half", ""),
   O("distinctUntilChanged", "half", ""), O("takeUntil", "", "2"),
   O("skipUntil", "", "2"), O("last", "", ""), O("first", "", "")}

PairSources ==
  {S("range", << "1", "4" >>), S("of", << "2", "2", "5", "1" >>),
   S("of", << "5", "1" >>), S("empty", << >>), S("range", << "1", "0" >>)}

FnsFor(ops) ==
  LET fns == FlattenSeq([i \in DOMAIN ops |-> FunctionsFor(ops[i])])
  IN  FoldLeft(LAMBDA out, f : IF f \in Range(out) THEN out ELSE Append(out, f),
               << >>, fns)

Pairs ==
  {Write(FnsFor(ops), << Ch(source, ops, "r") >>, "assign") :
     source \in PairSources,
     ops \in {<< >>} \union {<< a >> : a \in PairOps}
             \union {<< a, b >> : a \in PairOps, b \in PairOps}}

TripleOps ==
  {O("map", "inc", ""), O("filter", "odd", ""), O("scan", "mix", ""),
   O("take", "", "2"), O("skip", "", "1"), O("takeWhile", "small", ""),
   O("distinctUntilChanged", "half", ""), O("takeUntil", "", "2")}

Triples ==
  {Write(FnsFor(ops), << Ch(S("of", << "2", "2", "5", "1" >>), ops, "r") >>,
         "assign") :
     ops \in {<< a, b, c >> : a \in TripleOps, b \in TripleOps,
                             c \in TripleOps \union {O("last", "", "")}}}

-----------------------------------------------------------------------------
R14 == S("range", << "1", "4" >>)
Mapped(f) == Ch(R14, << O("map", f, "") >>, "r")
One(source, op) == Write(<< Inc, Mix >>, << Ch(source, << op >>, "r") >>, "v")
Zipped == [NoSource EXCEPT !.kind = "zip", !.sources = << R14, R14 >>]

(* Every builtin, on the argument and the variable.                        *)
Calculations ==
  {Write(<< Fn("f", << "x" >>, Ap(b, << I("x"), I("LIMIT") >>)) >>,
         << Mapped("f") >>, "v") : b \in DOMAIN BuiltinOps}
  \union {Write(<< Fn("f", << "x" >>, Ap("identity", << Ap(b, << I("x") >>) >>)) >>,
                << Mapped("f") >>, "v") : b \in UnaryBuiltins}
  \union {Write(<< Fn("f", << "accum", "x" >>,
                      Ap(b, << I("accum"), I("x") >>)) >>,
                << Ch(R14, << O("scanfrom", "f", "LIMIT") >>, "r") >>, "v") :
            b \in {"minus", "lte", "gt"}}

(* Two chains; the first reads what the second leaves.                     *)
TwoChains ==
  {Write(<< Inc >>, << Ch(S("range", << "s", "4" >>), << O("map", "inc", ""),
                                                        O("take", "", "1") >>, "r"),
                       Ch(R14, ops, "s") >>, "v") :
     ops \in {<< >>, << O("map", "inc", "") >>,
              << O("mapTo", "", "r"), O("distinct", "inc", "") >>,
              << O("takeUntil", "", "r") >>}}

(* The first key is 0.                                                     *)
NullKeys ==
  {Write(<< Inc, Odd >>, << Ch(source, ops, "r") >>, "v") :
     source \in {S("range", << "2", "2" >>),
                 S("of", << "2", "2", "5", "1" >>)},
     ops \in {<< O("distinctUntilChanged", "odd", "") >>,
              << O("map", "inc", ""), O("distinctUntilChanged", "odd", "") >>,
              << O("skip", "", "2"), O("distinctUntilChanged", "odd", "") >>}}

(* The functions read the target of their own chain.                       *)
ReadingTarget ==
  LET fns == << Fn("add", << "x" >>, Ap("plus", << I("x"), I("r") >>)),
                Fn("under", << "x" >>, Ap("lt", << I("r"), N("2") >>)),
                Fn("mix", << "accum", "x" >>,
                   Ap("plus", << I("accum"), I("r") >>)),
                Fn("via", << "x" >>, Ap("add", << I("x") >>)) >>
  IN  {Write(fns, << Ch(R14, ops, "r") >>, "v") :
         ops \in {<< O("map", "add", "") >>, << O("filter", "under", "") >>,
                  << O("scanfrom", "mix", "1") >>,
                  << O("map", "add", ""), O("skipWhile", "under", "") >>,
                  << O("map", "add", ""), O("map", "via", "") >>,
                  << O("map", "add", ""), O("take", "", "2") >>}}

(* What lowering or the C compiler stops, or what main cannot follow.      *)
Stoppers ==
  {Write(<< Fn("inc", << "n" >>, Ap("plus", << I("n"), N("1") >>)) >>,
         << Mapped("inc") >>, "v"),
   Write(<< Fn("inc", << "LIMIT" >>, I("LIMIT")) >>, << Mapped("inc") >>, "v"),
   Write(<< Fn("inc", << "x", "next" >>, I("next")) >>,
         << Mapped("inc") >>, "v"),
   Write(<< Inc, Fn("two", << "x" >>, Ap("inc", << I("x") >>)) >>,
         << Mapped("two") >>, "v"),
   Write(<< Inc, Fn("two", << "x" >>, Ap("inc", << I("x") >>)) >>,
         << Ch(R14, << O("map", "two", ""), O("map", "inc", "") >>, "r") >>,
         "v"),
   Write(<< Inc >>, << Ch(R14, << O("map", "inc", ""),
                                  O("distinctUntilChanged", "inc", "") >>,
                          "r") >>, "v"),
   Write(<< Inc, Inc >>, << Mapped("inc") >>, "v"),
   Write(<< Inc, Odd >>, << Mapped("inc") >>, "v"),
   Write(<< Inc >>, << Mapped("odd") >>, "v"),
   Write(<< Inc >>, << Mapped("inc"), Mapped("inc") >>, "v"),
   Write(<< Inc >>, << Ch(R14, << >>, "LIMIT") >>, "v"),
   Write(<< Inc >>, << Ch(R14, << O("map", "inc", "") >>, "inc") >>, "v"),
   Write(<< Fn("range", << "x" >>, I("x")) >>, << Mapped("range") >>, "v"),
   Write(<< Inc >>, << Ch(R14, << O("scanfrom", "mix", "") >>, "r") >>, "v"),
   One(R14, O("scanfrom", "mix", "")), One(R14, O("mapTo", "", "nowhere")),
   One(S("range", << "1" >>), O("last", "", "")),
   One(S("of", << >>), O("last", "", "")),
   One(S("of", << "LIMIT" >>), O("last", "", "")),
   One(S("of", << "LIMIT" >>), O("throttleTime", "", "5")),
   One(S("never", << >>), O("last", "", "")),
   One(S("interval", << "5" >>), O("take", "", "2")),
   One(S("timer", << "5", "5" >>), O("last", "", "")),
   One(S("timer", << "5" >>), O("last", "", "")),
   One(S("defer", << "inc" >>), O("last", "", "")),
   One(S("defer", << "inc" >>), O("map", "inc", "")),
   One(S("of", << "inc" >>), O("map", "inc", "")),
   One(R14, O("mapTo", "", "pop_all")),
   Write(<< Fn("inc", << "x" >>, Ap("plus", << I("inc"), I("x") >>)) >>,
         << Mapped("inc") >>, "v"),
   Write(<< Fn("inc", << "x" >>, Ap("push_back", << I("x") >>)) >>,
         << Mapped("inc") >>, "v"),
   Write(<< Inc >>, << Ch(R14, << O("distinct", "inc", ""),
                                  O("first", "", "") >>, "r") >>, "v"),
   One(S("from", << "LIMIT" >>), O("last", "", "")),
   One(Zipped, O("last", "", "")),
   One([Zipped EXCEPT !.sources = << R14 >>], O("last", "", "")),
   One(R14, OS("mergeMap", R14)), One(R14, OS("buffer", Zipped)),
   One(R14, OS("mergeMap", S("range", << "1" >>))),
   One(R14, OS("mergeMap", S("never", << "nowhere" >>))),
   One(R14, OS("buffer", S("of", << "nowhere" >>))),
   << >>, WriteFn(Inc)}

-----------------------------------------------------------------------------
(* One program with every kind of statement, damaged.                      *)
Sample ==
  Write(<< Mix >>,
        << Ch(Zipped, << O("reduce", "mix", "1"), O("last", "", "") >>, "r") >>,
        "v")

Damaged ==
  {RemoveAt(Sample, i) : i \in DOMAIN Sample}
  \union {ReplaceAt(Sample, i, t) : i \in DOMAIN Sample,
                                    t \in {Stray, "(", "v", ",", "3"}}

MCWellFormed ==
  Pairs \union Triples \union Calculations \union TwoChains \union NullKeys
        \union ReadingTarget \union Stoppers \union {Sample}
MCTexts == MCWellFormed \union Damaged
=============================================================================
