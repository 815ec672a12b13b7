----------------------------- MODULE MCPlanner ------------------------------
(***************************************************************************)
(* Small instances of Planner and of the code it emits.                    *)
(***************************************************************************)
EXTENDS PlannerKernels

Lit(n) == IntLiteral(n)
Name(id) == [is |-> "name", n |-> 0, id |-> id]
Line(head, args) == [head |-> head, args |-> args]
FromSource(name, args) == Line("source", << Name(name) >> \o args)

-----------------------------------------------------------------------------
(* Lines of every shape the parser tells apart, well formed or not.        *)
MCLines ==
  {FromSource("range", << >>), FromSource("external_buffer", << >>),
   FromSource("zip_range", << >>), FromSource("of", << >>),
   FromSource("map", << >>), FromSource("nothing", << >>),
   FromSource("zip_merge_map_range", << Lit(2) >>),
   FromSource("external_window", << Name("x") >>),
   FromSource("zip", << Name("synthetic_records"), Lit(2),
                        Name("synthetic_records"), Lit(3) >>),
   FromSource("zip", << Name("synthetic_records"), Lit(2), Name("range"),
                        Lit(3) >>),
   Line("source", << >>), Line("nothing", << >>),
   Line("map", << Name("inc") >>), Line("map", << >>),
   Line("mapInto", << Name("put"), Name("T") >>),
   Line("mapInto", << Name("put") >>),
   Line("pairMap", << Name("pair") >>),
   Line("tripleMap", << Name("triple") >>),
   Line("filter", << Name("small") >>),
   Line("scan", << Name("mix") >>),
   Line("scanfrom", << Name("mix"), Lit(3) >>),
   Line("scanMut", << Name("mix"), Name("S") >>),
   Line("scanMut", << Name("mix") >>),
   Line("reduce", << Name("mix"), Lit(1) >>), Line("reduce", << Name("mix") >>),
   Line("reduceMut", << Name("mix"), Name("R") >>),
   Line("take", << Lit(2) >>), Line("take", << Name("x") >>),
   Line("skip", << Lit(1) >>), Line("takeWhile", << Name("small") >>),
   Line("skipWhile", << Name("small") >>),
   Line("distinctUntilChanged", << Name("half") >>),
   Line("last", << >>), Line("first", << >>),
   Line("distinct", << Name("half") >>), Line("mapTo", << Lit(1) >>),
   Line("range", << >>)}

-----------------------------------------------------------------------------
(* Helpers and lines for the kernels.                                      *)
F(params, ret) == [params |-> params, ifs |-> << >>, ret |-> ret]
Raw == Var("raw")

MCHelper(f) ==
  CASE f = "inc" -> F(<< "raw" >>, Bin("+", Raw, Num(1)))
    [] f = "double" -> F(<< "raw" >>, Bin("*", Raw, Num(2)))
    [] f = "minus3" -> F(<< "raw" >>, Bin("-", Raw, Num(3)))
    [] f = "plus5" -> F(<< "raw" >>, Bin("+", Raw, Num(5)))
    [] f = "clamp" -> [params |-> << "raw" >>,
                       ifs |-> << [cond |-> Bin("<", Raw, Num(3)),
                                   then |-> Num(1)] >>,
                       ret |-> Raw]
    [] f = "shadow" -> F(<< "value" >>, Bin("+", Var("value"), Num(1)))
    [] f = "seven" -> F(<< "raw" >>, Num(7))
    [] f = "put" -> F(<< "dst", "src" >>, Bin("+", Var("src"), Num(10)))
    [] f = "small" -> F(<< "raw" >>, Bin("<", Raw, Num(5)))
    [] f = "odd" -> F(<< "raw" >>, Bin("%", Raw, Num(2)))
    [] f = "half" -> F(<< "raw" >>, Bin("/", Raw, Num(2)))
    [] f \in {"mix", "mixIn"} ->
         F(<< "raw_accum", "raw_next" >>,
           Bin("+", Bin("*", Var("raw_accum"), Num(2)), Var("raw_next")))
    [] f = "pair" -> F(<< "left_raw", "right_raw" >>,
                       Bin("+", Bin("*", Var("left_raw"), Num(2)),
                                Var("right_raw")))
    [] f = "triple" -> F(<< "zipped_left_raw", "zipped_right_raw",
                            "right_raw" >>,
                         Bin("+", Bin("*", Var("zipped_left_raw"), Num(2)),
                                  Var("right_raw")))

MCAddress(id) ==
  CASE id = "S" -> 1001 [] id = "R" -> 1002 [] id = "T" -> 1003
    [] id = "window_items" -> 1004
MCInitial(id) == CASE id = "S" -> 4 [] id = "R" -> 6 [] id = "T" -> 9
MCSizeOf(id) == CASE id = "S" -> 3 [] id = "R" -> 8 [] id = "T" -> 6
MCAlignOf(id) == CASE id = "S" -> 1 [] id = "R" -> 8 [] id = "T" -> 4
MCRecords == << 2, 2, 6, 3 >>
MCRuns == {0, 4}

MCKernelLines ==
  {FromSource("range", << >>), FromSource("external_buffer", << >>),
   FromSource("zip_range", << >>),
   FromSource("zip_merge_map_range", << Lit(2) >>),
   FromSource("external_window", << Lit(2) >>),
   FromSource("synthetic_records", << Lit(3) >>),
   FromSource("zip", << Name("synthetic_records"), Lit(4),
                        Name("synthetic_records"), Lit(3) >>),
   Line("map", << Name("double") >>), Line("map", << Name("clamp") >>),
   Line("map", << Name("shadow") >>), Line("map", << Name("seven") >>),
   Line("mapInto", << Name("put"), Name("T") >>),
   Line("pairMap", << Name("pair") >>),
   Line("tripleMap", << Name("triple") >>),
   Line("filter", << Name("odd") >>), Line("filter", << Name("half") >>),
   Line("scan", << Name("mix") >>),
   Line("scanfrom", << Name("mix"), Lit(3) >>),
   Line("scanMut", << Name("mixIn"), Name("S") >>),
   Line("reduce", << Name("mix"), Lit(1) >>),
   Line("reduceMut", << Name("mixIn"), Name("R") >>),
   Line("take", << Lit(2) >>), Line("take", << Lit(0) >>),
   Line("skip", << Lit(1) >>),
   Line("takeWhile", << Name("small") >>),
   Line("skipWhile", << Name("small") >>),
   Line("distinctUntilChanged", << Name("half") >>),
   Line("last", << >>), Line("first", << >>)}

(* What the optimiser's lost sign needs.                                   *)
MCGraphLines ==
  {FromSource("range", << >>), Line("map", << Name("minus3") >>),
   Line("map", << Name("plus5") >>), Line("map", << Name("double") >>),
   Line("filter", << Name("small") >>),
   Line("reduce", << Name("mix"), Lit(0) >>), Line("last", << >>)}
=============================================================================
