---------------------------- MODULE MCObservable ----------------------------
(***************************************************************************)
(* Small instances of Observable.  Items are 1..3 and the token is odd and *)
(* far from them; the maps add 1 and double, so that their order shows.    *)
(***************************************************************************)
EXTENDS Observable

MCPred(arg, v) == IF arg = 0 THEN v % 2 = 0 ELSE v < arg
MCMapper(arg, v) == IF arg = 1 THEN v + 1 ELSE 2 * v
MCAccum(a, v) == 2 * a + v
MCKey(arg, v) == 1 + (v % arg)

Stage(op, arg) == [op |-> op, arg |-> arg]

StreamStages == {Stage("filter", 0), Stage("map", 1), Stage("map", 2),
  Stage("scan", 0), Stage("distinctUntilChanged", 2), Stage("skipWhile", 3)}
CarryingStages == StreamStages \union {Stage("mapTo", 5), Stage("skip", 1),
  Stage("skipUntil", 2), Stage("distinct", 2), Stage("scanfrom", 4)}
StopStages == {Stage("take", 2), Stage("takeWhile", 3), Stage("takeUntil", 2),
  Stage("first", 0)}
EndStages == StopStages \union {Stage("reduce", 0), Stage("last", 0)}

(* All chains of one or two stages, chains of three with runs of maps, and *)
(* some that hand the token of a take or takeWhile from stage to stage.    *)
MCChains ==
  {<< a >> : a \in CarryingStages \union EndStages}
  \union {<< a, b >> : a \in CarryingStages,
                       b \in CarryingStages \union EndStages}
  \union {<< a, b >> : a \in StopStages, b \in StreamStages \union EndStages}
  \union {<< Stage("map", 1), a, b >> : a \in StreamStages, b \in StreamStages}
  \union {<< a, b, c >> :
             a \in {Stage("take", 2), Stage("takeWhile", 3)},
             b \in {Stage("take", 3), Stage("takeWhile", 2), Stage("skip", 1),
                    Stage("distinct", 2)},
             c \in {Stage("reduce", 0), Stage("last", 0)}}

Source(items, ended, made) ==
  [data |-> items, complete |-> ended, deferred |-> made]

MCSources == {Source(<< >>, FALSE, FALSE), Source(<< 1, 2, 3 >>, FALSE, FALSE),
              Source(<< >>, TRUE, FALSE), Source(<< >>, FALSE, TRUE)}

(* A buffer or a throttleTime alone, after and before other operators.     *)
MCTimedChains ==
  LET held == {Stage("buffer", 0), Stage("throttleTime", 0)}
  IN  {<< h >> : h \in held}
      \union {<< a, h >> : a \in CarryingStages, h \in held}
      \union {<< Stage("take", 2), Stage("buffer", 0) >>}
      \union {<< Stage("throttleTime", 0), a >> : a \in CarryingStages}

MCTimedSources ==
  {Source(<< >>, FALSE, FALSE), Source(<< 1, 2 >>, FALSE, FALSE)}

(* What the two disagreements with the documentation need.                 *)
MCThrottle == {<< Stage("throttleTime", 0) >>}
MCTakeMap == {<< Stage("take", 1), Stage("map", 1) >>}
=============================================================================
