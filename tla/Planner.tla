------------------------------ MODULE Planner ------------------------------
(***************************************************************************)
(* The ahead-of-time planner of core/planner, from the specification file  *)
(* to the program handed to the C emitters: main.c reads the file line by  *)
(* line, simplify.c plans the stages, lower.c turns them into loop         *)
(* operations and state slots, planner_ir.c copies and validates them.     *)
(* The command line plans one pipeline per run.                            *)
(*                                                                         *)
(* A line is [head, args], args a sequence of tokens.  A token or binding  *)
(* is [is, n, id]: an "int" has its number in n, a "name" its text in id.  *)
(* What a line binds is a "function", a "symbol", an "int" or "none".      *)
(***************************************************************************)
EXTENDS Integers, Sequences, FiniteSets

CONSTANTS Lines,      \* the lines a specification file may hold
          MaxLines    \* bound: the lines of one file

(* What strtok_r finds in a line and what a binding holds.                 *)
Ids == {""} \union UNION {{line.args[i].id : i \in DOMAIN line.args} :
                         line \in Lines}
Token == [is : {"int", "name"}, n : Int, id : Ids]
Binding == [is : {"none", "int", "name", "function", "symbol"},
            n : Int, id : Ids]

ASSUME LinesAssumption == \A line \in Lines : line.args \in Seq(Token)
ASSUME MaxLinesAssumption == MaxLines \in Nat

VARIABLES
  phase,      \* where main is: see Phases
  read,       \* lines read
  source,     \* the pipeline's source: its name and its three arguments
  stages,     \* the pipeline's stages, as read
  planned,    \* the planned stages
  candidate,  \* transpile_candidate
  diags,      \* the diagnostics bag
  slots,      \* the lowered pipeline's state slots
  ops,        \* the lowered pipeline's operations
  failedAt    \* the phase that returned an error, or "none"

vars == << phase, read, source, stages, planned, candidate, diags, slots,
           ops, failedAt >>

Phases == {"parse", "plan", "stages", "planned", "lower", "lowering", "ir",
           "validate", "emit", "done", "failed"}

-----------------------------------------------------------------------------
(* The registry.                                                           *)
SourceNames == {"range", "synthetic_records", "external_buffer",
  "external_window", "zip_range", "zip_merge_map_range", "of", "empty",
  "never", "from", "interval", "timer", "defer", "zip"}

StageNames == {"map", "mapInto", "pairMap", "tripleMap", "filter", "scan",
  "scanfrom", "scanMut", "reduce", "reduceMut", "mapTo", "take", "skip",
  "takeWhile", "skipWhile", "distinct", "distinctUntilChanged", "last",
  "first", "mergeMap", "takeUntil", "skipUntil", "buffer", "throttleTime"}

(* transpile_candidate is false.                                           *)
RuntimeOnly == {"of", "empty", "never", "from", "interval", "timer", "defer",
  "zip", "distinct", "mergeMap", "takeUntil", "skipUntil", "buffer",
  "throttleTime"}

FindsSignature(name) == name \in SourceNames \union StageNames

-----------------------------------------------------------------------------
(* Reading a line.                                                         *)
NoArg == [is |-> "none", n |-> 0, id |-> ""]
IntLiteral(n) == [is |-> "int", n |-> n, id |-> ""]

Arg(line, i) == IF i <= Len(line.args) THEN line.args[i] ELSE NoArg

ParsesAsInt(token) == token.is = "int"
FunctionArg(token) == [token EXCEPT !.is = "function"]
SymbolArg(token) == [token EXCEPT !.is = "symbol"]
IntOrSymbol(token) == IF token.is = "name" THEN SymbolArg(token) ELSE token

FunctionStages == {"map", "mapInto", "pairMap", "tripleMap", "filter",
  "scan", "takeWhile", "skipWhile", "distinctUntilChanged"}
MutStages == {"scanMut", "reduceMut"}
CountStages == {"take", "skip"}
BareStages == {"last", "first"}

(* Mutant: the parser takes a mapTo, which no emitter knows.               *)
StageParsesMapTo(line) ==
  LET a == Arg(line, 1)
      b == Arg(line, 2)
  IN  \/ line.head \in FunctionStages \union {"reduce"} /\ a # NoArg
      \/ line.head \in MutStages \union {"scanfrom"} /\ a # NoArg /\ b # NoArg
      \/ line.head \in CountStages \union {"mapTo"} /\ ParsesAsInt(a)
      \/ line.head \in BareStages

(* Every other operator of the registry ends in the parser's last else.    *)
StageParses(line) ==
  LET a == Arg(line, 1)
      b == Arg(line, 2)
  IN  \/ /\ line.head \in FunctionStages
         /\ a # NoArg
         /\ line.head = "mapInto" => b # NoArg
      \/ line.head \in MutStages \union {"scanfrom"} /\ a # NoArg /\ b # NoArg
      \/ line.head = "reduce" /\ a # NoArg
      \/ line.head \in CountStages /\ ParsesAsInt(a)
      \/ line.head \in BareStages

StageCall(line) ==
  LET a == Arg(line, 1)
      b == Arg(line, 2)
  IN  [name |-> line.head,
       primary |-> IF line.head \in CountStages THEN a
                   ELSE IF line.head \in BareStages THEN NoArg
                   ELSE FunctionArg(a),
       secondary |-> IF line.head \in MutStages \union {"mapInto"}
                     THEN SymbolArg(b)
                     ELSE IF line.head \in {"scanfrom", "reduce"}
                     THEN IntOrSymbol(b)
                     ELSE NoArg]

(* The name is the first token of a source line.                           *)
SourceParses(line) ==
  LET name == Arg(line, 1).id
      records(i) == Arg(line, i).id = "synthetic_records"
  IN  /\ Arg(line, 1) # NoArg
      /\ FindsSignature(name)
      /\ name \in {"synthetic_records", "external_window",
                   "zip_merge_map_range"} => ParsesAsInt(Arg(line, 2))
      /\ name = "zip" => /\ records(2) /\ ParsesAsInt(Arg(line, 3))
                         /\ records(4) /\ ParsesAsInt(Arg(line, 5))

(* A later source line leaves the arguments it does not set.               *)
SourceCall(line) ==
  LET name == Arg(line, 1).id
      old == source.args
  IN  [name |-> name,
       args |->
         CASE name = "range" -> << IntLiteral(1), NoArg, old[3] >>
           [] name \in {"synthetic_records", "external_window",
                        "zip_merge_map_range"} ->
                << Arg(line, 2), old[2], old[3] >>
           [] name = "zip_range" -> << IntLiteral(2), old[2], old[3] >>
           [] name = "zip" ->
                << IntLiteral(2), Arg(line, 3), Arg(line, 5) >>
           [] OTHER -> old]

NoSource == [name |-> "none", args |-> << NoArg, NoArg, NoArg >>]

-----------------------------------------------------------------------------
Init ==
  /\ phase = "parse"
  /\ read = 0
  /\ source = NoSource
  /\ stages = << >>
  /\ planned = << >>
  /\ candidate = FALSE
  /\ diags = << >>
  /\ slots = << >>
  /\ ops = << >>
  /\ failedAt = "none"

(* Mutant: main prints the diagnostics and goes on.                        *)
FailGoesOn(where) == UNCHANGED phase /\ failedAt' = where

(* main prints the diagnostics, resets the transpiler and returns 1.       *)
Fail(where) == phase' = "failed" /\ failedAt' = where

ReadLine(line) ==
  /\ phase = "parse"
  /\ read < MaxLines
  /\ read' = read + 1

ReadSource(line) ==
  /\ ReadLine(line)
  /\ line.head = "source"
  /\ SourceParses(line)
  /\ source' = SourceCall(line)
  /\ UNCHANGED << phase, stages, planned, candidate, diags, slots, ops,
                  failedAt >>

ReadStage(line) ==
  /\ ReadLine(line)
  /\ FindsSignature(line.head)
  /\ StageParses(line)
  /\ stages' = Append(stages, StageCall(line))
  /\ UNCHANGED << phase, source, planned, candidate, diags, slots, ops,
                  failedAt >>

RejectLine(line) ==
  /\ ReadLine(line)
  /\ IF line.head = "source" THEN ~SourceParses(line)
     ELSE ~FindsSignature(line.head) \/ ~StageParses(line)
  /\ Fail("parse")
  /\ UNCHANGED << source, stages, planned, candidate, diags, slots, ops >>

EndOfFile ==
  /\ phase = "parse"
  /\ phase' = "plan"
  /\ UNCHANGED << read, source, stages, planned, candidate, diags, slots,
                  ops, failedAt >>

-----------------------------------------------------------------------------
(* Planning.                                                               *)
SelfContainedSources == {"range", "synthetic_records", "external_buffer",
  "external_window", "zip", "zip_range", "zip_merge_map_range"}

PlannedKinds == {"map", "mapInto", "pairMap", "tripleMap", "filter", "scan",
  "scanfrom", "scanMut", "reduce", "reduceMut", "mapTo", "take", "skip",
  "takeWhile", "skipWhile", "distinctUntilChanged", "last", "first"}

PlannedStageKind(name) ==
  IF name \in PlannedKinds THEN name ELSE "unsupported"

StageIsSelfContained(stage) ==
  stage.name \notin RuntimeOnly /\ PlannedStageKind(stage.name) # "unsupported"

Terminals == {"reduce", "reduceMut", "last", "first"}

Diag(code, at) == << [code |-> code, at |-> at] >>
DiagUnless(ok, code, at) == IF ok THEN << >> ELSE Diag(code, at)

PlanSource ==
  /\ phase = "plan"
  /\ candidate' = (source.name \in SelfContainedSources)
  /\ phase' = IF candidate' THEN "stages" ELSE "planned"
  /\ diags' = diags \o DiagUnless(candidate', "source", 0)
  /\ UNCHANGED << read, source, stages, planned, slots, ops, failedAt >>

(* Mutant: a terminal operator may be followed by others.                  *)
StageDiagsNoTerminal(at) ==
  DiagUnless(StageIsSelfContained(stages[at]), "operator", at)

(* No line binds a runtime value to a stage, so the second check of the    *)
(* loop never fires from the command line.                                 *)
StageDiags(at) ==
  LET stage == stages[at]
  IN  DiagUnless(StageIsSelfContained(stage), "operator", at)
      \o DiagUnless(stage.name \notin Terminals \/ at = Len(stages),
                    "unlowerable", at)

PlanStage ==
  /\ phase = "stages"
  /\ Len(planned) < Len(stages)
  /\ LET at == Len(planned) + 1
         found == StageDiags(at)
     IN  /\ planned' = Append(planned,
                              [kind |-> PlannedStageKind(stages[at].name),
                               primary |-> stages[at].primary,
                               secondary |-> stages[at].secondary])
         /\ diags' = diags \o found
         /\ candidate' = (candidate /\ found = << >>)
  /\ UNCHANGED << phase, read, source, stages, slots, ops, failedAt >>

(* The zip sources have no scalar until their first stage has made one.    *)
HeadFits ==
  LET head == IF planned = << >> THEN "none" ELSE planned[1].kind
  IN  /\ source.name \in {"zip", "zip_range"} => head = "pairMap"
      /\ source.name = "zip_merge_map_range" => head = "tripleMap"

(* Mutant: a head that does not fit is refused without a diagnostic.       *)
PlanHeadSilent ==
  /\ phase = "stages"
  /\ Len(planned) = Len(stages)
  /\ phase' = "planned"
  /\ candidate' = (candidate /\ HeadFits)
  /\ UNCHANGED << read, source, stages, planned, diags, slots, ops, failedAt >>

PlanHead ==
  /\ phase = "stages"
  /\ Len(planned) = Len(stages)
  /\ phase' = "planned"
  /\ candidate' = (candidate /\ HeadFits)
  /\ diags' = diags \o DiagUnless(candidate => HeadFits, "unlowerable", 0)
  /\ UNCHANGED << read, source, stages, planned, slots, ops, failedAt >>

PlanDone ==
  /\ phase = "planned"
  /\ IF diags # << >> THEN Fail("plan")
     ELSE phase' = "lower" /\ UNCHANGED failedAt
  /\ UNCHANGED << read, source, stages, planned, candidate, diags, slots,
                  ops >>

-----------------------------------------------------------------------------
(* Lowering.  A slot is [kind, pointer, init]; its name in the emitted C   *)
(* is its kind.  An operation without a slot has slot index 0.             *)
Slot(kind) == [kind |-> kind, pointer |-> FALSE, init |-> IntLiteral(0)]

(* state_slot_value_type and the initial literal: a symbol makes the slot  *)
(* a pointer, a missing literal makes it 0.                                *)
SeededSlot(kind, stage) ==
  [kind |-> kind,
   pointer |-> stage.secondary.is = "symbol",
   init |-> IF stage.secondary.is = "none" THEN IntLiteral(0)
            ELSE stage.secondary]

(* Mutant: last's two slots in the other order.                            *)
SlotsOfSwapped(stage) ==
  CASE stage.kind = "last" -> << Slot("has_last_value"), Slot("last_value") >>
    [] stage.kind = "distinctUntilChanged" ->
         << Slot("last_key"), Slot("has_last_key") >>
    [] OTHER -> << >>

(* The slots a stage appends, its own first.                               *)
SlotsOf(stage) ==
  CASE stage.kind = "scan" -> << Slot("scan_accum") >>
    [] stage.kind \in {"scanfrom", "scanMut"} ->
         << SeededSlot("scan_accum", stage) >>
    [] stage.kind \in {"reduce", "reduceMut"} ->
         << SeededSlot("reduce_accum", stage) >>
    [] stage.kind = "take" -> << Slot("take_count") >>
    [] stage.kind = "skip" -> << Slot("skip_count") >>
    [] stage.kind = "skipWhile" -> << Slot("skip_while_passed") >>
    [] stage.kind = "distinctUntilChanged" ->
         << Slot("last_key"), Slot("has_last_key") >>
    [] stage.kind = "last" -> << Slot("last_value"), Slot("has_last_value") >>
    [] OTHER -> << >>

LoopOpKind(kind) == IF kind = "scanfrom" THEN "scan" ELSE kind

Op(stage) ==
  [kind |-> LoopOpKind(stage.kind), stage |-> stage,
   slot |-> IF SlotsOf(stage) = << >> THEN 0 ELSE Len(slots) + 1,
   aux |-> IF Len(SlotsOf(stage)) < 2 THEN 0 ELSE Len(slots) + 2]

(* The pipeline must be a candidate in one segment; its source must be one *)
(* of those the plan accepts.                                              *)
LowerSource ==
  /\ phase = "lower"
  /\ IF candidate /\ source.name \in SelfContainedSources
     THEN phase' = "lowering" /\ UNCHANGED << diags, failedAt >>
     ELSE Fail("lower") /\ diags' = diags \o Diag("unlowerable", 0)
  /\ UNCHANGED << read, source, stages, planned, candidate, slots, ops >>

LowerStage ==
  /\ phase = "lowering"
  /\ Len(ops) < Len(planned)
  /\ LET stage == planned[Len(ops) + 1]
     IN  IF stage.kind = "unsupported"
         THEN /\ Fail("lower")
              /\ diags' = diags \o Diag("unlowerable", Len(ops) + 1)
              /\ UNCHANGED << slots, ops >>
         ELSE /\ ops' = Append(ops, Op(stage))
              /\ slots' = slots \o SlotsOf(stage)
              /\ UNCHANGED << phase, diags, failedAt >>
  /\ UNCHANGED << read, source, stages, planned, candidate >>

LowerDone ==
  /\ phase = "lowering"
  /\ Len(ops) = Len(planned)
  /\ IF diags = << >> THEN phase' = "ir" /\ UNCHANGED failedAt
     ELSE Fail("lower")
  /\ UNCHANGED << read, source, stages, planned, candidate, diags, slots,
                  ops >>

(* rx_build_planner_ir deep-copies the lowered pipeline.                   *)
BuildIr ==
  /\ phase = "ir"
  /\ phase' = "validate"
  /\ UNCHANGED << read, source, stages, planned, candidate, diags, slots,
                  ops, failedAt >>

IrIsValid ==
  \A i \in DOMAIN ops : ops[i].slot <= Len(slots) /\ ops[i].aux <= Len(slots)

ValidateIr ==
  /\ phase = "validate"
  /\ IF IrIsValid THEN phase' = "emit" /\ UNCHANGED failedAt
     ELSE Fail("validate")
  /\ UNCHANGED << read, source, stages, planned, candidate, diags, slots,
                  ops >>

(* The emitters have no case for mapTo, and need mapInto's scratch symbol. *)
Emittable(op) ==
  /\ op.kind # "mapTo"
  /\ op.kind = "mapInto" => op.stage.secondary.is = "symbol"

Emit ==
  /\ phase = "emit"
  /\ IF \A i \in DOMAIN ops : Emittable(ops[i])
     THEN phase' = "done" /\ UNCHANGED failedAt
     ELSE Fail("emit")
  /\ UNCHANGED << read, source, stages, planned, candidate, diags, slots,
                  ops >>

Next ==
  \/ \E line \in Lines : \/ ReadSource(line)
                         \/ ReadStage(line)
                         \/ RejectLine(line)
  \/ EndOfFile
  \/ PlanSource \/ PlanStage \/ PlanHead \/ PlanDone
  \/ LowerSource \/ LowerStage \/ LowerDone
  \/ BuildIr \/ ValidateIr \/ Emit

Spec == Init /\ [][Next]_vars
-----------------------------------------------------------------------------
(* The types of the planner's state: every stage read becomes a planned    *)
(* stage and then an operation, in order, and a pass has failed exactly    *)
(* when main has stopped with an error (main.c:429).                       *)
StageRecord == [name : StageNames, primary : Binding, secondary : Binding]
PlannedRecord == [kind : PlannedKinds \union {"unsupported"},
                  primary : Binding, secondary : Binding]
SlotKinds == {"scan_accum", "reduce_accum", "take_count", "skip_count",
              "skip_while_passed", "last_key", "has_last_key", "last_value",
              "has_last_value"}
SlotRecord == [kind : SlotKinds, pointer : BOOLEAN, init : Binding]
DiagRecord == [code : {"source", "operator", "unlowerable"}, at : Nat]
OpRecord == [kind : PlannedKinds, stage : PlannedRecord,
             slot : Nat, aux : Nat]

TypeOK ==
  /\ phase \in Phases
  /\ read \in 0..MaxLines
  /\ stages \in Seq(StageRecord)
  /\ planned \in Seq(PlannedRecord) /\ Len(planned) <= Len(stages)
  /\ candidate \in BOOLEAN /\ diags \in Seq(DiagRecord)
  /\ slots \in Seq(SlotRecord)
  /\ ops \in Seq(OpRecord) /\ Len(ops) <= Len(planned)
  /\ failedAt \in {"none", "parse", "plan", "lower", "validate", "emit"}
  /\ failedAt # "none" <=> phase = "failed"

(* What the plan accepts is emitted: after the plan no later pass refuses  *)
(* the pipeline.  The emitters' failures carry no diagnostic, so a refusal *)
(* there would end the program without a word (main.c, transpiler.c).      *)
AcceptedIsEmitted == failedAt \in {"none", "parse", "plan"}

(* main prints the bag when planning fails: it is not empty then, and it   *)
(* is empty whenever the pipeline goes on to be lowered.                   *)
RefusalsAreExplained ==
  /\ failedAt = "plan" => diags # << >>
  /\ phase \in {"lower", "lowering", "ir", "validate", "emit", "done"} =>
       diags = << >> /\ candidate

(* The slot each operation finds at its index is the one it works on, and  *)
(* no other operation shares it, though a stage's slots are found again by *)
(* index through three copies of the pipeline.                             *)
OwnSlot(kind) ==
  CASE kind \in {"scan", "scanMut"} -> "scan_accum"
    [] kind \in {"reduce", "reduceMut"} -> "reduce_accum"
    [] kind = "take" -> "take_count"
    [] kind = "skip" -> "skip_count"
    [] kind = "skipWhile" -> "skip_while_passed"
    [] kind = "distinctUntilChanged" -> "last_key"
    [] kind = "last" -> "last_value"
    [] OTHER -> "none"
OwnAux(kind) ==
  CASE kind = "distinctUntilChanged" -> "has_last_key"
    [] kind = "last" -> "has_last_value"
    [] OTHER -> "none"
SlotKindAt(i) == IF i = 0 THEN "none" ELSE slots[i].kind

SlotsFit ==
  /\ IrIsValid
  /\ \A i \in DOMAIN ops :
       /\ SlotKindAt(ops[i].slot) = OwnSlot(ops[i].kind)
       /\ SlotKindAt(ops[i].aux) = OwnAux(ops[i].kind)
       /\ \A j \in DOMAIN ops :
            i # j => /\ ops[i].slot = 0 \/ ops[i].slot # ops[j].slot
                     /\ ops[i].aux = 0 \/ ops[i].aux # ops[j].aux
                     /\ ops[i].aux = 0 \/ ops[i].aux # ops[j].slot

(* The emitted function returns the slot of its last operation and nothing *)
(* else: no earlier operation of an accepted pipeline computes a result    *)
(* that would be dropped.                                                  *)
NoResultDropped ==
  phase = "done" =>
    \A i \in DOMAIN ops : ops[i].kind \in Terminals => i = Len(ops)
=============================================================================
