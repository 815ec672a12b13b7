--------------------------- MODULE PlannerProofs ----------------------------
(***************************************************************************)
(* Theorems of Planner, for any specification file of any length.          *)
(***************************************************************************)
EXTENDS Planner, SequenceTheorems, TLAPS

-----------------------------------------------------------------------------
(* What each pass leaves to the next.  BeforePlan, Planning and so on are  *)
(* the phases by what has been built in them.                              *)
BeforePlan == {"parse", "plan"}
BeforeLower == BeforePlan \union {"stages", "planned", "lower"}
AfterLower == {"ir", "validate", "emit", "done"}
Accepted == {"lower", "lowering"} \union AfterLower
Planning == {"stages", "planned"} \union Accepted

(* What the parser reads is no stage that a later pass would refuse.       *)
ParsedNames == PlannedKinds \ {"mapTo"}

ParsedStages ==
  \A i \in 1..Len(stages) :
    /\ stages[i].name \in ParsedNames
    /\ stages[i].name = "mapInto" => stages[i].secondary.is = "symbol"

PlannedFollow ==
  /\ phase \in BeforePlan => planned = << >>
  /\ \A i \in 1..Len(planned) :
       /\ planned[i].kind = stages[i].name
       /\ planned[i].secondary = stages[i].secondary

OpsFollow ==
  /\ phase \in BeforeLower => ops = << >> /\ slots = << >>
  /\ phase \in AfterLower => Len(ops) = Len(planned)
  /\ \A i \in 1..Len(ops) :
       /\ ops[i].stage = planned[i]
       /\ ops[i].kind = LoopOpKind(planned[i].kind)

(* The bag and the flag tell the same, and what both let through ends at   *)
(* its first terminal operator.                                            *)
Verdict ==
  /\ phase \in BeforePlan => diags = << >>
  /\ phase \in {"stages", "planned"} => (candidate <=> diags = << >>)
  /\ phase \in Accepted => candidate /\ diags = << >>
  /\ phase \in Planning /\ candidate =>
       /\ source.name \in SelfContainedSources
       /\ \A i \in 1..Len(planned) :
            planned[i].kind \in Terminals => i = Len(stages)
  /\ phase \in {"planned"} \union Accepted /\ candidate =>
       Len(planned) = Len(stages)
  /\ failedAt = "plan" => diags # << >>

SlotsInRange ==
  \A i \in 1..Len(ops) :
    ops[i].slot \in 0..Len(slots) /\ ops[i].aux \in 0..Len(slots)

IInv ==
  /\ TypeOK
  /\ ParsedStages /\ PlannedFollow /\ OpsFollow
  /\ Verdict
  /\ SlotsInRange /\ SlotsFit
  /\ AcceptedIsEmitted

-----------------------------------------------------------------------------
(* What the parser makes of a line.                                        *)
LEMMA ArgIsBinding ==
  ASSUME NEW line \in Lines, NEW i \in Nat \ {0}
  PROVE  /\ Arg(line, i) \in Binding
         /\ Arg(line, i) # NoArg => Arg(line, i) \in Token
<1>1. line.args \in Seq(Token)
  BY LinesAssumption
<1>2. CASE i <= Len(line.args)
  <2>1. line.args[i] \in Token
    BY <1>1, <1>2
  <2>2. QED
    BY <2>1, <1>2 DEF Arg, Token, Binding
<1>3. CASE ~(i <= Len(line.args))
  BY <1>3 DEF Arg, NoArg, Binding, Ids
<1>4. QED
  BY <1>2, <1>3

(* What the parser makes of a line is a stage of a known name.             *)
LEMMA StageCallIsParsed ==
  ASSUME NEW line \in Lines, StageParses(line)
  PROVE  /\ StageCall(line) \in StageRecord
         /\ StageCall(line).name \in ParsedNames
         /\ StageCall(line).name = "mapInto" =>
              StageCall(line).secondary.is = "symbol"
<1> DEFINE a == Arg(line, 1)
           b == Arg(line, 2)
<1>1. a \in Binding /\ b \in Binding
  BY ArgIsBinding
<1>2. /\ FunctionArg(a) \in Binding
      /\ SymbolArg(b) \in Binding /\ SymbolArg(b).is = "symbol"
      /\ IntOrSymbol(b) \in Binding
  BY <1>1 DEF FunctionArg, SymbolArg, IntOrSymbol, Binding
<1>3. NoArg \in Binding
  BY DEF NoArg, Binding, Ids
<1>4. line.head \in ParsedNames /\ line.head \in StageNames
  BY DEF StageParses, FunctionStages, MutStages, CountStages, BareStages,
         ParsedNames, PlannedKinds, StageNames
<1>5. /\ StageCall(line).name = line.head
      /\ StageCall(line).primary \in Binding
      /\ StageCall(line).secondary \in Binding
      /\ line.head = "mapInto" =>
           StageCall(line).secondary = SymbolArg(b)
  BY <1>1, <1>2, <1>3 DEF StageCall
<1>6. StageCall(line) = [name |-> StageCall(line).name,
                         primary |-> StageCall(line).primary,
                         secondary |-> StageCall(line).secondary]
  BY DEF StageCall
<1>7. QED
  BY <1>2, <1>4, <1>5, <1>6 DEF StageRecord

(* The slots of one stage: none, one or two, of the kinds its operation    *)
(* looks for, the second only after a first.                               *)
LEMMA StageSlots ==
  ASSUME NEW stage \in PlannedRecord
  PROVE  LET s == SlotsOf(stage)
             kind == LoopOpKind(stage.kind)
         IN  /\ s \in Seq(SlotRecord) /\ Len(s) \in 0..2
             /\ IF Len(s) >= 1 THEN s[1].kind = OwnSlot(kind)
                ELSE OwnSlot(kind) = "none"
             /\ IF Len(s) >= 2 THEN s[2].kind = OwnAux(kind)
                ELSE OwnAux(kind) = "none"
             /\ (s = << >>) <=> Len(s) = 0
<1>1. \A kind \in SlotKinds : /\ Slot(kind) \in SlotRecord
                             /\ Slot(kind).kind = kind
  BY DEF Slot, SlotRecord, Binding, IntLiteral, Ids
<1>2. \A kind \in SlotKinds : /\ SeededSlot(kind, stage) \in SlotRecord
                           /\ SeededSlot(kind, stage).kind = kind
  <2> SUFFICES ASSUME NEW kind \in SlotKinds
               PROVE  /\ SeededSlot(kind, stage) \in SlotRecord
                      /\ SeededSlot(kind, stage).kind = kind
    OBVIOUS
  <2> DEFINE pointer == stage.secondary.is = "symbol"
             init == IF stage.secondary.is = "none" THEN IntLiteral(0)
                     ELSE stage.secondary
  <2>1. pointer \in BOOLEAN
    OBVIOUS
  <2>2. init \in Binding
    <3>1. IntLiteral(0) \in Binding
      BY DEF IntLiteral, Binding, Ids
    <3>2. stage.secondary \in Binding
      BY DEF PlannedRecord
    <3>3. QED
      BY <3>1, <3>2
  <2> HIDE DEF pointer, init
  <2>3. SeededSlot(kind, stage)
          = [kind |-> kind, pointer |-> pointer, init |-> init]
    BY DEF SeededSlot, pointer, init
  <2>4. QED
    BY <2>1, <2>2, <2>3 DEF SlotRecord
<1>3. QED
  BY <1>1, <1>2 DEF SlotsOf, LoopOpKind, OwnSlot, OwnAux, SlotKinds

(* The slots past n that a stage takes meet none of the slots 0..n in use. *)
LEMMA FreshSlotsAreApart ==
  ASSUME NEW n \in Nat, NEW c \in 0..n
  PROVE  n + 1 # c /\ n + 2 # c
OBVIOUS

(* Lowering one more stage keeps every slot with its own operation.        *)
LEMMA LowerKeepsSlots ==
  ASSUME NEW stage \in PlannedRecord,
         slots \in Seq(SlotRecord), ops \in Seq(OpRecord),
         SlotsInRange, SlotsFit,
         stage.kind # "unsupported",
         ops' = Append(ops, Op(stage)), slots' = slots \o SlotsOf(stage)
  PROVE  /\ slots' \in Seq(SlotRecord) /\ ops' \in Seq(OpRecord)
         /\ SlotsInRange' /\ SlotsFit'
<1> DEFINE s == SlotsOf(stage)
           n == Len(slots)
           m == Len(ops)
           kindAt(k) == IF k = 0 THEN "none" ELSE slots'[k].kind
<1> HIDE DEF kindAt
<1>1. /\ s \in Seq(SlotRecord) /\ Len(s) \in 0..2
      /\ IF Len(s) >= 1 THEN s[1].kind = OwnSlot(LoopOpKind(stage.kind))
         ELSE OwnSlot(LoopOpKind(stage.kind)) = "none"
      /\ IF Len(s) >= 2 THEN s[2].kind = OwnAux(LoopOpKind(stage.kind))
         ELSE OwnAux(LoopOpKind(stage.kind)) = "none"
      /\ (s = << >>) <=> Len(s) = 0
  BY StageSlots
<1>2. /\ n \in Nat /\ m \in Nat
      /\ slots' \in Seq(SlotRecord) /\ Len(slots') = n + Len(s)
      /\ \A k \in 1..n : slots'[k] = slots[k]
      /\ \A k \in 1..Len(s) : slots'[n + k] = s[k]
  BY <1>1
<1>3. /\ Op(stage).kind = LoopOpKind(stage.kind)
      /\ Op(stage).slot = IF Len(s) = 0 THEN 0 ELSE n + 1
      /\ Op(stage).aux = IF Len(s) < 2 THEN 0 ELSE n + 2
  BY <1>1 DEF Op
<1>4. Op(stage) \in OpRecord
  <2>1. LoopOpKind(stage.kind) \in PlannedKinds
    BY DEF LoopOpKind, PlannedRecord, PlannedKinds
  <2>2. Op(stage).slot \in Nat /\ Op(stage).aux \in Nat
    BY <1>1, <1>2, <1>3
  <2>3. Op(stage) = [kind |-> LoopOpKind(stage.kind), stage |-> stage,
                     slot |-> Op(stage).slot, aux |-> Op(stage).aux]
    BY DEF Op
  <2>4. QED
    BY <2>1, <2>2, <2>3 DEF OpRecord
<1>5. /\ ops' \in Seq(OpRecord) /\ Len(ops') = m + 1
      /\ \A i \in 1..m : ops'[i] = ops[i]
      /\ ops'[m + 1] = Op(stage)
  BY <1>2, <1>4
<1>6. \A i \in 1..m : ops[i].slot \in 0..n /\ ops[i].aux \in 0..n
  BY DEF SlotsInRange
<1>7. SlotsInRange'
  <2> SUFFICES ASSUME NEW i \in 1..(m + 1)
               PROVE  /\ ops'[i].slot \in 0..(n + Len(s))
                      /\ ops'[i].aux \in 0..(n + Len(s))
    BY <1>2, <1>5 DEF SlotsInRange
  <2>1. CASE i \in 1..m
    BY <2>1, <1>1, <1>2, <1>5, <1>6
  <2>2. CASE i = m + 1
    BY <2>2, <1>1, <1>2, <1>3, <1>5
  <2>3. QED
    BY <2>1, <2>2, <1>2
<1>8. IrIsValid'
  BY <1>7, <1>2, <1>5 DEF SlotsInRange, IrIsValid
<1>9. \A i \in 1..(m + 1) :
        /\ kindAt(ops'[i].slot) = OwnSlot(ops'[i].kind)
        /\ kindAt(ops'[i].aux) = OwnAux(ops'[i].kind)
  <2> SUFFICES ASSUME NEW i \in 1..(m + 1)
               PROVE  /\ kindAt(ops'[i].slot) = OwnSlot(ops'[i].kind)
                      /\ kindAt(ops'[i].aux) = OwnAux(ops'[i].kind)
    OBVIOUS
  <2>1. CASE i \in 1..m
    <3>1. /\ SlotKindAt(ops[i].slot) = OwnSlot(ops[i].kind)
          /\ SlotKindAt(ops[i].aux) = OwnAux(ops[i].kind)
      BY <2>1, <1>2 DEF SlotsFit
    <3>2. \A k \in 0..n :
            kindAt(k) = SlotKindAt(k)
      BY <1>2 DEF SlotKindAt, kindAt
    <3>3. QED
      BY <3>1, <3>2, <2>1, <1>5, <1>6
  <2>2. CASE i = m + 1
    <3>1. ops'[i] = Op(stage)
      BY <2>2, <1>5
    <3>2. CASE Len(s) = 0
      BY <3>1, <3>2, <1>1, <1>3 DEF kindAt
    <3>3. CASE Len(s) = 1
      BY <3>1, <3>3, <1>1, <1>2, <1>3 DEF kindAt
    <3>4. CASE Len(s) = 2
      BY <3>1, <3>4, <1>1, <1>2, <1>3 DEF kindAt
    <3>5. QED
      BY <3>2, <3>3, <3>4, <1>1
  <2>3. QED
    BY <2>1, <2>2, <1>2
<1>10. \A i, j \in 1..(m + 1) : i # j =>
         /\ ops'[i].slot = 0 \/ ops'[i].slot # ops'[j].slot
         /\ ops'[i].aux = 0 \/ ops'[i].aux # ops'[j].aux
         /\ ops'[i].aux = 0 \/ ops'[i].aux # ops'[j].slot
  <2> SUFFICES ASSUME NEW i \in 1..(m + 1), NEW j \in 1..(m + 1), i # j
               PROVE  /\ ops'[i].slot = 0 \/ ops'[i].slot # ops'[j].slot
                      /\ ops'[i].aux = 0 \/ ops'[i].aux # ops'[j].aux
                      /\ ops'[i].aux = 0 \/ ops'[i].aux # ops'[j].slot
    OBVIOUS
  <2>1. CASE i \in 1..m /\ j \in 1..m
    BY <2>1, <1>2, <1>5 DEF SlotsFit
  <2>2. CASE i \in 1..m /\ j = m + 1
    BY <2>2, <1>2, <1>3, <1>5, <1>6
  <2>3. CASE i = m + 1 /\ j \in 1..m
    <3>1. /\ ops'[i].slot = 0 \/ ops'[i].slot = n + 1
          /\ ops'[i].aux = 0 \/ ops'[i].aux = n + 2
      BY <2>3, <1>3, <1>5
    <3>2. ops'[j].slot \in 0..n /\ ops'[j].aux \in 0..n
      BY <2>3, <1>5, <1>6
    <3>3. n \in Nat
      BY <1>2
    <3>4. \A c \in 0..n : n + 1 # c /\ n + 2 # c
      BY <3>3, FreshSlotsAreApart
    <3> HIDE DEF n, m, s
    <3>5. QED
      BY <3>1, <3>2, <3>4, Zenon
  <2>4. QED
    BY <2>1, <2>2, <2>3, <1>2
<1>11. SlotsFit'
  <2>1. \A k : SlotKindAt(k)' = kindAt(k)
    BY DEF SlotKindAt, kindAt
  <2>2. QED
    BY <1>8, <1>9, <1>10, <1>5, <2>1 DEF SlotsFit
<1>12. QED
  BY <1>2, <1>5, <1>7, <1>11

-----------------------------------------------------------------------------
(* The invariant, action by action.                                        *)
(* A step that leaves the lowered loop alone keeps what is said of it.     *)
LEMMA SameLowered ==
  ASSUME slots' = slots, ops' = ops, SlotsInRange, SlotsFit
  PROVE  SlotsInRange' /\ SlotsFit'
BY DEF SlotsInRange, SlotsFit, IrIsValid, SlotKindAt

(* A stage that was read is planned under its own name, whose operation    *)
(* every emitter knows.                                                    *)
LEMMA PlannedKindKnown ==
  ASSUME NEW name \in ParsedNames
  PROVE  /\ PlannedStageKind(name) = name
         /\ name \in PlannedKinds /\ name # "mapTo" /\ name # "unsupported"
         /\ LoopOpKind(name) \in Terminals => name \in Terminals
BY DEF ParsedNames, PlannedKinds, PlannedStageKind, LoopOpKind, Terminals

(* One reported diagnostic makes a bag that is not empty.                  *)
LEMMA OneDiag ==
  ASSUME NEW code \in {"source", "operator", "unlowerable"}, NEW at \in Nat
  PROVE  Diag(code, at) \in Seq(DiagRecord) /\ Diag(code, at) # << >>
BY DEF Diag, DiagRecord

(* Appending to the bag never empties it.                                  *)
LEMMA MoreDiags ==
  ASSUME NEW s \in Seq(DiagRecord), NEW t \in Seq(DiagRecord)
  PROVE  /\ s \o t \in Seq(DiagRecord)
         /\ (s \o t = << >>) <=> (s = << >> /\ t = << >>)
OBVIOUS

(* A file that nobody has read yet satisfies the invariant.                *)
LEMMA InitIsInductive == Init => IInv
<1> SUFFICES ASSUME Init PROVE IInv
  OBVIOUS
<1>1. TypeOK
  <2>1. read \in 0..MaxLines /\ phase \in Phases
    BY MaxLinesAssumption DEF Init, Phases
  <2>2. /\ stages \in Seq(StageRecord) /\ planned \in Seq(PlannedRecord)
        /\ diags \in Seq(DiagRecord) /\ slots \in Seq(SlotRecord)
        /\ ops \in Seq(OpRecord)
        /\ Len(stages) = 0 /\ Len(planned) = 0 /\ Len(ops) = 0
    BY DEF Init
  <2>3. candidate \in BOOLEAN
    BY DEF Init
  <2>4. QED
    BY <2>1, <2>2, <2>3 DEF Init, TypeOK
<1>2. Len(stages) = 0 /\ Len(planned) = 0 /\ Len(ops) = 0
  BY DEF Init
<1>3. ParsedStages /\ PlannedFollow /\ OpsFollow /\ SlotsInRange
  BY <1>2 DEF Init, ParsedStages, PlannedFollow, OpsFollow, SlotsInRange,
              BeforePlan, AfterLower
<1>4. Verdict
  BY DEF Init, Verdict, Planning, Accepted, AfterLower
<1>5. SlotsFit
  BY DEF Init, SlotsFit, IrIsValid
<1>6. AcceptedIsEmitted
  BY DEF Init, AcceptedIsEmitted
<1>7. QED
  BY <1>1, <1>3, <1>4, <1>5, <1>6 DEF IInv

(* A source line changes the source alone.                                 *)
LEMMA ReadSourceKeeps ==
  ASSUME NEW line \in Lines, IInv, ReadSource(line)
  PROVE  IInv'
<1>1. TypeOK'
  <2>1. read' \in 0..MaxLines
    BY MaxLinesAssumption DEF ReadSource, ReadLine, IInv, TypeOK
  <2>2. QED
    BY <2>1 DEF ReadSource, IInv, TypeOK, Phases
<1>2. ParsedStages'
  BY DEF ReadSource, IInv, ParsedStages, TypeOK, ReadLine
<1>3. PlannedFollow'
  BY DEF ReadSource, IInv, PlannedFollow, TypeOK, ReadLine, BeforePlan
<1>4. OpsFollow'
  BY DEF ReadSource, IInv, OpsFollow, TypeOK, ReadLine, BeforePlan,
         BeforeLower, AfterLower
<1>5. Verdict'
  BY DEF ReadSource, IInv, Verdict, TypeOK, ReadLine, BeforePlan, Accepted,
         AfterLower, Planning
<1>6. SlotsInRange' /\ SlotsFit'
  BY SameLowered DEF ReadSource, IInv
<1>7. AcceptedIsEmitted'
  BY DEF ReadSource, IInv, AcceptedIsEmitted, ReadLine
<1>8. QED
  BY <1>1, <1>2, <1>3, <1>4, <1>5, <1>6, <1>7 DEF IInv

(* A stage line appends a stage that parses.                               *)
LEMMA ReadStageKeeps ==
  ASSUME NEW line \in Lines, IInv, ReadStage(line)
  PROVE  IInv'
<1>0. /\ phase = "parse" /\ stages \in Seq(StageRecord)
      /\ StageCall(line) \in StageRecord
      /\ StageCall(line).name \in ParsedNames
      /\ StageCall(line).name = "mapInto" =>
           StageCall(line).secondary.is = "symbol"
      /\ stages' = Append(stages, StageCall(line))
      /\ planned = << >> /\ ops = << >>
  BY StageCallIsParsed DEF ReadStage, ReadLine, IInv, TypeOK, PlannedFollow,
                           OpsFollow, BeforePlan, BeforeLower
<1>1. TypeOK'
  <2>1. read' \in 0..MaxLines
    BY MaxLinesAssumption DEF ReadStage, ReadLine, IInv, TypeOK
  <2>2. stages' \in Seq(StageRecord) /\ Len(planned) <= Len(stages')
    BY <1>0
  <2>3. QED
    BY <2>1, <2>2 DEF ReadStage, IInv, TypeOK
<1>2. ParsedStages'
  BY <1>0 DEF ReadStage, IInv, ParsedStages, TypeOK, ReadLine
<1>3. PlannedFollow'
  BY <1>0 DEF ReadStage, IInv, PlannedFollow, TypeOK, ReadLine, BeforePlan
<1>4. OpsFollow'
  BY <1>0 DEF ReadStage, IInv, OpsFollow, TypeOK, ReadLine, BeforePlan,
              BeforeLower, AfterLower
<1>5. Verdict'
  BY <1>0 DEF ReadStage, IInv, Verdict, TypeOK, ReadLine, BeforePlan,
              Accepted, AfterLower, Planning
<1>6. SlotsInRange' /\ SlotsFit'
  BY SameLowered DEF ReadStage, IInv
<1>7. AcceptedIsEmitted'
  BY DEF ReadStage, IInv, AcceptedIsEmitted, ReadLine
<1>8. QED
  BY <1>1, <1>2, <1>3, <1>4, <1>5, <1>6, <1>7 DEF IInv

(* A line that does not parse ends the program before anything is planned. *)
LEMMA RejectLineKeeps ==
  ASSUME NEW line \in Lines, IInv, RejectLine(line)
  PROVE  IInv'
<1>1. TypeOK'
  <2>1. read' \in 0..MaxLines
    BY MaxLinesAssumption DEF RejectLine, ReadLine, IInv, TypeOK
  <2>2. QED
    BY <2>1 DEF RejectLine, IInv, TypeOK, Phases, Fail
<1>2. ParsedStages'
  BY DEF RejectLine, IInv, ParsedStages, TypeOK, ReadLine
<1>3. PlannedFollow'
  BY DEF RejectLine, IInv, PlannedFollow, TypeOK, ReadLine, Fail, BeforePlan
<1>4. OpsFollow'
  BY DEF RejectLine, IInv, OpsFollow, TypeOK, ReadLine, Fail, BeforePlan,
         BeforeLower, AfterLower
<1>5. Verdict'
  BY DEF RejectLine, IInv, Verdict, TypeOK, ReadLine, Fail, BeforePlan,
         Accepted, AfterLower, Planning
<1>6. SlotsInRange' /\ SlotsFit'
  BY SameLowered DEF RejectLine, IInv
<1>7. AcceptedIsEmitted'
  BY DEF RejectLine, IInv, AcceptedIsEmitted, Fail, ReadLine
<1>8. QED
  BY <1>1, <1>2, <1>3, <1>4, <1>5, <1>6, <1>7 DEF IInv

(* The end of the file starts the plan.                                    *)
LEMMA EndOfFileKeeps ==
  ASSUME IInv, EndOfFile
  PROVE  IInv'
<1>1. TypeOK'
  BY DEF EndOfFile, IInv, TypeOK, Phases
<1>2. ParsedStages'
  BY DEF EndOfFile, IInv, ParsedStages, TypeOK
<1>3. PlannedFollow'
  BY DEF EndOfFile, IInv, PlannedFollow, TypeOK, BeforePlan
<1>4. OpsFollow'
  BY DEF EndOfFile, IInv, OpsFollow, TypeOK, BeforePlan, BeforeLower,
         AfterLower
<1>5. Verdict'
  BY DEF EndOfFile, IInv, Verdict, TypeOK, BeforePlan, Accepted, AfterLower,
         Planning
<1>6. SlotsInRange' /\ SlotsFit'
  BY SameLowered DEF EndOfFile, IInv
<1>7. AcceptedIsEmitted'
  BY DEF EndOfFile, IInv, AcceptedIsEmitted
<1>8. QED
  BY <1>1, <1>2, <1>3, <1>4, <1>5, <1>6, <1>7 DEF IInv

(* The source decides whether there is a plan at all.                      *)
LEMMA PlanSourceKeeps ==
  ASSUME IInv, PlanSource
  PROVE  IInv'
<1>0. LET found == DiagUnless(candidate', "source", 0)
      IN  /\ diags' = diags \o found
          /\ diags' \in Seq(DiagRecord)
          /\ diags' = << >> <=> candidate'
          /\ candidate' <=> source.name \in SelfContainedSources
          /\ candidate' \in BOOLEAN
          /\ planned = << >> /\ Len(planned) = 0
  <2>1. diags = << >> /\ diags \in Seq(DiagRecord) /\ planned = << >>
    BY DEF PlanSource, IInv, TypeOK, Verdict, PlannedFollow, BeforePlan
  <2>2. candidate' \in BOOLEAN
        /\ (candidate' <=> source.name \in SelfContainedSources)
    <3>1. candidate' = (source.name \in SelfContainedSources)
      BY DEF PlanSource
    <3> DEFINE good == source.name \in SelfContainedSources
    <3>2. good \in BOOLEAN
      OBVIOUS
    <3> HIDE DEF good
    <3>3. candidate' = good
      BY <3>1 DEF good
    <3>4. candidate' \in BOOLEAN /\ (candidate' <=> good)
      BY <3>2, <3>3
    <3>5. QED
      BY <3>4 DEF good
  <2>3. diags' = diags \o DiagUnless(candidate', "source", 0)
    BY DEF PlanSource
  <2>4. CASE candidate'
    BY <2>1, <2>2, <2>3, <2>4, MoreDiags DEF DiagUnless
  <2>5. CASE ~candidate'
    BY <2>1, <2>2, <2>3, <2>5, OneDiag, MoreDiags DEF DiagUnless
  <2>6. QED
    BY <2>4, <2>5
<1>1. TypeOK'
  BY <1>0 DEF PlanSource, IInv, TypeOK, Phases
<1>2. ParsedStages'
  BY DEF PlanSource, IInv, ParsedStages, TypeOK
<1>3. PlannedFollow'
  BY DEF PlanSource, IInv, PlannedFollow, TypeOK, BeforePlan
<1>4. OpsFollow'
  BY DEF PlanSource, IInv, OpsFollow, TypeOK, BeforePlan, BeforeLower,
         AfterLower
<1>5. Verdict'
  BY <1>0 DEF PlanSource, IInv, Verdict, TypeOK, BeforePlan, Accepted,
              AfterLower, Planning
<1>6. SlotsInRange' /\ SlotsFit'
  BY SameLowered DEF PlanSource, IInv
<1>7. AcceptedIsEmitted'
  BY DEF PlanSource, IInv, AcceptedIsEmitted
<1>8. QED
  BY <1>1, <1>2, <1>3, <1>4, <1>5, <1>6, <1>7 DEF IInv

(* Planning one stage keeps the flag and the bag in step.                  *)
LEMMA PlanStageKeeps ==
  ASSUME IInv, PlanStage
  PROVE  IInv'
<1> DEFINE at == Len(planned) + 1
           stage == [kind |-> PlannedStageKind(stages[at].name),
                     primary |-> stages[at].primary,
                     secondary |-> stages[at].secondary]
<1>0. /\ phase = "stages" /\ phase' = phase
      /\ planned \in Seq(PlannedRecord) /\ planned' = Append(planned, stage)
      /\ at \in 1..Len(stages) /\ at \in Nat
      /\ stages[at] \in StageRecord /\ stages[at].name \in ParsedNames
  <2>1. /\ Len(planned) \in Nat /\ Len(planned) < Len(stages)
        /\ stages \in Seq(StageRecord)
    BY DEF PlanStage, IInv, TypeOK
  <2>2. QED
    BY <2>1 DEF PlanStage, IInv, TypeOK, ParsedStages
<1>a. stage.kind = stages[at].name /\ stage \in PlannedRecord
  BY <1>0, PlannedKindKnown DEF StageRecord, PlannedRecord
<1>b. /\ planned' \in Seq(PlannedRecord) /\ Len(planned') = at
      /\ \A i \in 1..Len(planned) : planned'[i] = planned[i]
      /\ planned'[at] = stage
  BY <1>0, <1>a
<1>c. /\ StageDiags(at) \in Seq(DiagRecord)
      /\ StageDiags(at) = << >> =>
           stages[at].name \notin Terminals \/ at = Len(stages)
  <2> DEFINE ok1 == StageIsSelfContained(stages[at])
             ok2 == stages[at].name \notin Terminals \/ at = Len(stages)
  <2>1. StageDiags(at) = DiagUnless(ok1, "operator", at)
                           \o DiagUnless(ok2, "unlowerable", at)
    BY DEF StageDiags
  <2>2. /\ DiagUnless(ok1, "operator", at) \in Seq(DiagRecord)
        /\ DiagUnless(ok2, "unlowerable", at) \in Seq(DiagRecord)
        /\ ~ok2 => DiagUnless(ok2, "unlowerable", at) # << >>
    <3>1. /\ Diag("operator", at) \in Seq(DiagRecord)
          /\ Diag("unlowerable", at) \in Seq(DiagRecord)
          /\ Diag("unlowerable", at) # << >>
      BY <1>0, OneDiag
    <3> HIDE DEF ok1, ok2
    <3>2. QED
      BY <3>1 DEF DiagUnless
  <2> HIDE DEF ok2
  <2>3. /\ StageDiags(at) \in Seq(DiagRecord)
        /\ StageDiags(at) = << >> => ok2
    <3> PICK d1, d2 : /\ d1 = DiagUnless(ok1, "operator", at)
                      /\ d2 = DiagUnless(ok2, "unlowerable", at)
      OBVIOUS
    <3>1. /\ d1 \in Seq(DiagRecord) /\ d2 \in Seq(DiagRecord)
          /\ ~ok2 => d2 # << >>
      BY <2>2
    <3>2. d1 \o d2 \in Seq(DiagRecord) /\ (d1 \o d2 = << >> => d2 = << >>)
      BY <3>1, MoreDiags
    <3>3. QED
      BY <2>1, <3>1, <3>2
  <2>4. QED
    BY <2>3 DEF ok2
<1>d. /\ diags' \in Seq(DiagRecord)
      /\ (diags' = << >>) <=> (diags = << >> /\ StageDiags(at) = << >>)
      /\ candidate' <=> (candidate /\ StageDiags(at) = << >>)
      /\ candidate' \in BOOLEAN
  <2>1. diags \in Seq(DiagRecord) /\ diags' = diags \o StageDiags(at)
    BY DEF PlanStage, IInv, TypeOK
  <2>2. /\ candidate' <=> (candidate /\ StageDiags(at) = << >>)
        /\ candidate' \in BOOLEAN
    BY DEF PlanStage, IInv, TypeOK
  <2>3. QED
    BY <2>1, <2>2, <1>c, MoreDiags
<1>1. TypeOK'
  <2>1. Len(planned') <= Len(stages') /\ Len(ops') <= Len(planned')
    BY <1>0, <1>b DEF PlanStage, IInv, TypeOK
  <2>2. QED
    BY <1>b, <1>d, <2>1 DEF PlanStage, IInv, TypeOK
<1>2. ParsedStages'
  BY DEF PlanStage, IInv, ParsedStages, TypeOK
<1>3. PlannedFollow'
  BY <1>0, <1>a, <1>b DEF PlanStage, IInv, PlannedFollow, BeforePlan
<1>4. OpsFollow'
  BY DEF PlanStage, IInv, OpsFollow, TypeOK, BeforePlan, BeforeLower,
         AfterLower
<1>5. Verdict'
  <2>1. candidate' <=> diags' = << >>
    BY <1>0, <1>d DEF IInv, Verdict
  <2>2. ASSUME candidate', NEW i \in 1..at, planned'[i].kind \in Terminals
        PROVE  i = Len(stages)
    <3>1. CASE i = at
      BY <3>1, <2>2, <1>a, <1>b, <1>c, <1>d
    <3>2. CASE i \in 1..Len(planned)
      BY <3>2, <2>2, <1>0, <1>b, <1>d DEF IInv, Verdict, Planning
    <3>3. QED
      BY <3>1, <3>2, <1>0
  <2>3. candidate' => source.name \in SelfContainedSources
    BY <1>0, <1>d DEF IInv, Verdict, Planning
  <2>4. QED
    BY <2>1, <2>2, <2>3, <1>0, <1>b
       DEF PlanStage, IInv, Verdict, TypeOK, BeforePlan, Accepted, AfterLower,
           Planning
<1>6. SlotsInRange' /\ SlotsFit'
  BY SameLowered DEF PlanStage, IInv
<1>7. AcceptedIsEmitted'
  BY DEF PlanStage, IInv, AcceptedIsEmitted
<1>8. QED
  BY <1>1, <1>2, <1>3, <1>4, <1>5, <1>6, <1>7 DEF IInv

(* A first stage that does not fit is a diagnostic like the others.        *)
LEMMA PlanHeadKeeps ==
  ASSUME IInv, PlanHead
  PROVE  IInv'
<1>0. /\ diags' \in Seq(DiagRecord) /\ candidate' \in BOOLEAN
      /\ candidate' => candidate
      /\ candidate' <=> diags' = << >>
  <2>1. /\ diags' = diags \o DiagUnless(candidate => HeadFits,
                                        "unlowerable", 0)
        /\ diags \in Seq(DiagRecord)
        /\ candidate <=> diags = << >>
    BY DEF PlanHead, IInv, TypeOK, Verdict
  <2>2. /\ candidate' <=> (candidate /\ HeadFits)
        /\ candidate' \in BOOLEAN
    BY DEF PlanHead, IInv, TypeOK
  <2>3. CASE candidate => HeadFits
    <3>1. diags' = diags \o << >>
      BY <2>1, <2>3 DEF DiagUnless
    <3>2. QED
      BY <3>1, <2>1, <2>2, <2>3
  <2>4. CASE ~(candidate => HeadFits)
    <3>1. diags' = diags \o Diag("unlowerable", 0)
      BY <2>1, <2>4 DEF DiagUnless
    <3>2. QED
      BY <3>1, <2>1, <2>2, <2>4, OneDiag, MoreDiags
  <2>5. QED
    BY <2>3, <2>4
<1>1. TypeOK'
  BY <1>0 DEF PlanHead, IInv, TypeOK, Phases
<1>2. ParsedStages'
  BY DEF PlanHead, IInv, ParsedStages, TypeOK
<1>3. PlannedFollow'
  BY DEF PlanHead, IInv, PlannedFollow, TypeOK, BeforePlan
<1>4. OpsFollow'
  BY DEF PlanHead, IInv, OpsFollow, TypeOK, BeforePlan, BeforeLower,
         AfterLower
<1>5. Verdict'
  BY <1>0 DEF PlanHead, IInv, Verdict, TypeOK, BeforePlan, Accepted,
              AfterLower, Planning
<1>6. SlotsInRange' /\ SlotsFit'
  BY SameLowered DEF PlanHead, IInv
<1>7. AcceptedIsEmitted'
  BY DEF PlanHead, IInv, AcceptedIsEmitted
<1>8. QED
  BY <1>1, <1>2, <1>3, <1>4, <1>5, <1>6, <1>7 DEF IInv

(* With diagnostics the program ends, without it is lowered.               *)
LEMMA PlanDoneKeeps ==
  ASSUME IInv, PlanDone
  PROVE  IInv'
<1>1. TypeOK'
  BY DEF PlanDone, IInv, TypeOK, Phases, Fail
<1>2. ParsedStages'
  BY DEF PlanDone, IInv, ParsedStages, TypeOK
<1>3. PlannedFollow'
  BY DEF PlanDone, IInv, PlannedFollow, TypeOK, Fail, BeforePlan
<1>4. OpsFollow'
  BY DEF PlanDone, IInv, OpsFollow, TypeOK, Fail, BeforePlan, BeforeLower,
         AfterLower
<1>5. Verdict'
  BY DEF PlanDone, IInv, Verdict, TypeOK, Fail, BeforePlan, Accepted,
         AfterLower, Planning
<1>6. SlotsInRange' /\ SlotsFit'
  BY SameLowered DEF PlanDone, IInv
<1>7. AcceptedIsEmitted'
  BY DEF PlanDone, IInv, AcceptedIsEmitted, Fail
<1>8. QED
  BY <1>1, <1>2, <1>3, <1>4, <1>5, <1>6, <1>7 DEF IInv

(* Lowering finds the source it was promised.                              *)
LEMMA LowerSourceKeeps ==
  ASSUME IInv, LowerSource
  PROVE  IInv'
<1>0. candidate /\ source.name \in SelfContainedSources
  BY DEF LowerSource, IInv, Verdict, Accepted, Planning
<1>1. TypeOK'
  BY <1>0 DEF LowerSource, IInv, TypeOK, Phases
<1>2. ParsedStages'
  BY DEF LowerSource, IInv, ParsedStages, TypeOK
<1>3. PlannedFollow'
  BY DEF LowerSource, IInv, PlannedFollow, TypeOK, Fail, BeforePlan
<1>4. OpsFollow'
  BY DEF LowerSource, IInv, OpsFollow, TypeOK, Fail, BeforePlan, BeforeLower,
         AfterLower
<1>5. Verdict'
  BY <1>0 DEF LowerSource, IInv, Verdict, TypeOK, BeforePlan, Accepted,
              AfterLower, Planning
<1>6. SlotsInRange' /\ SlotsFit'
  BY SameLowered DEF LowerSource, IInv
<1>7. AcceptedIsEmitted'
  BY <1>0 DEF LowerSource, IInv, AcceptedIsEmitted
<1>8. QED
  BY <1>1, <1>2, <1>3, <1>4, <1>5, <1>6, <1>7 DEF IInv

(* Lowering a stage finds a kind it knows and adds its slots.              *)
LEMMA LowerStageKeeps ==
  ASSUME IInv, LowerStage
  PROVE  IInv'
<1> DEFINE at == Len(ops) + 1
           stage == planned[at]
<1>0. /\ phase = "lowering" /\ ops \in Seq(OpRecord)
      /\ at \in 1..Len(planned) /\ stage \in PlannedRecord
      /\ stage.kind # "unsupported"
      /\ ops' = Append(ops, Op(stage)) /\ slots' = slots \o SlotsOf(stage)
      /\ UNCHANGED << phase, read, source, stages, planned, candidate, diags,
                      failedAt >>
  <2>1. /\ phase = "lowering" /\ ops \in Seq(OpRecord)
        /\ at \in 1..Len(planned) /\ at \in 1..Len(stages)
        /\ stage \in PlannedRecord
    <3>1. /\ ops \in Seq(OpRecord) /\ planned \in Seq(PlannedRecord)
          /\ stages \in Seq(StageRecord) /\ Len(planned) <= Len(stages)
          /\ Len(ops) < Len(planned)
      BY DEF LowerStage, IInv, TypeOK
    <3>2. QED
      BY <3>1 DEF LowerStage
  <2>2. stage.kind # "unsupported"
    BY <2>1, PlannedKindKnown DEF IInv, PlannedFollow, ParsedStages
  <2>3. QED
    BY <2>1, <2>2 DEF LowerStage
<1>6. /\ slots' \in Seq(SlotRecord) /\ ops' \in Seq(OpRecord)
      /\ SlotsInRange' /\ SlotsFit'
  BY <1>0, LowerKeepsSlots DEF IInv, TypeOK
<1>a. /\ Len(ops') = at /\ \A i \in 1..Len(ops) : ops'[i] = ops[i]
      /\ ops'[at] = Op(stage)
  <2>1. Op(stage) \in OpRecord
    BY <1>0, <1>6, LenProperties, ElementOfSeq
  <2>2. QED
    BY <1>0, <2>1
<1>1. TypeOK'
  BY <1>0, <1>6, <1>a DEF IInv, TypeOK
<1>2. ParsedStages'
  BY DEF LowerStage, IInv, ParsedStages, TypeOK
<1>3. PlannedFollow'
  BY DEF LowerStage, IInv, PlannedFollow, TypeOK, Fail, BeforePlan
<1>4. OpsFollow'
  <2>1. Op(stage).stage = stage /\ Op(stage).kind = LoopOpKind(stage.kind)
    BY DEF Op
  <2>2. QED
    BY <1>0, <1>a, <2>1 DEF IInv, OpsFollow, BeforePlan, BeforeLower,
                            AfterLower
<1>5. Verdict'
  BY DEF LowerStage, IInv, Verdict, TypeOK, Fail, BeforePlan, Accepted,
         AfterLower, Planning
<1>7. AcceptedIsEmitted'
  BY <1>0 DEF LowerStage, IInv, AcceptedIsEmitted, Fail
<1>8. QED
  BY <1>1, <1>2, <1>3, <1>4, <1>5, <1>6, <1>7 DEF IInv

(* All stages are lowered, and the bag is still empty.                     *)
LEMMA LowerDoneKeeps ==
  ASSUME IInv, LowerDone
  PROVE  IInv'
<1>1. TypeOK'
  BY DEF LowerDone, IInv, TypeOK, Phases, Fail
<1>2. ParsedStages'
  BY DEF LowerDone, IInv, ParsedStages, TypeOK
<1>3. PlannedFollow'
  BY DEF LowerDone, IInv, PlannedFollow, TypeOK, Fail, BeforePlan
<1>4. OpsFollow'
  BY DEF LowerDone, IInv, OpsFollow, TypeOK, Fail, BeforePlan, BeforeLower,
         AfterLower
<1>5. Verdict'
  BY DEF LowerDone, IInv, Verdict, TypeOK, Fail, BeforePlan, Accepted,
         AfterLower, Planning
<1>6. SlotsInRange' /\ SlotsFit'
  BY SameLowered DEF LowerDone, IInv
<1>7. AcceptedIsEmitted'
  BY DEF LowerDone, IInv, AcceptedIsEmitted, Verdict, Accepted
<1>8. QED
  BY <1>1, <1>2, <1>3, <1>4, <1>5, <1>6, <1>7 DEF IInv

(* The copy changes nothing.                                               *)
LEMMA BuildIrKeeps ==
  ASSUME IInv, BuildIr
  PROVE  IInv'
<1>1. TypeOK'
  BY DEF BuildIr, IInv, TypeOK, Phases
<1>2. ParsedStages'
  BY DEF BuildIr, IInv, ParsedStages, TypeOK
<1>3. PlannedFollow'
  BY DEF BuildIr, IInv, PlannedFollow, TypeOK, BeforePlan
<1>4. OpsFollow'
  BY DEF BuildIr, IInv, OpsFollow, TypeOK, BeforePlan, BeforeLower, AfterLower
<1>5. Verdict'
  BY DEF BuildIr, IInv, Verdict, TypeOK, BeforePlan, Accepted, AfterLower,
         Planning
<1>6. SlotsInRange' /\ SlotsFit'
  BY SameLowered DEF BuildIr, IInv
<1>7. AcceptedIsEmitted'
  BY DEF BuildIr, IInv, AcceptedIsEmitted
<1>8. QED
  BY <1>1, <1>2, <1>3, <1>4, <1>5, <1>6, <1>7 DEF IInv

(* Validation finds every slot index in range.                             *)
LEMMA ValidateIrKeeps ==
  ASSUME IInv, ValidateIr
  PROVE  IInv'
<1>1. TypeOK'
  BY DEF ValidateIr, IInv, TypeOK, Phases, Fail
<1>2. ParsedStages'
  BY DEF ValidateIr, IInv, ParsedStages, TypeOK
<1>3. PlannedFollow'
  BY DEF ValidateIr, IInv, PlannedFollow, TypeOK, Fail, BeforePlan
<1>4. OpsFollow'
  BY DEF ValidateIr, IInv, OpsFollow, TypeOK, Fail, BeforePlan, BeforeLower,
         AfterLower
<1>5. Verdict'
  BY DEF ValidateIr, IInv, Verdict, TypeOK, Fail, BeforePlan, Accepted,
         AfterLower, Planning
<1>6. SlotsInRange' /\ SlotsFit'
  BY SameLowered DEF ValidateIr, IInv
<1>7. AcceptedIsEmitted'
  BY DEF ValidateIr, IInv, AcceptedIsEmitted, SlotsFit
<1>8. QED
  BY <1>1, <1>2, <1>3, <1>4, <1>5, <1>6, <1>7 DEF IInv

(* The emitters know every operation.                                      *)
LEMMA EmitKeeps ==
  ASSUME IInv, Emit
  PROVE  IInv'
<1>1. TypeOK'
  BY DEF Emit, IInv, TypeOK, Phases, Fail
<1>2. ParsedStages'
  BY DEF Emit, IInv, ParsedStages, TypeOK
<1>3. PlannedFollow'
  BY DEF Emit, IInv, PlannedFollow, TypeOK, Fail, BeforePlan
<1>4. OpsFollow'
  BY DEF Emit, IInv, OpsFollow, TypeOK, Fail, BeforePlan, BeforeLower,
         AfterLower
<1>5. Verdict'
  BY DEF Emit, IInv, Verdict, TypeOK, Fail, BeforePlan, Accepted, AfterLower,
         Planning
<1>6. SlotsInRange' /\ SlotsFit'
  BY SameLowered DEF Emit, IInv
<1>7. AcceptedIsEmitted'
  <2>1. ASSUME phase = "emit", NEW i \in 1..Len(ops)
        PROVE  Emittable(ops[i])
    <3>1. /\ i \in 1..Len(planned) /\ i \in 1..Len(stages)
      BY <2>1 DEF IInv, TypeOK, OpsFollow, AfterLower
    <3>2. /\ ops[i].kind = LoopOpKind(stages[i].name)
          /\ ops[i].stage.secondary = stages[i].secondary
          /\ stages[i].name \in ParsedNames
          /\ stages[i].name = "mapInto" => stages[i].secondary.is = "symbol"
      BY <3>1 DEF IInv, OpsFollow, PlannedFollow, ParsedStages
    <3>3. QED
      BY <3>2, PlannedKindKnown DEF Emittable, LoopOpKind
  <2>2. ops \in Seq(OpRecord)
    BY DEF IInv, TypeOK
  <2>3. QED
    BY <2>1, <2>2 DEF Emit, IInv, AcceptedIsEmitted
<1>8. QED
  BY <1>1, <1>2, <1>3, <1>4, <1>5, <1>6, <1>7 DEF IInv

(* Every step of every pass keeps the invariant.                           *)
LEMMA NextIsInductive == IInv /\ [Next]_vars => IInv'
<1> SUFFICES ASSUME IInv, [Next]_vars PROVE IInv'
  OBVIOUS
<1>1. ASSUME NEW line \in Lines, ReadSource(line) PROVE IInv'
  BY <1>1, ReadSourceKeeps
<1>2. ASSUME NEW line \in Lines, ReadStage(line) PROVE IInv'
  BY <1>2, ReadStageKeeps
<1>3. ASSUME NEW line \in Lines, RejectLine(line) PROVE IInv'
  BY <1>3, RejectLineKeeps
<1>4. CASE EndOfFile
  BY <1>4, EndOfFileKeeps
<1>5. CASE PlanSource
  BY <1>5, PlanSourceKeeps
<1>6. CASE PlanStage
  BY <1>6, PlanStageKeeps
<1>7. CASE PlanHead
  BY <1>7, PlanHeadKeeps
<1>8. CASE PlanDone
  BY <1>8, PlanDoneKeeps
<1>9. CASE LowerSource
  BY <1>9, LowerSourceKeeps
<1>10. CASE LowerStage
  BY <1>10, LowerStageKeeps
<1>11. CASE LowerDone
  BY <1>11, LowerDoneKeeps
<1>12. CASE BuildIr
  BY <1>12, BuildIrKeeps
<1>13. CASE ValidateIr
  BY <1>13, ValidateIrKeeps
<1>14. CASE Emit
  BY <1>14, EmitKeeps
<1>15. CASE UNCHANGED vars
  <2>1. TypeOK'
    BY <1>15 DEF vars, IInv, TypeOK
  <2>2. ParsedStages' /\ PlannedFollow' /\ OpsFollow'
    BY <1>15 DEF vars, IInv, ParsedStages, PlannedFollow, OpsFollow
  <2>3. Verdict' /\ AcceptedIsEmitted'
    BY <1>15 DEF vars, IInv, Verdict, AcceptedIsEmitted
  <2>4. SlotsInRange' /\ SlotsFit'
    BY <1>15, SameLowered DEF vars, IInv
  <2>5. QED
    BY <2>1, <2>2, <2>3, <2>4 DEF IInv
<1>16. QED
  BY <1>1, <1>2, <1>3, <1>4, <1>5, <1>6, <1>7, <1>8, <1>9, <1>10, <1>11,
     <1>12, <1>13, <1>14, <1>15 DEF Next

-----------------------------------------------------------------------------
(* The invariant of the passes, for any file of any length: what a pass    *)
(* leaves is what the next one needs.                                      *)
THEOREM PlannerInvariance == Spec => []IInv
<1>1. Init => IInv
  BY InitIsInductive
<1>2. IInv /\ [Next]_vars => IInv'
  BY NextIsInductive
<1>3. QED
  BY <1>1, <1>2, PTL DEF Spec

(* The planner's state keeps its types (main.c, simplify.c, lower.c).      *)
THEOREM PlannerTypes == Spec => []TypeOK
<1>1. IInv => TypeOK
  BY DEF IInv
<1>2. QED
  BY <1>1, PlannerInvariance, PTL

(* No pass after the plan refuses a pipeline the plan has accepted.        *)
THEOREM PlanIsLastToRefuse == Spec => []AcceptedIsEmitted
<1>1. IInv => AcceptedIsEmitted
  BY DEF IInv
<1>2. QED
  BY <1>1, PlannerInvariance, PTL

(* A refused plan has a diagnostic to print; what goes on has none.        *)
THEOREM RefusalsHaveDiagnostics == Spec => []RefusalsAreExplained
<1>1. IInv => RefusalsAreExplained
  BY DEF IInv, Verdict, RefusalsAreExplained, Accepted, AfterLower
<1>2. QED
  BY <1>1, PlannerInvariance, PTL

(* Every operation works on the slots appended for it, shared with none.   *)
THEOREM SlotsBelongToTheirOps == Spec => []SlotsFit
<1>1. IInv => SlotsFit
  BY DEF IInv
<1>2. QED
  BY <1>1, PlannerInvariance, PTL

(* What is emitted has a terminal operation at its end or nowhere.         *)
THEOREM ResultsReachTheEnd == Spec => []NoResultDropped
<1>1. ASSUME IInv, phase = "done", NEW i \in DOMAIN ops,
             ops[i].kind \in Terminals
      PROVE  i = Len(ops)
  <2>1. /\ i \in 1..Len(ops) /\ Len(ops) = Len(planned)
        /\ Len(planned) = Len(stages)
    BY <1>1 DEF IInv, TypeOK, OpsFollow, Verdict, Accepted, AfterLower
  <2>2. /\ ops[i].kind = LoopOpKind(planned[i].kind)
        /\ planned[i].kind = stages[i].name
        /\ stages[i].name \in ParsedNames
    BY <2>1, <1>1 DEF IInv, OpsFollow, PlannedFollow, ParsedStages
  <2>3. planned[i].kind \in Terminals
    BY <2>2, <1>1, PlannedKindKnown
  <2>4. i = Len(stages)
    BY <2>1, <2>3, <1>1 DEF IInv, Verdict, Planning, Accepted, AfterLower
  <2>5. QED
    BY <2>1, <2>4
<1>2. IInv => NoResultDropped
  BY <1>1 DEF NoResultDropped
<1>3. QED
  BY <1>2, PlannerInvariance, PTL
=============================================================================
