-------------------------- MODULE TaskSystemProofs --------------------------
(***************************************************************************)
(* Theorems of TaskSystem, for any set of clients, delays and bounds.      *)
(***************************************************************************)
EXTENDS TaskSystem, SequenceTheorems, WellFoundedInduction, TLAPS

-----------------------------------------------------------------------------
(* Every nonempty set of naturals has a least element: what the walk of    *)
(* insert_task_locked relies on to stop somewhere.                         *)
LEMMA LeastElement ==
  ASSUME NEW T \in SUBSET Nat, T # {}
  PROVE  \E x \in T : \A y \in T : x <= y
<1>1. IsWellFoundedOn(OpToRel(<, Nat), Nat)
  BY NatLessThanWellFounded
<1>2. PICK x \in T : \A y \in T : ~(<<y, x>> \in OpToRel(<, Nat))
  BY <1>1, WFMin
<1>3. \A y \in T : ~(y < x)
  BY <1>2 DEF OpToRel
<1>4. QED
  BY <1>3

(* Where insert_task_locked links the new task in a sorted list: every     *)
(* task before that place is due no later, every task from it on strictly  *)
(* later.                                                                  *)
LEMMA InsertPositionSplits ==
  ASSUME NEW q \in Seq(Task), NEW task \in Task,
         \A i, j \in 1..Len(q) : i < j => q[i].time <= q[j].time
  PROVE  /\ InsertPosition(q, task) \in 1..(Len(q) + 1)
         /\ \A i \in 1..Len(q) :
              /\ i < InsertPosition(q, task) => q[i].time <= task.time
              /\ i >= InsertPosition(q, task) => q[i].time > task.time
<1> DEFINE k == InsertPosition(q, task)
<1>1. /\ Len(q) \in Nat
      /\ \A i \in 1..Len(q) : q[i] \in Task
      /\ task.time \in Nat
      /\ \A i \in 1..Len(q) : q[i].time \in Nat
  <2>1. Len(q) \in Nat
    BY LenProperties
  <2>2. \A i \in 1..Len(q) : q[i] \in Task
    BY ElementOfSeq
  <2>3. \A t \in Task : t.time \in Nat
    BY DEF Task
  <2>4. QED
    BY <2>1, <2>2, <2>3
<1>2. q # << >> => Len(q) >= 1
  BY <1>1
<1>3. CASE q = << >> \/ task.time < q[1].time
  <2>1. k = 1
    BY <1>3 DEF InsertPosition
  <2>2. \A i \in 1..Len(q) : q[i].time > task.time
    <3> SUFFICES ASSUME NEW i \in 1..Len(q) PROVE q[i].time > task.time
      OBVIOUS
    <3>1. q # << >> /\ task.time < q[1].time
      BY <1>3
    <3>2. 1 \in 1..Len(q) /\ (i = 1 \/ 1 < i)
      BY <1>1
    <3>3. q[1].time <= q[i].time
      BY <3>2, <1>1
    <3>4. QED
      BY <3>1, <3>3, <3>2, <1>1
  <2>3. QED
    BY <2>1, <2>2, <1>1
<1>4. CASE ~(q = << >> \/ task.time < q[1].time) /\ Later(q, task) = {}
  <2>1. k = Len(q) + 1
    BY <1>4 DEF InsertPosition
  <2>2. \A i \in 2..Len(q) : q[i].time <= task.time
    BY <1>4, <1>1 DEF Later
  <2>3. q[1].time <= task.time
    BY <1>4, <1>1, <1>2
  <2>4. \A i \in 1..Len(q) : q[i].time <= task.time
    <3> SUFFICES ASSUME NEW i \in 1..Len(q) PROVE q[i].time <= task.time
      OBVIOUS
    <3>1. i = 1 \/ i \in 2..Len(q)
      BY <1>1
    <3>2. QED
      BY <3>1, <2>2, <2>3
  <2>5. QED
    BY <2>1, <2>4, <1>1
<1>5. CASE ~(q = << >> \/ task.time < q[1].time) /\ Later(q, task) # {}
  <2>1. Later(q, task) \in SUBSET Nat
    BY <1>1 DEF Later
  <2>2. \E i \in Later(q, task) : \A j \in Later(q, task) : i <= j
    BY <2>1, <1>5, LeastElement
  <2>3. k = CHOOSE i \in Later(q, task) : \A j \in Later(q, task) : i <= j
    BY <1>5 DEF InsertPosition
  <2>4. k \in Later(q, task) /\ \A j \in Later(q, task) : k <= j
    BY <2>2, <2>3
  <2>5. k \in 2..Len(q) /\ q[k].time > task.time
    BY <2>4 DEF Later
  <2>6. ASSUME NEW i \in 1..Len(q), i < k PROVE q[i].time <= task.time
    <3>1. CASE i = 1
      BY <3>1, <1>5, <1>1, <1>2
    <3>2. CASE i # 1
      <4>1. i \in 2..Len(q)
        BY <3>2, <1>1
      <4>2. i \notin Later(q, task)
        BY <2>4, <2>6, <2>5, <1>1
      <4>3. QED
        BY <4>1, <4>2, <1>1 DEF Later
    <3>3. QED
      BY <3>1, <3>2
  <2>7. ASSUME NEW i \in 1..Len(q), i >= k PROVE q[i].time > task.time
    <3>1. i = k \/ k < i
      BY <2>7, <2>5, <1>1
    <3>2. q[k].time <= q[i].time
      BY <3>1, <2>5, <1>1
    <3>3. QED
      BY <3>2, <2>5, <1>1
  <2>8. QED
    BY <2>5, <2>6, <2>7, <1>1
<1>6. QED
  BY <1>3, <1>4, <1>5

(* What insert_task_locked leaves: the new task at one place, the others   *)
(* around it in their old order.                                           *)
LEMMA InsertSortedShape ==
  ASSUME NEW q \in Seq(Task), NEW task \in Task,
         InsertPosition(q, task) \in 1..(Len(q) + 1)
  PROVE  /\ InsertSorted(q, task) \in Seq(Task)
         /\ Len(InsertSorted(q, task)) = Len(q) + 1
         /\ InsertSorted(q, task)[InsertPosition(q, task)] = task
         /\ \A i \in 1..Len(q) :
              /\ i < InsertPosition(q, task) =>
                   InsertSorted(q, task)[i] = q[i]
              /\ i >= InsertPosition(q, task) =>
                   InsertSorted(q, task)[i + 1] = q[i]
<1> DEFINE k == InsertPosition(q, task)
           e(i) == IF i < k THEN q[i] ELSE IF i = k THEN task ELSE q[i - 1]
<1>1. Len(q) \in Nat /\ \A i \in 1..Len(q) : q[i] \in Task
  BY LenProperties, ElementOfSeq
<1>2. k \in 1..(Len(q) + 1)
  OBVIOUS
<1>3. InsertSorted(q, task) = [i \in 1..(Len(q) + 1) |-> e(i)]
  BY DEF InsertSorted
<1> HIDE DEF k
<1>4. \A i \in 1..(Len(q) + 1) : e(i) \in Task
  <2> SUFFICES ASSUME NEW i \in 1..(Len(q) + 1) PROVE e(i) \in Task
    OBVIOUS
  <2>1. CASE i < k
    BY <2>1, <1>1, <1>2
  <2>2. CASE i = k
    BY <2>2, <1>2
  <2>3. CASE i > k
    <3>1. i - 1 \in 1..Len(q)
      BY <2>3, <1>1, <1>2
    <3>2. QED
      BY <3>1, <2>3, <1>1, <1>2
  <2>4. QED
    BY <2>1, <2>2, <2>3, <1>1, <1>2
<1>5. InsertSorted(q, task) \in Seq(Task)
  BY <1>1, <1>3, <1>4, IsASeq
<1>6. Len(InsertSorted(q, task)) = Len(q) + 1
  BY <1>1, <1>3, <1>5, LenProperties
<1>7. InsertSorted(q, task)[k] = task
  BY <1>1, <1>2, <1>3
<1>8. ASSUME NEW i \in 1..Len(q), i < k
      PROVE  InsertSorted(q, task)[i] = q[i]
  BY <1>1, <1>2, <1>3, <1>8
<1>9. ASSUME NEW i \in 1..Len(q), i >= k
      PROVE  InsertSorted(q, task)[i + 1] = q[i]
  <2>1. /\ i + 1 \in 1..(Len(q) + 1)
        /\ ~(i + 1 < k) /\ i + 1 # k /\ (i + 1) - 1 = i
    BY <1>1, <1>2, <1>9
  <2>2. QED
    BY <1>3, <2>1
<1>10. QED
  BY <1>5, <1>6, <1>7, <1>8, <1>9 DEF k

(* Read the other way round: where each element of the new list is from.   *)
LEMMA InsertSortedAt ==
  ASSUME NEW q \in Seq(Task), NEW task \in Task,
         InsertPosition(q, task) \in 1..(Len(q) + 1)
  PROVE  LET k == InsertPosition(q, task)
             r == InsertSorted(q, task)
         IN  \A i \in 1..Len(r) :
               \/ i < k /\ i \in 1..Len(q) /\ r[i] = q[i]
               \/ i = k /\ r[i] = task
               \/ i > k /\ i - 1 \in 1..Len(q) /\ i - 1 >= k /\ r[i] = q[i - 1]
<1> DEFINE k == InsertPosition(q, task)
           r == InsertSorted(q, task)
<1>1. Len(q) \in Nat
  BY LenProperties
<1>2. /\ Len(r) = Len(q) + 1 /\ r[k] = task
      /\ \A i \in 1..Len(q) : /\ i < k => r[i] = q[i]
                              /\ i >= k => r[i + 1] = q[i]
  BY InsertSortedShape
<1>3. k \in 1..(Len(q) + 1)
  OBVIOUS
<1> HIDE DEF k, r
<1>4. ASSUME NEW i \in 1..Len(r), i > k
      PROVE  i - 1 \in 1..Len(q) /\ i - 1 >= k /\ r[i] = q[i - 1]
  <2>1. i - 1 \in 1..Len(q) /\ i - 1 >= k /\ (i - 1) + 1 = i
    BY <1>1, <1>2, <1>3, <1>4
  <2>2. QED
    BY <1>2, <2>1
<1>5. QED
  BY <1>1, <1>2, <1>3, <1>4 DEF k, r

Sorted(q) == \A i, j \in 1..Len(q) : i < j => Precedes(q[i], q[j])

(* Insertion keeps the list sorted: a task newer than all others lands     *)
(* behind every equal time.                                                *)
LEMMA InsertSortedSorts ==
  ASSUME NEW q \in Seq(Task), NEW task \in Task, Sorted(q),
         \A i \in 1..Len(q) : q[i].id < task.id
  PROVE  /\ InsertPosition(q, task) \in 1..(Len(q) + 1)
         /\ InsertSorted(q, task) \in Seq(Task)
         /\ Len(InsertSorted(q, task)) = Len(q) + 1
         /\ Sorted(InsertSorted(q, task))
<1> DEFINE k == InsertPosition(q, task)
           r == InsertSorted(q, task)
<1>1. /\ Len(q) \in Nat
      /\ \A i \in 1..Len(q) : q[i] \in Task
  BY LenProperties, ElementOfSeq
<1>2. \A t \in Task : t.time \in Nat /\ t.id \in Nat
  BY DEF Task
<1>3. \A i, j \in 1..Len(q) : i < j => q[i].time <= q[j].time
  BY <1>1, <1>2 DEF Sorted, Precedes
<1>4. /\ k \in 1..(Len(q) + 1)
      /\ \A i \in 1..Len(q) : /\ i < k => q[i].time <= task.time
                              /\ i >= k => q[i].time > task.time
  BY <1>3, InsertPositionSplits
<1>5. /\ r \in Seq(Task) /\ Len(r) = Len(q) + 1 /\ r[k] = task
      /\ \A i \in 1..Len(q) : /\ i < k => r[i] = q[i]
                              /\ i >= k => r[i + 1] = q[i]
  BY <1>4, InsertSortedShape
<1> HIDE DEF k, r
<1>6. \A i \in 1..Len(r) : \/ i < k /\ i \in 1..Len(q) /\ r[i] = q[i]
                           \/ i = k /\ r[i] = task
                           \/ i > k /\ i - 1 \in 1..Len(q) /\ i - 1 >= k
                              /\ r[i] = q[i - 1]
  BY <1>4, InsertSortedAt DEF k, r
<1>7. Sorted(r)
  <2> SUFFICES ASSUME NEW i \in 1..Len(r), NEW j \in 1..Len(r), i < j
               PROVE  Precedes(r[i], r[j])
    BY DEF Sorted
  <2>1. CASE j < k
    <3>1. r[i] = q[i] /\ r[j] = q[j] /\ i \in 1..Len(q) /\ j \in 1..Len(q)
      BY <2>1, <1>1, <1>4, <1>6
    <3>2. QED
      BY <3>1 DEF Sorted
  <2>2. CASE j = k
    <3>1. r[i] = q[i] /\ r[j] = task /\ i \in 1..Len(q) /\ i < k
      BY <2>2, <1>1, <1>4, <1>6
    <3>2. q[i] \in Task /\ q[i].time <= task.time /\ q[i].id < task.id
      BY <3>1, <1>1, <1>4
    <3>3. q[i].time < task.time \/ q[i].time = task.time
      BY <3>2, <1>2
    <3>4. QED
      BY <3>1, <3>2, <3>3 DEF Precedes
  <2>3. CASE j > k /\ i < k
    <3>1. /\ r[i] = q[i] /\ r[j] = q[j - 1]
          /\ i \in 1..Len(q) /\ j - 1 \in 1..Len(q) /\ i < j - 1
      BY <2>3, <1>1, <1>4, <1>6
    <3>2. QED
      BY <3>1 DEF Sorted
  <2>4. CASE j > k /\ i = k
    <3>1. r[i] = task /\ r[j] = q[j - 1] /\ j - 1 \in 1..Len(q) /\ j - 1 >= k
      BY <2>4, <1>1, <1>4, <1>6
    <3> DEFINE m == j - 1
    <3> HIDE DEF m
    <3>2. m \in 1..Len(q) /\ m >= k /\ r[j] = q[m]
      BY <3>1 DEF m
    <3>3. q[m].time > task.time /\ q[m] \in Task
      BY <3>2, <1>1, <1>4
    <3>4. task.time < q[m].time
      BY <3>3, <1>2
    <3>5. QED
      BY <3>1, <3>2, <3>4 DEF Precedes
  <2>5. CASE j > k /\ i > k
    <3>1. /\ r[i] = q[i - 1] /\ r[j] = q[j - 1]
          /\ i - 1 \in 1..Len(q) /\ j - 1 \in 1..Len(q) /\ i - 1 < j - 1
      BY <2>5, <1>1, <1>4, <1>6
    <3>2. QED
      BY <3>1 DEF Sorted
  <2>6. QED
    BY <2>1, <2>2, <2>3, <2>4, <2>5, <1>1, <1>4, <1>5
<1>8. QED
  BY <1>4, <1>5, <1>7 DEF k, r

-----------------------------------------------------------------------------
(***************************************************************************)
(* The inductive invariant.  TypeOK, LockDiscipline, QueueOrdered and      *)
(* NoLostWakeup are not inductive by themselves: the parts below say who   *)
(* can be inside insert_task_in, when the worker exists, what the worker   *)
(* knows between its reading of the list and its decision, and that every  *)
(* new task is newer than all the others.                                  *)
(***************************************************************************)
CallContext ==
  /\ call[Worker] # "none" => pc[Worker] = "action"
  /\ call[Controller] # "none" => pc[Controller] = "up"

WorkerLifetime ==
  pc[Worker] = "none" <=> pc[Controller] \in {"off", "reap", "reaping"}

DecideContext ==
  pc[Worker] = "decide" => tasks_running /\ tasks # << >>

IdsBounded == \A i \in 1..Len(tasks) : tasks[i].id <= inserted

(* Who holds the mutex, who may call, and when the worker exists.          *)
ControlInv == LockDiscipline /\ CallContext /\ WorkerLifetime

QueueInv == DecideContext /\ QueueOrdered /\ IdsBounded /\ NoLostWakeup

IInv == TypeOK /\ ControlInv /\ QueueInv

(* The controller, the worker and the clients are different threads and    *)
(* none of them stands for a free mutex.                                   *)
LEMMA ThreadFacts ==
  /\ Controller \in Threads /\ Worker \in Threads /\ Controller # Worker
  /\ Controller \notin Clients /\ Worker \notin Clients
  /\ NoThread \notin Threads /\ Clients \subseteq Threads
  BY ConstantsAssumption DEF Threads

(* The head and the rest of the list, which WorkerPop separates.           *)
LEMMA HeadAndTail ==
  ASSUME NEW q \in Seq(Task), q # << >>
  PROVE  /\ q[1] \in Task
         /\ Tail(q) \in Seq(Task)
         /\ Len(q) \in Nat \ {0}
         /\ Len(Tail(q)) = Len(q) - 1
         /\ \A i \in 1..Len(Tail(q)) : i + 1 \in 1..Len(q)
                                       /\ Tail(q)[i] = q[i + 1]
<1>1. Len(q) \in Nat \ {0}
  BY EmptySeq, LenProperties
<1>2. q[1] \in Task
  BY <1>1, ElementOfSeq
<1>3. QED
  BY <1>1, <1>2, HeadTailProperties

(* Before the first start_task_system every variable has its type.         *)
LEMMA TypeInit == Init => TypeOK
<1> SUFFICES ASSUME Init PROVE TypeOK
  OBVIOUS
<1>1. tasks \in Seq(Task) /\ ran \in Seq(Task)
  BY EmptySeq DEF Init
<1>2. /\ pc[Controller] \in ControllerPc /\ pc[Worker] \in WorkerPc
      /\ pc \in [Threads -> ControllerPc \union WorkerPc \union {"client"}]
  BY ThreadFacts DEF Init, ControllerPc, WorkerPc
<1>3. call \in [Threads -> {"none", "want", "locked", "unlock"}]
  BY DEF Init
<1>4. abs_time \in [Threads -> Nat]
  BY DEF Init
<1>5. QED
  BY <1>1, <1>2, <1>3, <1>4 DEF Init, TypeOK

(* Before the first start nobody holds the mutex and there is no worker.   *)
LEMMA ControlInit == Init => ControlInv
  BY ThreadFacts DEF Init, ControlInv, LockDiscipline, Critical, CallContext,
                     WorkerLifetime

(* Before the first start the list is empty and nobody waits on it.        *)
LEMMA QueueInit == Init => QueueInv
  BY ThreadFacts DEF Init, QueueInv, DecideContext, QueueOrdered, IdsBounded,
                     NoLostWakeup

-----------------------------------------------------------------------------
(* Each part of the invariant is preserved by every action.                *)
LEMMA ControlStep ==
  ASSUME TypeOK, ControlInv, [Next]_vars
  PROVE  ControlInv'
<1> USE ThreadFacts DEF TypeOK, ControlInv, LockDiscipline, Critical,
        CallContext, WorkerLifetime, ControllerPc, WorkerPc
<1>1. ASSUME NEW t \in Threads, InsertTaskIn(t) PROVE ControlInv'
  BY <1>1 DEF InsertTaskIn, CanCall, IsUp
<1>2. ASSUME NEW t \in Threads, InsertLock(t) PROVE ControlInv'
  BY <1>2 DEF InsertLock, Acquire
<1>3. ASSUME NEW t \in Threads, InsertTaskLocked(t) PROVE ControlInv'
  BY <1>3 DEF InsertTaskLocked, Signalled, Sleeping
<1>4. ASSUME NEW t \in Threads, InsertUnlock(t) PROVE ControlInv'
  BY <1>4 DEF InsertUnlock, Release
<1>5. CASE WorkerAcquire
  BY <1>5 DEF WorkerAcquire, Goto, Acquire, callVars
<1>6. CASE WorkerLoop
  BY <1>6 DEF WorkerLoop, Goto, callVars
<1>7. CASE WorkerWait
  BY <1>7 DEF WorkerWait, Goto, Release, callVars
<1>8. CASE WorkerPop
  BY <1>8 DEF WorkerPop, Goto, Release, callVars
<1>9. CASE WorkerTimedWait
  BY <1>9 DEF WorkerTimedWait, Goto, Release, callVars
<1>10. CASE WorkerTimeout
  BY <1>10 DEF WorkerTimeout, Goto, callVars
<1>11. CASE WorkerSpuriousWakeup
  BY <1>11 DEF WorkerSpuriousWakeup, Sleeping, callVars
<1>12. CASE WorkerActionDone
  BY <1>12 DEF WorkerActionDone, Goto, callVars
<1>13. CASE WorkerExit
  BY <1>13 DEF WorkerExit, Goto, Release, callVars
<1>14. CASE StartTaskSystem
  BY <1>14 DEF StartTaskSystem, callVars
<1>15. CASE StopTaskSystem
  BY <1>15 DEF StopTaskSystem, Goto, callVars
<1>16. CASE StopLock
  BY <1>16 DEF StopLock, Goto, Acquire, callVars
<1>17. CASE StopSignal
  BY <1>17 DEF StopSignal, Signalled, Sleeping, Release, callVars
<1>18. CASE StopJoin
  BY <1>18 DEF StopJoin, callVars
<1>19. CASE StopReapLock
  BY <1>19 DEF StopReapLock, Goto, Acquire, callVars
<1>20. CASE StopReap
  BY <1>20 DEF StopReap, Goto, Release, callVars
<1>21. CASE Tick
  BY <1>21 DEF Tick, callVars
<1>22. CASE UNCHANGED vars
  BY <1>22 DEF vars, callVars
<1>23. QED
  BY <1>1, <1>2, <1>3, <1>4, <1>5, <1>6, <1>7, <1>8, <1>9, <1>10, <1>11, <1>12,
    <1>13, <1>14, <1>15, <1>16, <1>17, <1>18, <1>19, <1>20, <1>21, <1>22
     DEF Next, InsertStep, WorkerStep, ControllerStep

(* What inserting the newest task does to the list.                        *)
LEMMA InsertNewest ==
  ASSUME TypeOK, QueueOrdered, IdsBounded, NEW t \in Threads,
         InsertTaskLocked(t)
  PROVE  /\ tasks' \in Seq(Task) /\ Len(tasks') = Len(tasks) + 1
         /\ QueueOrdered'
         /\ IdsBounded'
<1> DEFINE new == [id |-> inserted + 1, time |-> abs_time[t], life |-> starts]
           r == InsertSorted(tasks, new)
<1>1. new \in Task /\ new.id = inserted + 1 /\ inserted \in Nat
  BY DEF TypeOK, Task
<1>2. tasks \in Seq(Task) /\ Len(tasks) \in Nat
  BY LenProperties DEF TypeOK
<1>3. \A i \in 1..Len(tasks) : tasks[i] \in Task /\ tasks[i].id \in Nat
  <2>1. \A i \in 1..Len(tasks) : tasks[i] \in Task
    BY <1>2, ElementOfSeq
  <2>2. \A task \in Task : task.id \in Nat
    BY DEF Task
  <2>3. QED
    BY <2>1, <2>2
<1>4. Sorted(tasks)
  BY DEF QueueOrdered, Sorted
<1>5. tasks' = r /\ inserted' = inserted + 1
  BY DEF InsertTaskLocked
<1> HIDE DEF new, r
<1>6. \A i \in 1..Len(tasks) : tasks[i].id < new.id
  BY <1>1, <1>3 DEF IdsBounded
<1>7. /\ InsertPosition(tasks, new) \in 1..(Len(tasks) + 1)
      /\ r \in Seq(Task) /\ Len(r) = Len(tasks) + 1 /\ Sorted(r)
  BY <1>1, <1>2, <1>4, <1>6, InsertSortedSorts DEF r
<1>8. \A i \in 1..Len(r) : r[i] = new
                            \/ \E j \in 1..Len(tasks) : r[i] = tasks[j]
  BY <1>1, <1>2, <1>7, InsertSortedAt DEF r
<1>9. \A i \in 1..Len(r) : r[i].id <= inserted + 1
  BY <1>1, <1>3, <1>6, <1>8
<1>10. QED
  BY <1>5, <1>7, <1>9 DEF QueueOrdered, IdsBounded, Sorted

(* Every action keeps the types; WorkerPop and WorkerTimedWait need to     *)
(* know that the worker decides on a list that is not empty.               *)
LEMMA TypeStep ==
  ASSUME IInv, [Next]_vars
  PROVE  TypeOK'
<1> USE ThreadFacts DEF TypeOK, ControllerPc, WorkerPc
<1>0. TypeOK /\ QueueOrdered /\ IdsBounded
      /\ (pc[Worker] = "decide" => tasks # << >>)
  BY DEF IInv, QueueInv, DecideContext
<1>1. ASSUME NEW t \in Threads, InsertTaskIn(t) PROVE TypeOK'
  <2>1. PICK delay \in Delays :
          abs_time' = [abs_time EXCEPT ![t] = now + delay]
    BY <1>1 DEF InsertTaskIn
  <2>2. now + delay \in Nat
    BY <1>0, ConstantsAssumption
  <2>3. abs_time' \in [Threads -> Nat]
    BY <1>0, <2>1, <2>2
  <2>4. QED
    BY <1>0, <1>1, <2>3 DEF InsertTaskIn, workerVars, history
<1>2. ASSUME NEW t \in Threads, InsertLock(t) PROVE TypeOK'
  BY <1>0, <1>2 DEF InsertLock, Acquire, callVars, workerVars, history
<1>3. ASSUME NEW t \in Threads, InsertTaskLocked(t) PROVE TypeOK'
  <2>1. tasks' \in Seq(Task)
    BY <1>0, <1>3, InsertNewest
  <2>2. QED
    BY <1>0, <1>3, <2>1
       DEF InsertTaskLocked, Signalled, Sleeping, workerVars
<1>4. ASSUME NEW t \in Threads, InsertUnlock(t) PROVE TypeOK'
  BY <1>0, <1>4 DEF InsertUnlock, Release, callVars, workerVars, history
<1>5. CASE WorkerAcquire
  BY <1>0, <1>5 DEF WorkerAcquire, Goto, Acquire, callVars, workerVars, history
<1>6. CASE WorkerLoop
  BY <1>0, <1>6 DEF WorkerLoop, Goto, callVars, workerVars, history
<1>7. CASE WorkerWait
  BY <1>0, <1>7 DEF WorkerWait, Goto, Release, callVars, workerVars, history
<1>8. CASE WorkerPop
  BY <1>0, <1>8 DEF WorkerPop, Goto, Release, callVars, workerVars, history
<1>9. CASE WorkerTimedWait
  <2>1. tasks[1] \in Task /\ tasks # << >>
    BY <1>0, <1>9, HeadAndTail DEF WorkerTimedWait, Goto
  <2>2. tasks[1].time \in Nat
    BY <2>1 DEF Task
  <2>3. wait_ms' \in Nat
    BY <1>0, <1>9, <2>2 DEF WorkerTimedWait
  <2>4. QED
    BY <1>0, <1>9, <2>3
       DEF WorkerTimedWait, Goto, Release, callVars, history
<1>10. CASE WorkerTimeout
  BY <1>0, <1>10 DEF WorkerTimeout, Goto, callVars, workerVars, history
<1>11. CASE WorkerSpuriousWakeup
  BY <1>0, <1>11 DEF WorkerSpuriousWakeup, Sleeping, callVars, workerVars,
    history
<1>12. CASE WorkerActionDone
  BY <1>0, <1>12 DEF WorkerActionDone, Goto, callVars, workerVars, history
<1>13. CASE WorkerExit
  BY <1>0, <1>13 DEF WorkerExit, Goto, Release, callVars, workerVars, history
<1>14. CASE StartTaskSystem
  <2>1. pc' \in [Threads -> ControllerPc \union WorkerPc \union {"client"}]
    BY <1>0, <1>14 DEF StartTaskSystem
  <2>2. pc'[Controller] = "up" /\ pc'[Worker] = "acquire"
    BY <1>0, <1>14 DEF StartTaskSystem
  <2>3. QED
    BY <1>0, <1>14, <2>1, <2>2 DEF StartTaskSystem, callVars, workerVars
<1>15. CASE StopTaskSystem
  BY <1>0, <1>15 DEF StopTaskSystem, Goto, callVars, workerVars, history
<1>16. CASE StopLock
  BY <1>0, <1>16 DEF StopLock, Goto, Acquire, callVars, workerVars, history
<1>17. CASE StopSignal
  BY <1>0, <1>17 DEF StopSignal, Signalled, Sleeping, Release, callVars,
    workerVars, history
<1>18. CASE StopJoin
  BY <1>0, <1>18 DEF StopJoin, callVars, workerVars, history
<1>19. CASE StopReapLock
  BY <1>0, <1>19 DEF StopReapLock, Goto, Acquire, callVars, workerVars, history
<1>20. CASE StopReap
  <2>1. tasks' \in Seq(Task)
    BY <1>20, EmptySeq DEF StopReap
  <2>2. \A n \in DOMAIN tasks : tasks[n].id \in Nat \ {0}
    <3>1. \A n \in DOMAIN tasks : tasks[n] \in Task
      BY <1>0, ElementOfSeq, LenProperties
    <3>2. QED
      BY <3>1 DEF Task
  <2>3. dropped' \in SUBSET (Nat \ {0})
    BY <1>0, <1>20, <2>2 DEF StopReap
  <2>4. QED
    BY <1>0, <1>20, <2>1, <2>3 DEF StopReap, Goto, Release, callVars,
      workerVars
<1>21. CASE Tick
  BY <1>0, <1>21 DEF Tick, callVars, workerVars, history
<1>22. CASE UNCHANGED vars
  BY <1>0, <1>22 DEF vars, callVars, workerVars, history
<1>23. QED
  BY <1>1, <1>2, <1>3, <1>4, <1>5, <1>6, <1>7, <1>8, <1>9, <1>10, <1>11, <1>12,
    <1>13, <1>14, <1>15, <1>16, <1>17, <1>18, <1>19, <1>20, <1>21, <1>22
     DEF Next, InsertStep, WorkerStep, ControllerStep

(* Every action keeps the list sorted and the worker's wait justified.     *)
LEMMA QueueStep ==
  ASSUME IInv, [Next]_vars
  PROVE  QueueInv'
<1> USE ThreadFacts DEF TypeOK, ControlInv, LockDiscipline, Critical,
  CallContext, WorkerLifetime, QueueInv, DecideContext, QueueOrdered,
  IdsBounded, NoLostWakeup
<1>0. TypeOK /\ ControlInv /\ QueueInv
  BY DEF IInv
<1>1. ASSUME NEW t \in Threads, InsertTaskIn(t) PROVE QueueInv'
  BY <1>0, <1>1 DEF InsertTaskIn, CanCall, IsUp, callVars, workerVars, history
<1>2. ASSUME NEW t \in Threads, InsertLock(t) PROVE QueueInv'
  BY <1>0, <1>2 DEF InsertLock, Acquire, callVars, workerVars, history
<1>3. ASSUME NEW t \in Threads, InsertTaskLocked(t) PROVE QueueInv'
  <2>1. QueueOrdered' /\ IdsBounded' /\ tasks' # << >>
    <3>1. /\ tasks' \in Seq(Task) /\ Len(tasks') = Len(tasks) + 1
          /\ QueueOrdered' /\ IdsBounded'
      BY <1>0, <1>3, InsertNewest
    <3>2. Len(tasks) \in Nat
      BY <1>0, LenProperties
    <3>3. QED
      BY <3>1, <3>2, EmptySeq
  <2>2. DecideContext' /\ NoLostWakeup'
    BY <1>0, <1>3, <2>1
       DEF InsertTaskLocked, Signalled, Sleeping, workerVars
  <2>3. QED
    BY <2>1, <2>2
<1>4. ASSUME NEW t \in Threads, InsertUnlock(t) PROVE QueueInv'
  BY <1>0, <1>4 DEF InsertUnlock, Release, callVars, workerVars, history
<1>5. CASE WorkerAcquire
  BY <1>0, <1>5 DEF WorkerAcquire, Goto, Acquire, callVars, workerVars, history
<1>6. CASE WorkerLoop
  BY <1>0, <1>6 DEF WorkerLoop, Goto, callVars, workerVars, history
<1>7. CASE WorkerWait
  BY <1>0, <1>7 DEF WorkerWait, Goto, Release, callVars, workerVars, history
<1>8. CASE WorkerPop
  BY <1>0, <1>8 DEF WorkerPop, Goto, Release, callVars, workerVars, history
<1>9. CASE WorkerTimedWait
  <2>1. tasks[1].time \in Nat
    <3>1. tasks[1] \in Task
      BY <1>0, <1>9, HeadAndTail DEF WorkerTimedWait, Goto
    <3>2. QED
      BY <3>1 DEF Task
  <2>2. tasks[1].time = seen + wait_ms' /\ seen' = seen /\ tasks' = tasks
    BY <1>0, <1>9, <2>1 DEF WorkerTimedWait
  <2>3. QED
    BY <1>0, <1>9, <2>2
       DEF WorkerTimedWait, Goto, Release, callVars, history
<1>10. CASE WorkerTimeout
  BY <1>0, <1>10 DEF WorkerTimeout, Goto, callVars, workerVars, history
<1>11. CASE WorkerSpuriousWakeup
  BY <1>0, <1>11 DEF WorkerSpuriousWakeup, Sleeping, callVars, workerVars,
    history
<1>12. CASE WorkerActionDone
  BY <1>0, <1>12 DEF WorkerActionDone, Goto, callVars, workerVars, history
<1>13. CASE WorkerExit
  BY <1>0, <1>13 DEF WorkerExit, Goto, Release, callVars, workerVars, history
<1>14. CASE StartTaskSystem
  BY <1>0, <1>14 DEF StartTaskSystem, callVars, workerVars, history
<1>15. CASE StopTaskSystem
  BY <1>0, <1>15 DEF StopTaskSystem, Goto, callVars, workerVars, history
<1>16. CASE StopLock
  BY <1>0, <1>16 DEF StopLock, Goto, Acquire, callVars, workerVars, history
<1>17. CASE StopSignal
  BY <1>0, <1>17 DEF StopSignal, Signalled, Sleeping, Release, callVars,
    workerVars, history
<1>18. CASE StopJoin
  BY <1>0, <1>18 DEF StopJoin, callVars, workerVars, history
<1>19. CASE StopReapLock
  BY <1>0, <1>19 DEF StopReapLock, Goto, Acquire, callVars, workerVars, history
<1>20. CASE StopReap
  BY <1>0, <1>20 DEF StopReap, Goto, Release, callVars, workerVars, history
<1>21. CASE Tick
  BY <1>0, <1>21 DEF Tick, callVars, workerVars, history
<1>22. CASE UNCHANGED vars
  BY <1>0, <1>22 DEF vars, callVars, workerVars, history
<1>23. QED
  BY <1>1, <1>2, <1>3, <1>4, <1>5, <1>6, <1>7, <1>8, <1>9, <1>10, <1>11, <1>12,
    <1>13, <1>14, <1>15, <1>16, <1>17, <1>18, <1>19, <1>20, <1>21, <1>22
     DEF Next, InsertStep, WorkerStep, ControllerStep

(* The inductive invariant: the lock protocol, the worker's place in it    *)
(* and the sorted list hold together in every state of the task system.    *)
THEOREM Invariance == Spec => []IInv
<1>1. Init => IInv
  BY TypeInit, ControlInit, QueueInit DEF IInv
<1>2. IInv /\ [Next]_vars => IInv'
  <2> SUFFICES ASSUME IInv, [Next]_vars PROVE IInv'
    OBVIOUS
  <2>1. ControlInv'
    BY ControlStep DEF IInv
  <2>2. QED
    BY <2>1, TypeStep, QueueStep DEF IInv
<1>3. QED
  BY <1>1, <1>2, PTL DEF Spec

(* The variables of task.c keep their types: the worker never reads an     *)
(* empty list's head, nor computes a negative wait.                        *)
THEOREM TypeCorrect == Spec => []TypeOK
<1>1. IInv => TypeOK
  BY DEF IInv
<1>2. QED
  BY <1>1, Invariance, PTL

(* Mutual exclusion: a thread is in a critical section of task.c exactly   *)
(* when it holds tasks_mutex.                                              *)
THEOREM MutexCorrect == Spec => []LockDiscipline
<1>1. IInv => LockDiscipline
  BY DEF IInv, ControlInv
<1>2. QED
  BY <1>1, Invariance, PTL

(* insert_task_locked keeps the list sorted by time, first in first out    *)
(* among equal times, for every delay and any number of threads.           *)
THEOREM QueueCorrect == Spec => []QueueOrdered
<1>1. IInv => QueueOrdered
  BY DEF IInv, QueueInv
<1>2. QED
  BY <1>1, Invariance, PTL

(* The worker never sleeps through a task or through the end: one signal   *)
(* per insertion and one per stop are enough.                              *)
THEOREM WakeupCorrect == Spec => []NoLostWakeup
<1>1. IInv => NoLostWakeup
  BY DEF IInv, QueueInv
<1>2. QED
  BY <1>1, Invariance, PTL

-----------------------------------------------------------------------------
(***************************************************************************)
(* The list as a set, which is how Scheduler sees it: an insertion adds    *)
(* the new task and nothing else.                                          *)
(***************************************************************************)
LEMMA InsertedSet ==
  ASSUME IInv, NEW t \in Threads, InsertTaskLocked(t)
  PROVE  LET new == [id |-> inserted + 1, time |-> abs_time[t],
                     life |-> starts]
         IN  /\ new \in Task
             /\ InsertPosition(tasks, new) \in 1..(Len(tasks) + 1)
             /\ tasks' = InsertSorted(tasks, new)
             /\ {tasks'[i] : i \in 1..Len(tasks')} =
                  {tasks[i] : i \in 1..Len(tasks)} \union {new}
<1> DEFINE new == [id |-> inserted + 1, time |-> abs_time[t], life |-> starts]
           r == InsertSorted(tasks, new)
           k == InsertPosition(tasks, new)
<1>0. TypeOK /\ QueueOrdered
  BY DEF IInv, QueueInv
<1>1. new \in Task
  BY <1>0 DEF TypeOK, Task
<1>2. tasks \in Seq(Task) /\ Len(tasks) \in Nat
  BY <1>0, LenProperties DEF TypeOK
<1>3. \A i, j \in 1..Len(tasks) : i < j => tasks[i].time <= tasks[j].time
  <2>1. \A i \in 1..Len(tasks) : tasks[i] \in Task
    BY <1>2, ElementOfSeq
  <2>2. \A i \in 1..Len(tasks) : tasks[i].time \in Nat
    BY <2>1 DEF Task
  <2>3. QED
    BY <1>0, <2>2 DEF QueueOrdered, Precedes
<1>4. tasks' = r
  BY DEF InsertTaskLocked
<1> HIDE DEF new
<1>5. k \in 1..(Len(tasks) + 1)
  BY <1>1, <1>2, <1>3, InsertPositionSplits
<1>6. /\ Len(r) = Len(tasks) + 1 /\ r[k] = new
      /\ \A i \in 1..Len(tasks) : /\ i < k => r[i] = tasks[i]
                                  /\ i >= k => r[i + 1] = tasks[i]
  BY <1>1, <1>2, <1>5, InsertSortedShape
<1>7. \A i \in 1..Len(r) : r[i] = new
                            \/ \E j \in 1..Len(tasks) : r[i] = tasks[j]
  BY <1>1, <1>2, <1>5, InsertSortedAt
<1> HIDE DEF r, k
<1>8. \A i \in 1..Len(tasks) : \E j \in 1..Len(r) : r[j] = tasks[i]
  <2> SUFFICES ASSUME NEW i \in 1..Len(tasks)
               PROVE  \E j \in 1..Len(r) : r[j] = tasks[i]
    OBVIOUS
  <2>1. CASE i < k
    BY <1>2, <1>5, <1>6, <2>1
  <2>2. CASE i >= k
    <3>1. i + 1 \in 1..Len(r) /\ r[i + 1] = tasks[i]
      BY <1>2, <1>5, <1>6, <2>2
    <3>2. QED
      BY <3>1
  <2>3. QED
    BY <1>2, <1>5, <2>1, <2>2
<1>9. k \in 1..Len(r) /\ r[k] = new
  BY <1>2, <1>5, <1>6
<1>10. {r[i] : i \in 1..Len(r)} = {tasks[i] : i \in 1..Len(tasks)} \union {new}
  BY <1>7, <1>8, <1>9
<1>11. QED
  BY <1>1, <1>4, <1>5, <1>10 DEF new, r, k

(* What the worker takes off the sorted list is the earliest task, and the *)
(* rest is what stays scheduled.                                           *)
LEMMA PoppedSet ==
  ASSUME IInv, WorkerPop
  PROVE  /\ tasks[1] \in Task
         /\ ran' = Append(ran, tasks[1])
         /\ {tasks'[i] : i \in 1..Len(tasks')} =
              {tasks[i] : i \in 1..Len(tasks)} \ {tasks[1]}
         /\ tasks[1] \in {tasks[i] : i \in 1..Len(tasks)}
         /\ \A other \in {tasks[i] : i \in 1..Len(tasks)} \ {tasks[1]} :
              Precedes(tasks[1], other)
<1>1. tasks \in Seq(Task) /\ tasks # << >> /\ QueueOrdered
  BY DEF IInv, TypeOK, QueueInv, DecideContext, WorkerPop, Goto
<1>2. tasks' = Tail(tasks) /\ ran' = Append(ran, tasks[1])
  BY DEF WorkerPop
<1>3. /\ tasks[1] \in Task /\ Len(tasks) \in Nat \ {0}
      /\ Len(tasks') = Len(tasks) - 1
      /\ \A i \in 1..Len(tasks') : i + 1 \in 1..Len(tasks)
                                  /\ tasks'[i] = tasks[i + 1]
  BY <1>1, <1>2, HeadAndTail
<1>4. \A i \in 1..Len(tasks) : i = 1 \/ Precedes(tasks[1], tasks[i])
  BY <1>1, <1>3 DEF QueueOrdered
<1>5. \A i \in 1..Len(tasks) : i = 1 \/ tasks[i] # tasks[1]
  <2>1. tasks[1].time \in Nat /\ tasks[1].id \in Nat
    BY <1>3 DEF Task
  <2>2. ~Precedes(tasks[1], tasks[1])
    BY <2>1 DEF Precedes
  <2>3. QED
    BY <1>4, <2>2
<1>6. \A i \in 1..Len(tasks) :
        i = 1 \/ \E j \in 1..Len(tasks') : tasks'[j] = tasks[i]
  <2> SUFFICES ASSUME NEW i \in 1..Len(tasks), i # 1
               PROVE  \E j \in 1..Len(tasks') : tasks'[j] = tasks[i]
    OBVIOUS
  <2>1. i - 1 \in 1..Len(tasks') /\ (i - 1) + 1 = i
    BY <1>3
  <2>2. QED
    BY <1>3, <2>1
<1>7. \A i \in 1..Len(tasks') :
        \E j \in 1..Len(tasks) : j # 1 /\ tasks'[i] = tasks[j]
  <2> SUFFICES ASSUME NEW i \in 1..Len(tasks')
               PROVE  \E j \in 1..Len(tasks) : j # 1 /\ tasks'[i] = tasks[j]
    OBVIOUS
  <2>1. i + 1 \in 1..Len(tasks) /\ i + 1 # 1 /\ tasks'[i] = tasks[i + 1]
    BY <1>3
  <2>2. QED
    BY <2>1
<1> DEFINE old == {tasks[i] : i \in 1..Len(tasks)}
           rest == {tasks'[i] : i \in 1..Len(tasks')}
<1>8. rest = old \ {tasks[1]}
  <2>1. ASSUME NEW x \in rest PROVE x \in old /\ x # tasks[1]
    BY <1>5, <1>7
  <2>2. ASSUME NEW x \in old, x # tasks[1] PROVE x \in rest
    BY <1>6, <2>2
  <2> HIDE DEF old, rest
  <2>3. QED
    BY <2>1, <2>2
<1>9. tasks[1] \in old /\ \A x \in old \ {tasks[1]} : Precedes(tasks[1], x)
  BY <1>3, <1>4
<1>10. QED
  BY <1>2, <1>3, <1>8, <1>9

-----------------------------------------------------------------------------
(***************************************************************************)
(* Refinement.  Besides IInv it needs two bounds on times: what a caller   *)
(* has computed for its insertion and what the worker has read.            *)
(***************************************************************************)
TimesBounded ==
  /\ \A t \in Threads : abs_time[t] <= MaxTime
  /\ pc[Worker] = "decide" => seen <= now

(* No action makes a due time pass the bound of the clock or lets the      *)
(* worker's reading of the clock lead the clock.                           *)
LEMMA TimesStep ==
  ASSUME TypeOK, TimesBounded, [Next]_vars
  PROVE  TimesBounded'
<1> USE ThreadFacts, ConstantsAssumption
        DEF TypeOK, TimesBounded, ControllerPc, WorkerPc
<1>1. ASSUME NEW t \in Threads, InsertTaskIn(t) PROVE TimesBounded'
  BY <1>1 DEF InsertTaskIn, callVars, workerVars, history
<1>2. ASSUME NEW t \in Threads, InsertLock(t) PROVE TimesBounded'
  BY <1>2 DEF InsertLock, callVars, workerVars, history
<1>3. ASSUME NEW t \in Threads, InsertTaskLocked(t) PROVE TimesBounded'
  BY <1>3 DEF InsertTaskLocked, Signalled, Sleeping, callVars, workerVars,
    history
<1>4. ASSUME NEW t \in Threads, InsertUnlock(t) PROVE TimesBounded'
  BY <1>4 DEF InsertUnlock, callVars, workerVars, history
<1>5. CASE WorkerAcquire
  BY <1>5 DEF WorkerAcquire, Goto, callVars, workerVars
<1>6. CASE WorkerLoop
  BY <1>6 DEF WorkerLoop, Goto, callVars, workerVars
<1>7. CASE WorkerWait
  BY <1>7 DEF WorkerWait, Goto, callVars, workerVars
<1>8. CASE WorkerPop
  BY <1>8 DEF WorkerPop, Goto, callVars, workerVars
<1>9. CASE WorkerTimedWait
  BY <1>9 DEF WorkerTimedWait, Goto, callVars, workerVars
<1>10. CASE WorkerTimeout
  BY <1>10 DEF WorkerTimeout, Goto, callVars, workerVars
<1>11. CASE WorkerSpuriousWakeup
  BY <1>11 DEF WorkerSpuriousWakeup, Sleeping, callVars, workerVars
<1>12. CASE WorkerActionDone
  BY <1>12 DEF WorkerActionDone, Goto, callVars, workerVars
<1>13. CASE WorkerExit
  BY <1>13 DEF WorkerExit, Goto, callVars, workerVars
<1>14. CASE StartTaskSystem
  BY <1>14 DEF StartTaskSystem, callVars, workerVars
<1>15. CASE StopTaskSystem
  BY <1>15 DEF StopTaskSystem, Goto, callVars, workerVars
<1>16. CASE StopLock
  BY <1>16 DEF StopLock, Goto, callVars, workerVars
<1>17. CASE StopSignal
  BY <1>17 DEF StopSignal, Signalled, Sleeping, callVars, workerVars
<1>18. CASE StopJoin
  BY <1>18 DEF StopJoin, callVars, workerVars
<1>19. CASE StopReapLock
  BY <1>19 DEF StopReapLock, Goto, callVars, workerVars
<1>20. CASE StopReap
  BY <1>20 DEF StopReap, Goto, callVars, workerVars
<1>21. CASE Tick
  BY <1>21 DEF Tick, callVars, workerVars
<1>22. CASE UNCHANGED vars
  BY <1>22 DEF vars, callVars, workerVars
<1>23. QED
  BY <1>1, <1>2, <1>3, <1>4, <1>5, <1>6, <1>7, <1>8, <1>9, <1>10, <1>11, <1>12,
    <1>13, <1>14, <1>15, <1>16, <1>17, <1>18, <1>19, <1>20, <1>21, <1>22
     DEF Next, InsertStep, WorkerStep, ControllerStep

(* The bounds on the times hold throughout.                                *)
LEMMA TimesCorrect == Spec => []TimesBounded
<1>1. Init => TimesBounded
  BY ThreadFacts, ConstantsAssumption DEF Init, TimesBounded
<1>2. TypeOK /\ TimesBounded /\ [Next]_vars => TimesBounded'
  BY TimesStep
<1>3. QED
  BY <1>1, <1>2, TypeCorrect, PTL DEF Spec

(* Before the first start the abstract scheduler is closed and empty.      *)
LEMMA RefinesInit == Init => Abstract!SchedInit
  BY ThreadFacts DEF Init, Abstract!SchedInit, CondAlive

(* Every step of task.c is a step of the abstract scheduler or invisible   *)
(* to it: insertion, popping, start and the end of a stop are its steps.   *)
LEMMA RefinesStep ==
  ASSUME IInv, TimesBounded, [Next]_vars
  PROVE  [Abstract!SchedNext]_(Abstract!schedVars)
<1> USE ThreadFacts DEF Abstract!schedVars, CondAlive
<1>0. TypeOK /\ ControlInv /\ QueueInv
  BY DEF IInv
<1>1. ASSUME NEW t \in Threads, InsertTaskIn(t)
      PROVE  [Abstract!SchedNext]_(Abstract!schedVars)
  BY <1>0, <1>1 DEF InsertTaskIn, callVars, workerVars, history
<1>2. ASSUME NEW t \in Threads, InsertLock(t)
      PROVE  [Abstract!SchedNext]_(Abstract!schedVars)
  BY <1>0, <1>2 DEF InsertLock, callVars, workerVars, history
<1>3. ASSUME NEW t \in Threads, InsertTaskLocked(t)
      PROVE  [Abstract!SchedNext]_(Abstract!schedVars)
  <2> DEFINE task == [id |-> inserted + 1, time |-> abs_time[t],
                      life |-> starts]
  <2>1. {tasks'[i] : i \in 1..Len(tasks')} =
          {tasks[i] : i \in 1..Len(tasks)} \union {task}
    BY <1>3, InsertedSet
  <2>2. abs_time[t] \in 0..MaxTime
    BY <1>0, ConstantsAssumption DEF TypeOK, TimesBounded
  <2>3. CondAlive' = CondAlive
    BY <1>0, <1>3 DEF InsertTaskLocked, Signalled, TypeOK
  <2>4. Abstract!Schedule
    BY <1>3, <2>1, <2>2, <2>3 DEF InsertTaskLocked, Abstract!Schedule
  <2>5. QED
    BY <2>4 DEF Abstract!SchedNext
<1>4. ASSUME NEW t \in Threads, InsertUnlock(t)
      PROVE  [Abstract!SchedNext]_(Abstract!schedVars)
  BY <1>0, <1>4 DEF InsertUnlock, callVars, workerVars, history
<1>5. CASE WorkerAcquire
  BY <1>0, <1>5 DEF WorkerAcquire, Goto, history, TypeOK
<1>6. CASE WorkerLoop
  BY <1>0, <1>6 DEF WorkerLoop, Goto, history, TypeOK
<1>7. CASE WorkerWait
  BY <1>0, <1>7 DEF WorkerWait, Goto, history, TypeOK
<1>8. CASE WorkerPop
  <2>1. /\ tasks[1] \in Task /\ ran' = Append(ran, tasks[1])
        /\ {tasks'[i] : i \in 1..Len(tasks')} =
             {tasks[i] : i \in 1..Len(tasks)} \ {tasks[1]}
        /\ tasks[1] \in {tasks[i] : i \in 1..Len(tasks)}
        /\ \A other \in {tasks[i] : i \in 1..Len(tasks)} \ {tasks[1]} :
             Precedes(tasks[1], other)
    BY <1>8, PoppedSet
  <2>2. tasks[1].time <= now
    <3>1. tasks[1].time <= seen /\ seen <= now
      BY <1>8 DEF WorkerPop, Goto, TimesBounded
    <3>2. tasks[1].time \in Nat
      BY <2>1 DEF Task
    <3>3. QED
      BY <1>0, <3>1, <3>2 DEF TypeOK
  <2>3. CondAlive /\ CondAlive'
    BY <1>0, <1>8 DEF WorkerPop, Goto, TypeOK, ControlInv, WorkerLifetime
  <2>4. \A other \in {tasks[i] : i \in 1..Len(tasks)} \ {tasks[1]} :
          Abstract!Before(tasks[1], other)
    BY <2>1 DEF Precedes, Abstract!Before
  <2>5. Abstract!Start
    BY <1>8, <2>1, <2>2, <2>3, <2>4 DEF WorkerPop, Abstract!Start
  <2>6. QED
    BY <2>5 DEF Abstract!SchedNext
<1>9. CASE WorkerTimedWait
  BY <1>0, <1>9 DEF WorkerTimedWait, Goto, history, TypeOK
<1>10. CASE WorkerTimeout
  BY <1>0, <1>10 DEF WorkerTimeout, Goto, history, TypeOK
<1>11. CASE WorkerSpuriousWakeup
  BY <1>0, <1>11 DEF WorkerSpuriousWakeup, Sleeping, history, TypeOK
<1>12. CASE WorkerActionDone
  BY <1>0, <1>12 DEF WorkerActionDone, Goto, history, TypeOK
<1>13. CASE WorkerExit
  BY <1>0, <1>13 DEF WorkerExit, Goto, history, TypeOK
<1>14. CASE StartTaskSystem
  <2>1. Abstract!Open
    BY <1>0, <1>14 DEF StartTaskSystem, TypeOK, Abstract!Open
  <2>2. QED
    BY <2>1 DEF Abstract!SchedNext
<1>15. CASE StopTaskSystem
  BY <1>0, <1>15 DEF StopTaskSystem, Goto, history, TypeOK
<1>16. CASE StopLock
  BY <1>0, <1>16 DEF StopLock, Goto, history, TypeOK
<1>17. CASE StopSignal
  BY <1>0, <1>17 DEF StopSignal, Signalled, Sleeping, history, TypeOK
<1>18. CASE StopJoin
  BY <1>0, <1>18 DEF StopJoin, history, TypeOK
<1>19. CASE StopReapLock
  BY <1>0, <1>19 DEF StopReapLock, Goto, history, TypeOK
<1>20. CASE StopReap
  <2>1. {tasks'[i] : i \in 1..Len(tasks')} = {}
    <3>1. Len(tasks') = 0
      BY <1>20, EmptySeq DEF StopReap
    <3>2. QED
      BY <3>1
  <2>2. dropped' = dropped \union
          {task.id : task \in {tasks[i] : i \in 1..Len(tasks)}}
    <3>1. DOMAIN tasks = 1..Len(tasks)
      BY <1>0, LenProperties DEF TypeOK
    <3>2. QED
      BY <1>20, <3>1 DEF StopReap
  <2>3. CondAlive /\ ~CondAlive'
    BY <1>0, <1>20 DEF StopReap, Goto, TypeOK
  <2>4. Abstract!Close
    BY <1>20, <2>1, <2>2, <2>3 DEF StopReap, Abstract!Close
  <2>5. QED
    BY <2>4 DEF Abstract!SchedNext
<1>21. CASE Tick
  <2>1. CondAlive' = CondAlive
    BY <1>21 DEF Tick
  <2>2. Abstract!Advance
    BY <1>21, <2>1 DEF Tick, history, Abstract!Advance
  <2>3. QED
    BY <2>2 DEF Abstract!SchedNext
<1>22. CASE UNCHANGED vars
  BY <1>22 DEF vars, callVars, workerVars, history
<1>23. QED
  BY <1>1, <1>2, <1>3, <1>4, <1>5, <1>6, <1>7, <1>8, <1>9, <1>10, <1>11, <1>12,
    <1>13, <1>14, <1>15, <1>16, <1>17, <1>18, <1>19, <1>20, <1>21, <1>22
     DEF Next, InsertStep, WorkerStep, ControllerStep

(* The system implements Scheduler: whatever the threads do, a task starts *)
(* at most once, never before its time, earliest first and in the order of *)
(* insertion among equal times, and none starts once a stop has freed it.  *)
THEOREM Refinement == Spec => ImplementsScheduler
<1>1. IInv /\ TimesBounded /\ [Next]_vars
      => [Abstract!SchedNext]_(Abstract!schedVars)
  BY RefinesStep
<1>2. QED
  BY <1>1, RefinesInit, Invariance, TimesCorrect, PTL
     DEF Spec, ImplementsScheduler, Abstract!SchedSpec

-----------------------------------------------------------------------------
(***************************************************************************)
(* Conservation of tasks: what an insertion does to the ids in the list.   *)
(***************************************************************************)
LEMMA InsertedIds ==
  ASSUME IInv, TasksConserved, NEW t \in Threads, InsertTaskLocked(t)
  PROVE  /\ QueuedIds' = QueuedIds \union {inserted + 1}
         /\ \A i, j \in 1..Len(tasks') : tasks'[i].id = tasks'[j].id => i = j
<1> DEFINE new == [id |-> inserted + 1, time |-> abs_time[t], life |-> starts]
           k == InsertPosition(tasks, new)
<1>1. /\ new \in Task /\ k \in 1..(Len(tasks) + 1)
      /\ tasks' = InsertSorted(tasks, new)
      /\ {tasks'[i] : i \in 1..Len(tasks')} =
           {tasks[i] : i \in 1..Len(tasks)} \union {new}
  BY InsertedSet
<1>2. tasks \in Seq(Task) /\ Len(tasks) \in Nat /\ inserted \in Nat
  BY LenProperties DEF IInv, TypeOK
<1>3. /\ new.id = inserted + 1
      /\ \A i \in 1..Len(tasks) : tasks[i].id # inserted + 1
  <2>1. \A i \in 1..Len(tasks) : tasks[i] \in Task
    BY <1>2, ElementOfSeq
  <2>2. \A i \in 1..Len(tasks) : tasks[i].id \in Nat
    BY <2>1 DEF Task
  <2>3. \A i \in 1..Len(tasks) : tasks[i].id <= inserted
    BY DEF IInv, QueueInv, IdsBounded
  <2>4. QED
    BY <1>2, <2>2, <2>3
<1>4. \A i \in 1..Len(tasks') :
        \/ i < k /\ i \in 1..Len(tasks) /\ tasks'[i] = tasks[i]
        \/ i = k /\ tasks'[i] = new
        \/ i > k /\ i - 1 \in 1..Len(tasks) /\ i - 1 >= k
           /\ tasks'[i] = tasks[i - 1]
  BY <1>1, <1>2, InsertSortedAt
<1> HIDE DEF new, k
<1>5. QueuedIds' = QueuedIds \union {inserted + 1}
  <2>1. QueuedIds = {task.id : task \in {tasks[i] : i \in 1..Len(tasks)}}
    BY DEF QueuedIds
  <2>2. QueuedIds' = {task.id : task \in {tasks'[i] : i \in 1..Len(tasks')}}
    BY DEF QueuedIds
  <2> DEFINE S == {tasks[i] : i \in 1..Len(tasks)}
             S2 == {tasks'[i] : i \in 1..Len(tasks')}
  <2>3. S2 = S \union {new}
    BY <1>1
  <2> HIDE DEF S, S2
  <2>4. {task.id : task \in S2} = {task.id : task \in S} \union {inserted + 1}
    BY <1>3, <2>3
  <2>5. QED
    BY <2>1, <2>2, <2>4 DEF S, S2
<1>6. ASSUME NEW i \in 1..Len(tasks'), NEW j \in 1..Len(tasks'), i < j,
             tasks'[i].id = tasks'[j].id
      PROVE  FALSE
  <2>1. i \in Int /\ j \in Int /\ k \in Int
    BY <1>1, <1>2
  <2>2. \A a, b \in 1..Len(tasks) : tasks[a].id = tasks[b].id => a = b
    BY DEF TasksConserved
  <2>3. CASE i < k /\ j < k
    <3>1. /\ i \in 1..Len(tasks) /\ tasks'[i] = tasks[i]
          /\ j \in 1..Len(tasks) /\ tasks'[j] = tasks[j]
      BY <1>4, <2>1, <2>3
    <3>2. QED
      BY <1>6, <2>1, <2>2, <3>1
  <2>4. CASE i = k \/ j = k
    <3>1. \A n \in 1..Len(tasks') :
            n = k \/ \E m \in 1..Len(tasks) : tasks'[n] = tasks[m]
      BY <1>4
    <3>2. \A n \in 1..Len(tasks') : n # k => tasks'[n].id # inserted + 1
      BY <1>3, <3>1
    <3>3. \A n \in 1..Len(tasks') : n = k => tasks'[n].id = inserted + 1
      BY <1>3, <1>4, <2>1
    <3>4. i # j
      BY <1>6, <2>1
    <3>5. QED
      BY <1>6, <2>4, <3>2, <3>3, <3>4
  <2>5. CASE i < k /\ j > k
    <3>1. /\ i \in 1..Len(tasks) /\ tasks'[i] = tasks[i]
          /\ j - 1 \in 1..Len(tasks) /\ j - 1 >= k /\ tasks'[j] = tasks[j - 1]
      BY <1>4, <2>1, <2>5
    <3>2. i = j - 1
      BY <1>6, <2>2, <3>1
    <3>3. QED
      BY <2>1, <2>5, <3>1, <3>2
  <2>6. CASE i > k /\ j > k
    <3>1. /\ i - 1 \in 1..Len(tasks) /\ tasks'[i] = tasks[i - 1]
          /\ j - 1 \in 1..Len(tasks) /\ tasks'[j] = tasks[j - 1]
      BY <1>4, <2>1, <2>6
    <3>2. i - 1 = j - 1
      BY <1>6, <2>2, <3>1
    <3>3. QED
      BY <1>6, <2>1, <3>2
  <2>7. QED
    BY <1>6, <2>1, <2>3, <2>4, <2>5, <2>6
<1>7. \A i, j \in 1..Len(tasks') : tasks'[i].id = tasks'[j].id => i = j
  <2> SUFFICES ASSUME NEW i \in 1..Len(tasks'), NEW j \in 1..Len(tasks'),
                      tasks'[i].id = tasks'[j].id
               PROVE  i = j
    OBVIOUS
  <2>1. ~(i < j) /\ ~(j < i)
    BY <1>6
  <2>2. QED
    BY <2>1
<1>8. QED
  BY <1>5, <1>7

(* The pop moves one id from the list to those that were run.              *)
LEMMA PoppedIds ==
  ASSUME IInv, TasksConserved, WorkerPop
  PROVE  /\ QueuedIds' = QueuedIds \ {tasks[1].id}
         /\ tasks[1].id \in QueuedIds
         /\ RanIds' = RanIds \union {tasks[1].id}
         /\ \A i, j \in 1..Len(tasks') : tasks'[i].id = tasks'[j].id => i = j
         /\ \A i, j \in 1..Len(ran') : ran'[i].id = ran'[j].id => i = j
<1>1. /\ tasks[1] \in Task
      /\ ran' = Append(ran, tasks[1])
      /\ {tasks'[i] : i \in 1..Len(tasks')} =
           {tasks[i] : i \in 1..Len(tasks)} \ {tasks[1]}
      /\ tasks[1] \in {tasks[i] : i \in 1..Len(tasks)}
  BY PoppedSet
<1>2. tasks \in Seq(Task) /\ tasks # << >> /\ ran \in Seq(Task)
  BY DEF IInv, TypeOK, QueueInv, DecideContext, WorkerPop, Goto
<1>3. /\ Len(tasks) \in Nat \ {0} /\ Len(tasks') = Len(tasks) - 1
      /\ \A i \in 1..Len(tasks') : i + 1 \in 1..Len(tasks)
                                  /\ tasks'[i] = tasks[i + 1]
  BY <1>2, HeadAndTail DEF WorkerPop
<1>4. /\ Len(ran) \in Nat /\ Len(ran') = Len(ran) + 1
      /\ \A i \in 1..Len(ran) : ran'[i] = ran[i]
      /\ ran'[Len(ran) + 1] = tasks[1]
  BY <1>1, <1>2, AppendProperties, LenProperties
<1>5. tasks[1].id \in QueuedIds /\ tasks[1].id \notin RanIds
  BY <1>3 DEF QueuedIds, TasksConserved
<1>6. QueuedIds' = QueuedIds \ {tasks[1].id}
  <2>1. \A x, y \in {tasks[i] : i \in 1..Len(tasks)} : x.id = y.id => x = y
    BY DEF TasksConserved
  <2>2. QueuedIds = {task.id : task \in {tasks[i] : i \in 1..Len(tasks)}}
    BY DEF QueuedIds
  <2>3. QueuedIds' = {task.id : task \in {tasks'[i] : i \in 1..Len(tasks')}}
    BY DEF QueuedIds
  <2> PICK S, x, T : /\ S = {tasks[i] : i \in 1..Len(tasks)} /\ x = tasks[1]
                     /\ T = {tasks'[i] : i \in 1..Len(tasks')}
    OBVIOUS
  <2>4. T = S \ {x} /\ x \in S
    BY <1>1
  <2>5. {task.id : task \in T} = {task.id : task \in S} \ {x.id}
    <3>1. \A y \in T : y \in S /\ y.id # x.id
      BY <2>1, <2>4
    <3>2. \A y \in S : y.id # x.id => y \in T
      BY <2>4
    <3>3. QED
      BY <3>1, <3>2
  <2>6. QED
    BY <2>2, <2>3, <2>5
<1>7. RanIds' = RanIds \union {tasks[1].id}
  <2>1. ASSUME NEW n \in RanIds' PROVE n \in RanIds \union {tasks[1].id}
    <3>1. PICK i \in 1..Len(ran') : n = ran'[i].id
      BY <2>1 DEF RanIds
    <3>2. i \in 1..Len(ran) \/ i = Len(ran) + 1
      BY <1>4
    <3>3. QED
      BY <1>4, <3>1, <3>2 DEF RanIds
  <2>2. ASSUME NEW i \in 1..Len(ran) PROVE ran[i].id \in RanIds'
    <3>1. i \in 1..Len(ran') /\ ran'[i] = ran[i]
      BY <1>4
    <3>2. QED
      BY <3>1 DEF RanIds
  <2>3. tasks[1].id \in RanIds'
    <3>1. Len(ran) + 1 \in 1..Len(ran')
      BY <1>4
    <3>2. QED
      BY <1>4, <3>1 DEF RanIds
  <2>4. \A n \in RanIds : n \in RanIds'
    BY <2>2 DEF RanIds
  <2>5. QED
    BY <2>1, <2>3, <2>4
<1>8. \A i, j \in 1..Len(tasks') : tasks'[i].id = tasks'[j].id => i = j
  BY <1>3 DEF TasksConserved
<1>9. ASSUME NEW i \in 1..Len(ran'), NEW j \in 1..Len(ran'),
             ran'[i].id = ran'[j].id
      PROVE  i = j
  <2>1. \A n \in 1..Len(ran') : n \in 1..Len(ran) \/ n = Len(ran) + 1
    BY <1>4
  <2>2. \A n \in 1..Len(ran) : ran[n].id # tasks[1].id
    BY <1>5 DEF RanIds
  <2>3. \A m, n \in 1..Len(ran) : ran[m].id = ran[n].id => m = n
    BY DEF TasksConserved
  <2>4. QED
    BY <1>4, <1>9, <2>1, <2>2, <2>3
<1>10. QED
  BY <1>5, <1>6, <1>7, <1>8, <1>9

(* Every action moves whole tasks between list, run and freed, or none.    *)
LEMMA ConservedStep ==
  ASSUME IInv, TasksConserved, [Next]_vars
  PROVE  TasksConserved'
<1> USE DEF history
<1>0. inserted \in Nat
  BY DEF IInv, TypeOK
<1>1. ASSUME NEW t \in Threads, InsertTaskLocked(t) PROVE TasksConserved'
  <2>1. QueuedIds' = QueuedIds \union {inserted + 1}
        /\ \A i, j \in 1..Len(tasks') : tasks'[i].id = tasks'[j].id => i = j
    BY <1>1, InsertedIds
  <2>2. ran' = ran /\ dropped' = dropped /\ inserted' = inserted + 1
    BY <1>1 DEF InsertTaskLocked
  <2>3. RanIds' = RanIds
    BY <2>2 DEF RanIds
  <2>4. 1..(inserted + 1) = (1..inserted) \union {inserted + 1}
        /\ inserted + 1 \notin 1..inserted
    BY <1>0
  <2>5. /\ QueuedIds \union RanIds \union dropped = 1..inserted
        /\ QueuedIds \intersect RanIds = {}
        /\ QueuedIds \intersect dropped = {}
        /\ RanIds \intersect dropped = {}
        /\ \A i, j \in 1..Len(ran) : ran[i].id = ran[j].id => i = j
    BY DEF TasksConserved
  <2> DEFINE Q == QueuedIds  R == RanIds  D == dropped
  <2>6. /\ QueuedIds' \union RanIds' \union dropped' = 1..inserted'
        /\ QueuedIds' \intersect RanIds' = {}
        /\ QueuedIds' \intersect dropped' = {}
        /\ RanIds' \intersect dropped' = {}
    BY <2>1, <2>2, <2>3, <2>4, <2>5
  <2>7. QED
    BY <2>1, <2>2, <2>5, <2>6 DEF TasksConserved
<1>2. CASE WorkerPop
  <2>1. inserted' = inserted /\ dropped' = dropped
    BY <1>2 DEF WorkerPop
  <2>2. QED
    BY <1>2, <2>1, PoppedIds DEF TasksConserved
<1>3. CASE StopReap
  <2>1. QueuedIds' = {}
    <3>1. Len(tasks') = 0
      BY <1>3, EmptySeq DEF StopReap
    <3>2. QED
      BY <3>1 DEF QueuedIds
  <2>2. dropped' = dropped \union QueuedIds
    <3>1. DOMAIN tasks = 1..Len(tasks)
      BY LenProperties DEF IInv, TypeOK
    <3>2. QED
      BY <1>3, <3>1 DEF StopReap, QueuedIds
  <2>3. ran' = ran /\ inserted' = inserted /\ RanIds' = RanIds
    BY <1>3 DEF StopReap, RanIds
  <2>4. \A i, j \in 1..Len(tasks') : tasks'[i].id = tasks'[j].id => i = j
    <3>1. Len(tasks') = 0
      BY <1>3, EmptySeq DEF StopReap
    <3>2. QED
      BY <3>1
  <2>5. QED
    BY <2>1, <2>2, <2>3, <2>4 DEF TasksConserved
<1>4. ASSUME UNCHANGED << tasks, inserted, ran, dropped >>
      PROVE  TasksConserved'
  <2>1. tasks' = tasks /\ inserted' = inserted /\ ran' = ran
         /\ dropped' = dropped
    BY <1>4
  <2>2. QueuedIds' = QueuedIds /\ RanIds' = RanIds
    BY <2>1 DEF QueuedIds, RanIds
  <2>3. QED
    BY <2>1, <2>2 DEF TasksConserved
<1>5. ASSUME NEW t \in Threads, InsertTaskIn(t) PROVE TasksConserved'
  BY <1>4, <1>5 DEF InsertTaskIn
<1>6. ASSUME NEW t \in Threads, InsertLock(t) PROVE TasksConserved'
  BY <1>4, <1>6 DEF InsertLock
<1>7. ASSUME NEW t \in Threads, InsertUnlock(t) PROVE TasksConserved'
  BY <1>4, <1>7 DEF InsertUnlock
<1>8. CASE WorkerAcquire
  BY <1>4, <1>8 DEF WorkerAcquire
<1>9. CASE WorkerLoop
  BY <1>4, <1>9 DEF WorkerLoop
<1>10. CASE WorkerWait
  BY <1>4, <1>10 DEF WorkerWait
<1>11. CASE WorkerTimedWait
  BY <1>4, <1>11 DEF WorkerTimedWait
<1>12. CASE WorkerTimeout
  BY <1>4, <1>12 DEF WorkerTimeout
<1>13. CASE WorkerSpuriousWakeup
  BY <1>4, <1>13 DEF WorkerSpuriousWakeup
<1>14. CASE WorkerActionDone
  BY <1>4, <1>14 DEF WorkerActionDone
<1>15. CASE WorkerExit
  BY <1>4, <1>15 DEF WorkerExit
<1>16. CASE StartTaskSystem
  BY <1>4, <1>16 DEF StartTaskSystem
<1>17. CASE StopTaskSystem
  BY <1>4, <1>17 DEF StopTaskSystem
<1>18. CASE StopLock
  BY <1>4, <1>18 DEF StopLock
<1>19. CASE StopSignal
  BY <1>4, <1>19 DEF StopSignal
<1>20. CASE StopJoin
  BY <1>4, <1>20 DEF StopJoin
<1>21. CASE StopReapLock
  BY <1>4, <1>21 DEF StopReapLock
<1>22. CASE Tick
  BY <1>4, <1>22 DEF Tick
<1>23. CASE UNCHANGED vars
  BY <1>4, <1>23 DEF vars
<1>24. QED
  BY <1>1, <1>2, <1>3, <1>5, <1>6, <1>7, <1>8, <1>9, <1>10, <1>11, <1>12,
    <1>13, <1>14, <1>15, <1>16, <1>17, <1>18, <1>19, <1>20, <1>21, <1>22, <1>23
     DEF Next, InsertStep, WorkerStep, ControllerStep

(* Every insertion is in exactly one place at any time: queued, taken to   *)
(* be run, or freed by a stop; and it is run at most once.                 *)
THEOREM Conservation == Spec => []TasksConserved
<1>1. Init => TasksConserved
  BY EmptySeq DEF Init, TasksConserved, QueuedIds, RanIds
<1>2. IInv /\ TasksConserved /\ [Next]_vars => TasksConserved'
  BY ConservedStep
<1>3. QED
  BY <1>1, <1>2, Invariance, PTL DEF Spec

-----------------------------------------------------------------------------
(* A stop that no client races: the guard of stop_task_system holds on     *)
(* until the next start, so the list stays empty in between and what is in *)
(* it while the system is up was inserted in this life.                    *)
StopInv ==
  ~ClientsRaceStop =>
    /\ ~IsUp => \A c \in Clients : call[c] = "none"
    /\ pc[Controller] = "off" => tasks = << >>
    /\ \A i \in 1..Len(tasks) : tasks[i].life = starts

(* Nobody is inside insert_task_in while the system is stopped.            *)
LEMMA CallersNeedTheSystem ==
  ASSUME IInv, StopInv, ~ClientsRaceStop, NEW t \in Threads,
         call[t] # "none"
  PROVE  pc[Controller] # "off"
BY ThreadFacts DEF IInv, ControlInv, CallContext, WorkerLifetime, StopInv,
                   IsUp, Threads, TypeOK

(* Every action keeps StopInv: an insertion carries the number of the      *)
(* present life, a reap empties the list, and a start finds it empty.      *)
LEMMA StopStep ==
  ASSUME IInv, StopInv, [Next]_vars
  PROVE  StopInv'
<1> SUFFICES ASSUME ~ClientsRaceStop PROVE StopInv'
  BY DEF StopInv
<1>0. /\ ~IsUp => \A c \in Clients : call[c] = "none"
      /\ pc[Controller] = "off" => tasks = << >>
      /\ \A i \in 1..Len(tasks) : tasks[i].life = starts
      /\ TypeOK
  BY DEF StopInv, IInv
<1> USE ThreadFacts DEF StopInv, IsUp, TypeOK
<1>1. ASSUME NEW t \in Threads, InsertTaskIn(t) PROVE StopInv'
  BY <1>0, <1>1 DEF InsertTaskIn, CanCall, history
<1>2. ASSUME NEW t \in Threads, InsertLock(t) PROVE StopInv'
  BY <1>0, <1>2 DEF InsertLock, history
<1>3. ASSUME NEW t \in Threads, InsertTaskLocked(t) PROVE StopInv'
  <2>1. pc[Controller] # "off"
    BY <1>3, CallersNeedTheSystem DEF InsertTaskLocked
  <2>2. \A i \in 1..Len(tasks') : tasks'[i].life = starts
    <3> DEFINE new == [id |-> inserted + 1, time |-> abs_time[t],
                       life |-> starts]
    <3>1. {tasks'[i] : i \in 1..Len(tasks')} =
            {tasks[i] : i \in 1..Len(tasks)} \union {new}
      BY <1>3, InsertedSet
    <3>2. \A i \in 1..Len(tasks') :
            tasks'[i] = new \/ \E j \in 1..Len(tasks) : tasks'[i] = tasks[j]
      <4> HIDE DEF new
      <4>1. SUFFICES ASSUME NEW i \in 1..Len(tasks')
                     PROVE  tasks'[i] = new
                              \/ \E j \in 1..Len(tasks) : tasks'[i] = tasks[j]
        OBVIOUS
      <4>2. tasks'[i] \in {tasks[j] : j \in 1..Len(tasks)} \union {new}
        BY <3>1
      <4>3. QED
        BY <4>2
    <3>3. new.life = starts
      OBVIOUS
    <3>4. QED
      BY <1>0, <3>2, <3>3
  <2>3. /\ pc'[Controller] = pc[Controller] /\ starts' = starts
        /\ \A u \in Threads : call[u] = "none" => call'[u] = "none"
    BY <1>0, <1>3 DEF InsertTaskLocked, Signalled, Sleeping
  <2>4. QED
    BY <1>0, <2>1, <2>2, <2>3
<1>4. ASSUME NEW t \in Threads, InsertUnlock(t) PROVE StopInv'
  BY <1>0, <1>4 DEF InsertUnlock, history
<1>5. CASE WorkerAcquire
  BY <1>0, <1>5 DEF WorkerAcquire, Goto, Acquire, callVars, history
<1>6. CASE WorkerLoop
  BY <1>0, <1>6 DEF WorkerLoop, Goto, callVars, history
<1>7. CASE WorkerWait
  BY <1>0, <1>7 DEF WorkerWait, Goto, callVars, history
<1>8. CASE WorkerPop
  <2>1. tasks # << >> /\ tasks' = Tail(tasks)
    BY <1>8 DEF IInv, QueueInv, DecideContext, WorkerPop, Goto
  <2>2. \A i \in 1..Len(tasks') : tasks'[i].life = starts
    BY <1>0, <2>1, HeadAndTail
  <2>3. QED
    BY <1>0, <1>8, <2>1, <2>2 DEF WorkerPop, Goto, callVars, IInv, ControlInv,
      WorkerLifetime
<1>9. CASE WorkerTimedWait
  BY <1>0, <1>9 DEF WorkerTimedWait, Goto, callVars, history
<1>10. CASE WorkerTimeout
  BY <1>0, <1>10 DEF WorkerTimeout, Goto, callVars, history
<1>11. CASE WorkerSpuriousWakeup
  BY <1>0, <1>11 DEF WorkerSpuriousWakeup, Sleeping, callVars, history
<1>12. CASE WorkerActionDone
  BY <1>0, <1>12 DEF WorkerActionDone, Goto, callVars, history
<1>13. CASE WorkerExit
  BY <1>0, <1>13 DEF WorkerExit, Goto, callVars, history
<1>14. CASE StartTaskSystem
  BY <1>0, <1>14, EmptySeq DEF StartTaskSystem, callVars
<1>15. CASE StopTaskSystem
  BY <1>0, <1>15 DEF StopTaskSystem, Goto, callVars, history
<1>16. CASE StopLock
  BY <1>0, <1>16 DEF StopLock, Goto, callVars, history
<1>17. CASE StopSignal
  BY <1>0, <1>17 DEF StopSignal, Signalled, Sleeping, callVars, history
<1>18. CASE StopJoin
  BY <1>0, <1>18 DEF StopJoin, callVars, history
<1>19. CASE StopReapLock
  BY <1>0, <1>19 DEF StopReapLock, Goto, callVars, history
<1>20. CASE StopReap
  BY <1>0, <1>20, EmptySeq DEF StopReap, Goto, callVars
<1>21. CASE Tick
  BY <1>0, <1>21 DEF Tick, callVars, history
<1>22. CASE UNCHANGED vars
  BY <1>0, <1>22 DEF vars, callVars, history
<1>23. QED
  BY <1>1, <1>2, <1>3, <1>4, <1>5, <1>6, <1>7, <1>8, <1>9, <1>10, <1>11, <1>12,
    <1>13, <1>14, <1>15, <1>16, <1>17, <1>18, <1>19, <1>20, <1>21, <1>22
     DEF Next, InsertStep, WorkerStep, ControllerStep

(* Before the first start there is no client, no task and no life.         *)
LEMMA StopInit == Init => StopInv
BY ThreadFacts, EmptySeq DEF Init, StopInv, IsUp

(* What a stop leaves behind holds throughout.                             *)
LEMMA StopInvariance == Spec => []StopInv
<1>1. IInv /\ StopInv /\ [Next]_vars => StopInv'
  BY StopStep
<1>2. QED
  BY <1>1, StopInit, Invariance, PTL DEF Spec

(* stop_task_system returns with the worker gone and, if no client raced   *)
(* it, an empty list; what a life finds in the list is its own.            *)
THEOREM StopCleansUp == Spec => []StopLeavesNothing
<1>1. IInv /\ StopInv => StopLeavesNothing
  BY DEF IInv, ControlInv, WorkerLifetime, StopInv, StopLeavesNothing
<1>2. QED
  BY <1>1, Invariance, StopInvariance, PTL

(* Nobody signals tasks_cond after stop_task_system destroyed it, unless a *)
(* client races the stop: the worker is joined before.                     *)
THEOREM SignalsReachACond == Spec => []SignalsLiveCond
<1>1. IInv /\ StopInv => SignalsLiveCond
  <2> SUFFICES ASSUME IInv, StopInv, ~ClientsRaceStop, NEW t \in Threads,
                      call[t] \in {"want", "locked"}
               PROVE  CondAlive
    BY DEF SignalsLiveCond
  <2>1. QED
    BY CallersNeedTheSystem DEF CondAlive
<1>2. QED
  BY <1>1, Invariance, StopInvariance, PTL
=============================================================================
