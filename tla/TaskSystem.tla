----------------------------- MODULE TaskSystem -----------------------------
(***************************************************************************)
(* The timed task system of core/src/task.c: a list of tasks sorted by due *)
(* time, protected by tasks_mutex, and one worker thread that sleeps on    *)
(* tasks_cond until the head is due, takes it off the list and runs its    *)
(* action with the mutex released.                                         *)
(*                                                                         *)
(* Threads are the Controller, which calls start_task_system and           *)
(* stop_task_system, the Worker that start_task_system creates, and the    *)
(* Clients.  Any of them may be inside one insert_task_in call at a time:  *)
(* the Worker calls it from the action it is running (addnext re-arms an   *)
(* interval that way).                                                     *)
(*                                                                         *)
(* Contract of the callers, stated nowhere in the code: insert_task_in is  *)
(* called only once start_task_system has returned (it dereferences        *)
(* globalstopwatch), stop_task_system is not called from an action (it     *)
(* would join its own thread), and, unless ClientsRaceStop, the clients    *)
(* have returned from their inserts when it is called.                     *)
(***************************************************************************)
EXTENDS Integers, Sequences, FiniteSets

CONSTANTS
  Clients,          \* threads that only insert tasks
  Controller,       \* the thread that starts and stops the system
  Worker,           \* tasks_thread
  NoThread,         \* the holder of a free mutex
  Delays,           \* the delays clients pass to insert_task_in, in ms
  MaxTime,          \* bound: the stopwatch stops at this reading
  MaxTasks,         \* bound: insertions over the whole behaviour
  MaxStarts,        \* bound: calls of start_task_system
  ClientsRaceStop   \* whether a client may be inserting while stop runs

Threads == Clients \union {Controller, Worker}

ASSUME ConstantsAssumption ==
  /\ Controller # Worker
  /\ Controller \notin Clients /\ Worker \notin Clients
  /\ NoThread \notin Threads
  /\ Delays \subseteq Nat
  /\ MaxTime \in Nat /\ MaxTasks \in Nat /\ MaxStarts \in Nat
  /\ ClientsRaceStop \in BOOLEAN
  /\ IsFiniteSet(Clients)

VARIABLES
  now,            \* what stopwatch_elapsed_ms(globalstopwatch) reads
  tasks_mutex,    \* the thread that holds it, or NoThread
  tasks_running,
  tasks,          \* the list from tasks_head on
  pc,             \* where each thread is outside insert_task_in
  call,           \* where each thread is inside insert_task_in
  abs_time,       \* insert_task_at's argument, per thread
  seen,           \* the worker's local variable now
  wait_ms,        \* the worker's local variable wait_ms
  slept_at,       \* the clock as timespec_from_monotonic_ms reads it
  inserted,       \* history: number of insertions
  starts,         \* history: number of calls of start_task_system
  ran,            \* history: the tasks taken to be run, in order
  dropped         \* history: ids of the tasks stop_task_system freed

callVars == << call, abs_time >>
workerVars == << seen, wait_ms, slept_at >>
history == << inserted, starts, ran, dropped >>

vars == << now, tasks_mutex, tasks_running, tasks, pc, callVars, workerVars,
           history >>

(* id numbers the insertions, life the start_task_system call they follow. *)
Task == [id : Nat \ {0}, time : Nat, life : Nat]

ControllerPc == {"off", "up", "stop", "stopping", "join", "reap", "reaping"}
WorkerPc == {"none", "acquire", "loop", "decide", "wait", "timedwait",
             "action", "exit"}

IsUp == pc[Controller] = "up"
(* tasks_cond lives from start_task_system to the end of stop_task_system. *)
CondAlive == pc[Controller] # "off"
Sleeping == pc[Worker] \in {"wait", "timedwait"}

Acquire(t) == tasks_mutex = NoThread /\ tasks_mutex' = t
Release(t) == tasks_mutex = t /\ tasks_mutex' = NoThread
Goto(t, from, to) == pc[t] = from /\ pc' = [pc EXCEPT ![t] = to]

(* Mutant: the signal wakes the wait for an empty list only.               *)
SignalledWhenEmpty(p) ==
  IF pc[Worker] = "wait" THEN [p EXCEPT ![Worker] = "acquire"] ELSE p

(* Mutant: insert_task_at and stop_task_system do not signal.              *)
NotSignalled(p) == p

(* pthread_cond_signal(&tasks_cond): only the worker ever waits on it; it  *)
(* leaves the wait and has to take the mutex again.                        *)
Signalled(p) ==
  IF Sleeping THEN [p EXCEPT ![Worker] = "acquire"] ELSE p

-----------------------------------------------------------------------------
(* Mutant: the walk stops at the first element that is not earlier.        *)
NotEarlier(q, task) == {i \in 2..Len(q) : q[i].time >= task.time}

(* insert_task_locked's walk: in front of the list when the list is empty  *)
(* or the task is strictly earlier than the head, otherwise in front of    *)
(* the first later element that is due strictly after it.                  *)
Later(q, task) == {i \in 2..Len(q) : q[i].time > task.time}

InsertPosition(q, task) ==
  IF q = << >> \/ task.time < q[1].time THEN 1
  ELSE IF Later(q, task) = {} THEN Len(q) + 1
  ELSE CHOOSE i \in Later(q, task) : \A j \in Later(q, task) : i <= j

InsertSorted(q, task) ==
  LET k == InsertPosition(q, task)
  IN  [i \in 1..(Len(q) + 1) |->
         IF i < k THEN q[i] ELSE IF i = k THEN task ELSE q[i - 1]]

(* Insertions under way, for the bound. *)
Pending == {t \in Threads : call[t] \in {"want", "locked"}}

(* insert_task_in(delay): reads the stopwatch before it takes the lock.    *)
CanCall(t) ==
  /\ call[t] = "none"
  /\ \/ t \in Clients /\ IsUp
     \/ t = Controller /\ IsUp
     \/ t = Worker /\ pc[Worker] = "action"

InsertTaskIn(t) ==
  /\ CanCall(t)
  /\ inserted + Cardinality(Pending) < MaxTasks
  /\ \E delay \in Delays :
       /\ now + delay <= MaxTime
       /\ abs_time' = [abs_time EXCEPT ![t] = now + delay]
  /\ call' = [call EXCEPT ![t] = "want"]
  /\ UNCHANGED << now, tasks_mutex, tasks_running, tasks, pc, workerVars,
                  history >>

InsertLock(t) ==
  /\ call[t] = "want"
  /\ Acquire(t)
  /\ call' = [call EXCEPT ![t] = "locked"]
  /\ UNCHANGED << now, tasks_running, tasks, pc, abs_time, workerVars,
                  history >>

(* The body of insert_task_at between lock and unlock.                     *)
InsertTaskLocked(t) ==
  /\ call[t] = "locked"
  /\ tasks' = InsertSorted(tasks, [id |-> inserted + 1, time |-> abs_time[t],
                                   life |-> starts])
  /\ inserted' = inserted + 1
  /\ pc' = Signalled(pc)
  /\ call' = [call EXCEPT ![t] = "unlock"]
  /\ UNCHANGED << now, tasks_mutex, tasks_running, abs_time, workerVars,
                  starts, ran, dropped >>

InsertUnlock(t) ==
  /\ call[t] = "unlock"
  /\ Release(t)
  /\ call' = [call EXCEPT ![t] = "none"]
  /\ UNCHANGED << now, tasks_running, tasks, pc, abs_time, workerVars,
                  history >>

-----------------------------------------------------------------------------
(* Mutant: the worker goes on after an action without the mutex.           *)
WorkerAcquireUnlocked ==
  /\ Goto(Worker, "acquire", "loop")
  /\ UNCHANGED << now, tasks_mutex, tasks_running, tasks, callVars,
                  workerVars, history >>

(* tasks_worker.  "acquire" stands for its first lock, for the lock after  *)
(* an action and for the one a condition wait takes before it returns.     *)
WorkerAcquire ==
  /\ Goto(Worker, "acquire", "loop")
  /\ Acquire(Worker)
  /\ UNCHANGED << now, tasks_running, tasks, callVars, workerVars, history >>

(* while (tasks_running): an empty list waits without a deadline, otherwise *)
(* the stopwatch is read.                                                  *)
WorkerLoop ==
  /\ tasks_running
  /\ tasks # << >>
  /\ Goto(Worker, "loop", "decide")
  /\ seen' = now
  /\ UNCHANGED << now, tasks_mutex, tasks_running, tasks, callVars, wait_ms,
                  slept_at, history >>

WorkerWait ==
  /\ tasks_running
  /\ tasks = << >>
  /\ Goto(Worker, "loop", "wait")
  /\ Release(Worker)
  /\ UNCHANGED << now, tasks_running, tasks, callVars, workerVars, history >>

(* Mutant: the worker takes the head whether or not it is due.             *)
WorkerPopEarly ==
  /\ Goto(Worker, "decide", "action")
  /\ tasks' = Tail(tasks)
  /\ ran' = Append(ran, tasks[1])
  /\ Release(Worker)
  /\ UNCHANGED << now, tasks_running, callVars, workerVars, inserted, starts,
                  dropped >>

WorkerPop ==
  /\ Goto(Worker, "decide", "action")
  /\ tasks[1].time <= seen
  /\ tasks' = Tail(tasks)
  /\ ran' = Append(ran, tasks[1])
  /\ Release(Worker)
  /\ UNCHANGED << now, tasks_running, callVars, workerVars, inserted, starts,
                  dropped >>

(* Mutant: the wait is computed the wrong way round.                       *)
WorkerTimedWaitSwapped ==
  /\ Goto(Worker, "decide", "timedwait")
  /\ tasks[1].time > seen
  /\ wait_ms' = seen - tasks[1].time
  /\ slept_at' = now
  /\ Release(Worker)
  /\ UNCHANGED << now, tasks_running, tasks, callVars, seen, history >>

(* timespec_from_monotonic_ms reads the clock a second time.               *)
WorkerTimedWait ==
  /\ Goto(Worker, "decide", "timedwait")
  /\ tasks[1].time > seen
  /\ wait_ms' = tasks[1].time - seen
  /\ slept_at' = now
  /\ Release(Worker)
  /\ UNCHANGED << now, tasks_running, tasks, callVars, seen, history >>

(* ETIMEDOUT.  The last reading of the bounded stopwatch stands for every  *)
(* later one.                                                              *)
WorkerTimeout ==
  /\ Goto(Worker, "timedwait", "acquire")
  /\ now >= slept_at + wait_ms \/ now = MaxTime
  /\ UNCHANGED << now, tasks_mutex, tasks_running, tasks, callVars,
                  workerVars, history >>

(* POSIX lets both waits return with no signal and no timeout.             *)
WorkerSpuriousWakeup ==
  /\ Sleeping
  /\ pc' = [pc EXCEPT ![Worker] = "acquire"]
  /\ UNCHANGED << now, tasks_mutex, tasks_running, tasks, callVars,
                  workerVars, history >>

(* The action returns and the task is freed.                               *)
WorkerActionDone ==
  /\ call[Worker] = "none"
  /\ Goto(Worker, "action", "acquire")
  /\ UNCHANGED << now, tasks_mutex, tasks_running, tasks, callVars,
                  workerVars, history >>

WorkerExit ==
  /\ ~tasks_running
  /\ Goto(Worker, "loop", "exit")
  /\ Release(Worker)
  /\ UNCHANGED << now, tasks_running, tasks, callVars, workerVars, history >>

-----------------------------------------------------------------------------
(* start_task_system: a new stopwatch, a new condition variable, a thread. *)
StartTaskSystem ==
  /\ starts < MaxStarts
  /\ pc[Controller] = "off"
  /\ pc' = [pc EXCEPT ![Controller] = "up", ![Worker] = "acquire"]
  /\ starts' = starts + 1
  /\ now' = 0
  /\ tasks_running' = TRUE
  /\ UNCHANGED << tasks_mutex, tasks, callVars, workerVars, inserted, ran,
                  dropped >>

StopTaskSystem ==
  /\ call[Controller] = "none"
  /\ ClientsRaceStop \/ \A c \in Clients : call[c] = "none"
  /\ Goto(Controller, "up", "stop")
  /\ UNCHANGED << now, tasks_mutex, tasks_running, tasks, callVars,
                  workerVars, history >>

StopLock ==
  /\ Goto(Controller, "stop", "stopping")
  /\ Acquire(Controller)
  /\ UNCHANGED << now, tasks_running, tasks, callVars, workerVars, history >>

(* Mutant: stop_task_system clears the flag without a signal.              *)
StopWithoutSignal ==
  /\ pc[Controller] = "stopping"
  /\ tasks_running' = FALSE
  /\ pc' = [pc EXCEPT ![Controller] = "join"]
  /\ Release(Controller)
  /\ UNCHANGED << now, tasks, callVars, workerVars, history >>

StopSignal ==
  /\ pc[Controller] = "stopping"
  /\ tasks_running' = FALSE
  /\ pc' = [Signalled(pc) EXCEPT ![Controller] = "join"]
  /\ Release(Controller)
  /\ UNCHANGED << now, tasks, callVars, workerVars, history >>

(* Mutant: stop_task_system does not wait for the thread.                  *)
StopWithoutJoin ==
  /\ pc[Controller] = "join"
  /\ pc' = [pc EXCEPT ![Controller] = "reap"]
  /\ UNCHANGED << now, tasks_mutex, tasks_running, tasks, callVars,
                  workerVars, history >>

(* pthread_join returns once tasks_worker has.                             *)
StopJoin ==
  /\ pc[Controller] = "join" /\ pc[Worker] = "exit"
  /\ pc' = [pc EXCEPT ![Controller] = "reap", ![Worker] = "none"]
  /\ UNCHANGED << now, tasks_mutex, tasks_running, tasks, callVars,
                  workerVars, history >>

StopReapLock ==
  /\ Goto(Controller, "reap", "reaping")
  /\ Acquire(Controller)
  /\ UNCHANGED << now, tasks_running, tasks, callVars, workerVars, history >>

(* Mutant: the tasks are freed and tasks_head keeps pointing at them.      *)
StopReapKeeps ==
  /\ Goto(Controller, "reaping", "off")
  /\ dropped' = dropped \union {tasks[i].id : i \in DOMAIN tasks}
  /\ Release(Controller)
  /\ UNCHANGED << now, tasks_running, tasks, callVars, workerVars, inserted,
                  starts, ran >>

(* Frees what is left, empties the list, unlocks, destroys tasks_cond.     *)
StopReap ==
  /\ Goto(Controller, "reaping", "off")
  /\ dropped' = dropped \union {tasks[i].id : i \in DOMAIN tasks}
  /\ tasks' = << >>
  /\ Release(Controller)
  /\ UNCHANGED << now, tasks_running, callVars, workerVars, inserted, starts,
                  ran >>

-----------------------------------------------------------------------------
(* CLOCK_MONOTONIC advances whatever the threads do.                       *)
Tick ==
  /\ CondAlive
  /\ now < MaxTime
  /\ now' = now + 1
  /\ UNCHANGED << tasks_mutex, tasks_running, tasks, pc, callVars, workerVars,
                  history >>

Init ==
  /\ now = 0
  /\ tasks_mutex = NoThread
  /\ tasks_running = FALSE
  /\ tasks = << >>
  /\ pc = [t \in Threads |-> IF t = Controller THEN "off"
                             ELSE IF t = Worker THEN "none" ELSE "client"]
  /\ call = [t \in Threads |-> "none"]
  /\ abs_time = [t \in Threads |-> 0]
  /\ seen = 0
  /\ wait_ms = 0
  /\ slept_at = 0
  /\ inserted = 0
  /\ starts = 0
  /\ ran = << >>
  /\ dropped = {}

InsertStep(t) ==
  InsertTaskIn(t) \/ InsertLock(t) \/ InsertTaskLocked(t) \/ InsertUnlock(t)

WorkerStep ==
  \/ WorkerAcquire \/ WorkerLoop \/ WorkerWait \/ WorkerPop
  \/ WorkerTimedWait \/ WorkerTimeout \/ WorkerSpuriousWakeup
  \/ WorkerActionDone \/ WorkerExit

ControllerStep ==
  \/ StartTaskSystem \/ StopTaskSystem \/ StopLock \/ StopSignal
  \/ StopJoin \/ StopReapLock \/ StopReap

Next == (\E t \in Threads : InsertStep(t)) \/ WorkerStep \/ ControllerStep
        \/ Tick

Spec == Init /\ [][Next]_vars

(***************************************************************************)
(* The kernel runs every thread that can run and gives the mutex to every  *)
(* thread that keeps asking for it; the clock advances.  Nothing forces a  *)
(* caller to insert, to start or to stop, nor a wait to wake spuriously.   *)
(***************************************************************************)
InsertFairness(t) ==
  /\ SF_vars(InsertLock(t))
  /\ WF_vars(InsertTaskLocked(t))
  /\ WF_vars(InsertUnlock(t))

WorkerFairness ==
  /\ SF_vars(WorkerAcquire)
  /\ WF_vars(WorkerLoop) /\ WF_vars(WorkerWait) /\ WF_vars(WorkerPop)
  /\ WF_vars(WorkerTimedWait) /\ WF_vars(WorkerTimeout)
  /\ WF_vars(WorkerActionDone) /\ WF_vars(WorkerExit)

StopFairness ==
  /\ SF_vars(StopLock) /\ WF_vars(StopSignal) /\ WF_vars(StopJoin)
  /\ SF_vars(StopReapLock) /\ WF_vars(StopReap)

FairSpec ==
  /\ Spec
  /\ \A t \in Threads : InsertFairness(t)
  /\ WorkerFairness /\ StopFairness /\ WF_vars(Tick)

-----------------------------------------------------------------------------
(* Types of the variables (task.h's globals and the threads' locals).      *)
TypeOK ==
  /\ now \in Nat
  /\ tasks_mutex \in Threads \union {NoThread}
  /\ tasks_running \in BOOLEAN
  /\ tasks \in Seq(Task)
  /\ pc \in [Threads -> ControllerPc \union WorkerPc \union {"client"}]
  /\ pc[Controller] \in ControllerPc
  /\ pc[Worker] \in WorkerPc
  /\ call \in [Threads -> {"none", "want", "locked", "unlock"}]
  /\ abs_time \in [Threads -> Nat]
  /\ seen \in Nat /\ wait_ms \in Nat /\ slept_at \in Nat
  /\ inserted \in Nat /\ starts \in Nat
  /\ ran \in Seq(Task)
  /\ dropped \in SUBSET (Nat \ {0})

(* Every access to the list, the running flag and the worker's decision    *)
(* happens under tasks_mutex: a thread in a critical section is its holder *)
(* (task.c's lock and unlock calls, and the unlock inside both waits).     *)
Critical(t) ==
  \/ call[t] \in {"locked", "unlock"}
  \/ t = Worker /\ pc[Worker] \in {"loop", "decide"}
  \/ t = Controller /\ pc[Controller] \in {"stopping", "reaping"}

LockDiscipline == \A t \in Threads : Critical(t) <=> tasks_mutex = t

(* The list is sorted by time_ms and, among equal times, in the order of   *)
(* insertion (task.c:82: "in FIFO order for equal times").                 *)
Precedes(a, b) == a.time < b.time \/ (a.time = b.time /\ a.id < b.id)

QueueOrdered ==
  \A i, j \in 1..Len(tasks) : i < j => Precedes(tasks[i], tasks[j])

(* No insertion is lost, duplicated, run twice or run after it was freed:  *)
(* the ids in the list, those run and those freed split 1..inserted.       *)
QueuedIds == {tasks[i].id : i \in 1..Len(tasks)}
RanIds == {ran[i].id : i \in 1..Len(ran)}

TasksConserved ==
  /\ QueuedIds \union RanIds \union dropped = 1..inserted
  /\ QueuedIds \intersect RanIds = {}
  /\ QueuedIds \intersect dropped = {}
  /\ RanIds \intersect dropped = {}
  /\ \A i, j \in 1..Len(ran) : ran[i].id = ran[j].id => i = j
  /\ \A i, j \in 1..Len(tasks) : tasks[i].id = tasks[j].id => i = j

(* No lost wakeup: the worker waits without a deadline only on an empty    *)
(* list, with a deadline only for the task that is now the head, and not   *)
(* at all once tasks_running is false (the signals of insert_task_at and   *)
(* stop_task_system).                                                      *)
NoLostWakeup ==
  /\ pc[Worker] = "wait" => tasks_running /\ tasks = << >>
  /\ pc[Worker] = "timedwait" =>
       tasks_running /\ tasks # << >> /\ tasks[1].time = seen + wait_ms

(* When stop_task_system has returned the worker is gone and, if no client *)
(* raced it, nothing is left in the list; a later start_task_system never  *)
(* runs a task of an earlier life against its new stopwatch.               *)
StopLeavesNothing ==
  /\ pc[Controller] = "off" => pc[Worker] = "none"
  /\ pc[Controller] = "off" /\ ~ClientsRaceStop => tasks = << >>
  /\ ~ClientsRaceStop => \A i \in 1..Len(tasks) : tasks[i].life = starts

(* An insertion that has a caller signals a live condition variable, unless *)
(* a client races the stop: stop_task_system destroys tasks_cond last.     *)
SignalsLiveCond ==
  ~ClientsRaceStop =>
    \A t \in Threads : call[t] \in {"want", "locked"} => CondAlive

(* stop_task_system returns, whatever the worker was doing and however     *)
(* often the action it is running re-arms itself.                          *)
StopReturns == pc[Controller] = "stop" ~> pc[Controller] = "off"

(* Every inserted task is run or, at the latest by a stop, freed.          *)
TaskSettles ==
  \A n \in 1..MaxTasks :
    (n <= inserted) ~> (n \in RanIds \/ n \in dropped)

(* The system implements Scheduler: in particular it starts only due tasks, *)
(* earliest first, first come first served among equals, and none after    *)
(* stop_task_system has freed the list.                                    *)
Abstract == INSTANCE Scheduler WITH
  open <- CondAlive,
  life <- starts,
  pending <- {tasks[i] : i \in 1..Len(tasks)},
  scheduled <- inserted

ImplementsScheduler == Abstract!SchedSpec
=============================================================================
