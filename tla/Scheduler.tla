----------------------------- MODULE Scheduler ------------------------------
(***************************************************************************)
(* What core/src/task.c promises to its callers: a task scheduled at an    *)
(* absolute time starts exactly once, never before its time, earliest time *)
(* first and in the order of scheduling among equal times, unless the      *)
(* system is stopped first, in which case it never starts.  Threads,       *)
(* mutex, condition variable and list order are left to TaskSystem.        *)
(***************************************************************************)
EXTENDS Integers, Sequences

CONSTANTS
  MaxTime,    \* bound: the clock stops at this reading
  MaxStarts   \* bound: times the scheduler is opened

VARIABLES
  now,        \* the clock, which restarts at 0 with every opening
  open,       \* between the start and the end of a stop
  life,       \* how often the scheduler was opened
  pending,    \* scheduled tasks that have not started
  scheduled,  \* number of tasks scheduled so far
  ran,        \* tasks that were started, in order
  dropped     \* ids of tasks discarded by a stop

schedVars == << now, open, life, pending, scheduled, ran, dropped >>

(* a is due before b: by time, then by the order of scheduling.            *)
Before(a, b) == a.time < b.time \/ (a.time = b.time /\ a.id < b.id)

Open ==
  /\ ~open /\ life < MaxStarts
  /\ open' = TRUE
  /\ life' = life + 1
  /\ now' = 0
  /\ UNCHANGED << pending, scheduled, ran, dropped >>

Schedule ==
  /\ \E time \in 0..MaxTime :
       pending' = pending \union
                    {[id |-> scheduled + 1, time |-> time, life |-> life]}
  /\ scheduled' = scheduled + 1
  /\ UNCHANGED << now, open, life, ran, dropped >>

Start ==
  /\ open
  /\ \E task \in pending :
       /\ task.time <= now
       /\ \A other \in pending \ {task} : Before(task, other)
       /\ pending' = pending \ {task}
       /\ ran' = Append(ran, task)
  /\ UNCHANGED << now, open, life, scheduled, dropped >>

Close ==
  /\ open
  /\ open' = FALSE
  /\ dropped' = dropped \union {task.id : task \in pending}
  /\ pending' = {}
  /\ UNCHANGED << now, life, scheduled, ran >>

Advance ==
  /\ open /\ now < MaxTime
  /\ now' = now + 1
  /\ UNCHANGED << open, life, pending, scheduled, ran, dropped >>

SchedInit ==
  /\ now = 0 /\ ~open /\ life = 0
  /\ pending = {} /\ scheduled = 0 /\ ran = << >> /\ dropped = {}

SchedNext == Open \/ Schedule \/ Start \/ Close \/ Advance

SchedSpec == SchedInit /\ [][SchedNext]_schedVars
=============================================================================
