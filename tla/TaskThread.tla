------------------------------ MODULE TaskThread ------------------------------
(***************************************************************************)
(* Thread and TaskThread: how a thread is started through the static       *)
(* pointer _this, how a worker waits in a mutex that it locked itself      *)
(* until runTask unlocks it, and how it is stopped by a signal whose       *)
(* handler runs in it.  The flags _run and _free and the fields of the     *)
(* task are shared without a lock.  TaskPool and ClientGet extend this.    *)
(***************************************************************************)
EXTENDS Integers, FiniteSets

CONSTANTS
  Worker,    \* the TaskThreads
  Other,     \* threads with a function of their own
  Task,      \* what runTask is given
  NoTask, NoThread

ASSUME ThreadAssumption ==
  NoTask \notin Task /\ NoThread \notin Worker \cup Other /\ Worker \cap Other = {}

Thread == Worker \cup Other

VARIABLES
  pc,         \* pc[t]: where thread t is
  this,       \* Thread::_this
  run,        \* _run of the thread's object
  free,       \* TaskThread::_free
  lock,       \* _task_lock is locked
  gone,       \* _task_lock was destroyed
  input,      \* _task_input, and the other fields of the task with it
  now,        \* now[w]: what worker w was called with
  signals,    \* threads with a SIGTSTOP on its way
  missed,     \* history: workers unlocked before they had locked
  overtaken,  \* history: threads stopped before they set _run
  dead        \* the process crashed

tvars == <<pc, this, run, free, lock, gone, input, now, signals, missed, overtaken, dead>>
task == <<free, lock, gone, input, now>>
marks == <<signals, missed, overtaken>>

ThreadInit ==
  /\ pc = [t \in Thread |-> "none"]
  /\ this = NoThread
  /\ run = [t \in Thread |-> FALSE]
  /\ free = [w \in Worker |-> TRUE]
  /\ lock = [w \in Worker |-> FALSE] /\ gone = [w \in Worker |-> FALSE]
  /\ input = [w \in Worker |-> NoTask] /\ now = [w \in Worker |-> NoTask]
  /\ signals = {} /\ missed = {} /\ overtaken = {} /\ dead = FALSE

Move(t, from, to) == ~dead /\ pc[t] = from /\ pc' = [pc EXCEPT ![t] = to]

-----------------------------------------------------------------------------
(* Thread::start and threadProc.                                           *)

\* start: _this is set under a lock, then the thread is created.
Create(t) ==
  /\ Move(t, "none", "new")
  /\ this' = t
  /\ UNCHANGED <<run, task, marks, dead>>

\* threadProc sets _state to TS_Run through _this.
SetState(t) ==
  /\ Move(t, "new", "named")
  /\ UNCHANGED <<this, run, task, marks, dead>>

\* start: having seen TS_Run it clears _this.
Created(t) ==
  /\ ~dead /\ pc[t] \notin {"none", "new"}
  /\ this' = NoThread
  /\ UNCHANGED <<pc, run, task, marks, dead>>

\* threadProc calls _run of whatever _this points to by now.
CallRun(t) ==
  /\ Move(t, "named", "start")
  /\ dead' = ~(\E S \in {Worker, Other} : t \in S /\ this \in S)
  /\ UNCHANGED <<this, run, task, marks>>

-----------------------------------------------------------------------------
(* TaskThread::threadFunc and mainLoop.                                    *)

Start(t, to) ==
  /\ Move(t, "start", to)
  /\ run' = [run EXCEPT ![t] = TRUE]
  /\ UNCHANGED <<this, task, marks, dead>>

\* pthread_mutex_lock: a destroyed mutex holds nobody.
Lock(w) ==
  /\ ~lock[w] \/ gone[w]
  /\ lock' = [lock EXCEPT ![w] = ~gone[w]]

\* Mutant: threadFunc enters the loop without locking first.
FirstLockSkipped(w) ==
  /\ Move(w, "first", IF run[w] THEN "wait" ELSE "ended")
  /\ UNCHANGED <<this, run, task, marks, dead>>

\* The lock before the loop: the one in the loop waits for runTask.
FirstLock(w) ==
  /\ Move(w, "first", IF run[w] THEN "wait" ELSE "ended")
  /\ Lock(w)
  /\ UNCHANGED <<this, run, free, gone, input, now, marks, dead>>

LoopLock(w) ==
  /\ Move(w, "wait", IF run[w] THEN "task" ELSE "ended")
  /\ Lock(w)
  /\ now' = [now EXCEPT ![w] = input[w]]
  /\ UNCHANGED <<this, run, free, gone, input, marks, dead>>

\* _task returns.
SetFree(w) ==
  /\ Move(w, "free", "wipe")
  /\ free' = [free EXCEPT ![w] = TRUE]
  /\ now' = [now EXCEPT ![w] = NoTask]
  /\ UNCHANGED <<this, run, lock, gone, input, marks, dead>>

Wipe(w) ==
  /\ Move(w, "wipe", IF run[w] THEN "wait" ELSE "ended")
  /\ input' = [input EXCEPT ![w] = NoTask]
  /\ UNCHANGED <<this, run, free, lock, gone, now, marks, dead>>

-----------------------------------------------------------------------------
(* runTask, statement by statement, on its caller's thread.                *)

Ready(w) == free[w] /\ run[w]

\* Mutant: runTask leaves _free as it found it.
TakeNotMarked(w) == Ready(w) /\ UNCHANGED tvars

Take(w) ==
  /\ Ready(w)
  /\ free' = [free EXCEPT ![w] = FALSE]
  /\ UNCHANGED <<pc, this, run, lock, gone, input, now, marks, dead>>

SetTask(w, t) ==
  /\ input' = [input EXCEPT ![w] = t]
  /\ UNCHANGED <<pc, this, run, free, lock, gone, now, marks, dead>>

\* Mutant: the task is there, its worker is not told.
UnlockTaskForgotten(w) == UNCHANGED tvars

UnlockTask(w) ==
  /\ lock' = [lock EXCEPT ![w] = FALSE]
  /\ missed' = IF pc[w] \in {"start", "first"} THEN missed \cup {w} ELSE missed
  /\ UNCHANGED <<pc, this, run, free, gone, input, now, signals, overtaken, dead>>

-----------------------------------------------------------------------------
(* ~TaskThread and Thread::stop.                                           *)

\* pthread_mutex_destroy fails on a locked mutex, and goes wrong on one whose
\* locks and unlocks do not match.
Destroy(w) ==
  /\ \/ gone' = [gone EXCEPT ![w] = TRUE] /\ (~lock[w] \/ w \in missed)
     \/ UNCHANGED gone /\ (lock[w] \/ w \in missed)
  /\ UNCHANGED <<pc, this, run, free, lock, input, now, marks, dead>>

Kill(t) ==
  /\ signals' = signals \cup {t}
  /\ UNCHANGED <<pc, this, run, task, missed, overtaken, dead>>

\* Mutant: threadStop ends the loop and leaves its thread in the lock.
HandleStopNoUnlock(t) ==
  /\ ~dead /\ t \in signals /\ signals' = signals \ {t}
  /\ run' = [run EXCEPT ![t] = FALSE]
  /\ overtaken' = IF pc[t] \in {"named", "start"} THEN overtaken \cup {t} ELSE overtaken
  /\ UNCHANGED <<pc, this, task, missed, dead>>

\* handleTSTOP, with threadStop, between two steps of the thread it stops.
HandleStop(t) ==
  /\ ~dead /\ t \in signals /\ signals' = signals \ {t}
  /\ run' = [run EXCEPT ![t] = FALSE]
  /\ lock' = IF t \in Worker /\ ~gone[t] THEN [lock EXCEPT ![t] = FALSE] ELSE lock
  /\ overtaken' = IF pc[t] \in {"named", "start"} THEN overtaken \cup {t} ELSE overtaken
  /\ UNCHANGED <<pc, this, free, gone, input, now, missed, dead>>

\* pthread_join
Joined(t) == pc[t] = "ended"

-----------------------------------------------------------------------------
\* Every variable keeps its type; a created thread's start is not over before the
\* thread has said so.
ThreadTypeOK ==
  /\ this \in Thread \cup {NoThread}
  /\ this # NoThread => pc[this] # "none"
  /\ \A t \in Thread : pc[t] = "new" => this = t
  /\ run \in [Thread -> BOOLEAN] /\ free \in [Worker -> BOOLEAN]
  /\ lock \in [Worker -> BOOLEAN] /\ gone \in [Worker -> BOOLEAN]
  /\ input \in [Worker -> Task \cup {NoTask}] /\ now \in [Worker -> Task \cup {NoTask}]
  /\ signals \subseteq Thread /\ missed \subseteq Worker /\ overtaken \subseteq Thread
  /\ dead \in BOOLEAN
=============================================================================
