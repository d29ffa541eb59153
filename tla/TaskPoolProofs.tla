---------------------------- MODULE TaskPoolProofs ----------------------------
(***************************************************************************)
(* Proofs about TaskPool, for any number of workers and connections: its   *)
(* types, that runTask never overwrites a connection that was not          *)
(* dispatched, and that a free worker is blocked until it is given one.    *)
(***************************************************************************)
EXTENDS TaskPool, TLAPS

\* Where a thread is: before it has set _run, in its loop, in its task.
Early == {"none", "new", "named", "start"}
Waiting == {"first", "wait", "wipe"}
Busy == {"task", "free"}
Places == Early \cup Waiting \cup Busy \cup {"loop", "ended"}

\* ~Dispatcher has joined its loop.
Ending == main \in {"destroy", "stop", "joinWorker"}

\* What w was given and not called with.
Pending(w) == {c \in Task : taken[c] = w /\ c \notin served}

\* runTask is at work on w.
Taking(w) == dpc \in {"input", "unlock"} /\ i = w

\* Threads are made one at a time, by the constructors.
Making ==
  /\ pc \in [Thread -> Places]
  /\ main = "construct" =>
       /\ \A w \in Worker : w < m => pc[w] \notin {"none", "new"}
       /\ \A w \in Worker : w > m => pc[w] = "none"
       /\ m <= threadNum => pc[loop] = "none"
  /\ main # "construct" =>
       pc[loop] # "new" /\ \A w \in Worker : pc[w] \notin {"none", "new"}
  /\ main \in {"stop", "joinWorker"} => m \in Worker

\* The loop leaves nothing half done, and nobody stops a worker before it ends.
Ordered ==
  /\ pc[loop] # "loop" => dpc = "accept"
  /\ Ending => pc[loop] \in {"none", "ended"}
  /\ ~Ending => \A w \in Worker :
       ~gone[w] /\ w \notin signals /\ pc[w] # "ended" /\ (pc[w] \notin Early => run[w])
  /\ \A w \in Worker : run[w] => pc[w] \notin Early

\* A worker that runTask works on is waiting and has not been told.
Untold ==
  \A w \in Worker :
    Taking(w) => ~free[w] /\ pc[w] \in Waiting /\ (pc[w] # "first" => lock[w])

\* A worker keeps its lock for the next round, and nobody takes it while it works.
Blocked ==
  \A w \in Worker :
    /\ pc[w] \in Busy => (~free[w] \/ gone[w]) /\ (lock[w] \/ gone[w] \/ ~run[w])
    /\ pc[w] \in {"wait", "wipe"} /\ free[w] /\ run[w] => lock[w] \/ gone[w]

\* A free worker has been called with all it was given, and one that works is
\* called with what is left.
Settled ==
  \A w \in Worker :
    /\ free[w] \/ (dpc = "input" /\ i = w) => Pending(w) = {}
    /\ pc[w] = "task" => \A c \in Pending(w) : now[w] \in {c, NoTask}
    /\ pc[w] = "free" => Pending(w) = {} \/ dead

\* Inductive: what the properties rest on.
Inv == PoolTypeOK /\ Making /\ Ordered /\ Untold /\ Blocked /\ Settled /\ NoOverwrite

LEMMA Threads ==
  /\ threadNum \in Nat \ {0} /\ Worker = 1..threadNum
  /\ Thread = Worker \cup {loop} /\ loop \notin Worker /\ Worker \subseteq Int
  /\ NoTask \notin Task /\ NoThread \notin Thread
<1> QED
  BY ThreadAssumption, PoolAssumption DEF Thread

LEMMA InitInv == Init => Inv
<1> SUFFICES ASSUME Init PROVE Inv
  OBVIOUS
<1> USE Threads DEF Init, ThreadInit
<1>1. PoolTypeOK
  <2>1. run \in [Thread -> BOOLEAN] /\ free \in [Worker -> BOOLEAN]
    OBVIOUS
  <2>2. lock \in [Worker -> BOOLEAN] /\ gone \in [Worker -> BOOLEAN]
    OBVIOUS
  <2>3. ThreadTypeOK
    BY <2>1, <2>2 DEF ThreadTypeOK
  <2> QED
    BY <2>3 DEF PoolTypeOK
<1>2. Making
  BY DEF Making, Places, Early
<1>3. Ordered /\ Untold /\ Blocked
  BY DEF Ordered, Untold, Blocked, Ending, Taking, Early, Waiting, Busy
<1>4. Settled /\ NoOverwrite
  BY DEF Settled, Pending, NoOverwrite
<1> QED
  BY <1>1, <1>2, <1>3, <1>4 DEF Inv

\* A step that is not on the way of a task.
LEMMA Kept ==
  ASSUME Inv, UNCHANGED <<pc, run, free, lock, input, now, taken, served, dead>>,
         \A w \in Worker : gone[w] => gone'[w],
         dpc' \notin {"input", "unlock"} \/ UNCHANGED <<dpc, i>>
  PROVE  Untold' /\ Blocked' /\ Settled' /\ NoOverwrite'
<1>1. Untold' /\ Blocked'
  BY DEF Inv, Untold, Blocked, Taking
<1>2. \A w \in Worker : Pending(w)' = Pending(w)
  BY DEF Pending
<1>3. Settled' /\ NoOverwrite'
  BY <1>2 DEF Inv, Settled, NoOverwrite
<1> QED
  BY <1>1, <1>3

LEMMA StepInv == Inv /\ [Next]_pvars => Inv'
<1> SUFFICES ASSUME Inv, [Next]_pvars PROVE Inv'
  OBVIOUS
<1> USE Threads DEF Inv
<1>1. ASSUME Construct /\ Create(m) /\ UNCHANGED m PROVE Inv'
  <2>1. ThreadTypeOK'
    BY <1>1 DEF PoolTypeOK, ThreadTypeOK, Making, Construct, At, Create, Move, task,
       marks, dispatcher
  <2>2. PoolTypeOK'
    BY <1>1, <2>1 DEF PoolTypeOK, Construct, At, Create, Move, task, marks, dispatcher
  <2>3. Making'
    BY <1>1 DEF PoolTypeOK, Making, Places, Early, Waiting, Busy, Construct, At, Create,
       Move, task, marks, dispatcher
  <2>4. Ordered'
    BY <1>1 DEF Making, Ordered, Ending, Early, Construct, At, Create, Move, task,
       marks, dispatcher
  <2>5. Untold'
    BY <1>1 DEF Untold, Taking, Making, Waiting, Construct, At, Create, Move, task,
       marks, dispatcher
  <2>6. Blocked'
    BY <1>1 DEF Blocked, Busy, Making, Construct, At, Create, Move, task, marks,
       dispatcher
  <2>7. Settled'
    BY <1>1 DEF Settled, Pending, Construct, At, Create, Move, task, marks, dispatcher
  <2>8. NoOverwrite'
    BY <1>1 DEF NoOverwrite, Construct, At, Create, Move, task, marks, dispatcher
  <2> QED
    BY <2>1, <2>2, <2>3, <2>4, <2>5, <2>6, <2>7, <2>8
<1>2. ASSUME Construct /\ this = m /\ Created(m) /\ m' = m + 1 PROVE Inv'
  <2>1. ThreadTypeOK'
    BY <1>2 DEF PoolTypeOK, ThreadTypeOK, Construct, At, Created, task, marks,
       dispatcher
  <2>2. PoolTypeOK'
    BY <1>2, <2>1 DEF PoolTypeOK, Construct, At, Created, task, marks, dispatcher
  <2>3. Making'
    BY <1>2 DEF PoolTypeOK, Making, Construct, At, Created, task, marks, dispatcher
  <2>4. Ordered'
    BY <1>2 DEF Ordered, Ending, Construct, At, Created, task, marks, dispatcher
  <2>5. Untold' /\ Blocked' /\ Settled' /\ NoOverwrite'
    BY <1>2, Kept DEF Construct, At, Created, task, marks, dispatcher
  <2> QED
    BY <2>1, <2>2, <2>3, <2>4, <2>5
<1>3. ASSUME StartLoop PROVE Inv'
  <2>1. ThreadTypeOK'
    BY <1>3 DEF PoolTypeOK, ThreadTypeOK, Making, StartLoop, Made, At, Create, Move,
       task, marks, dispatcher
  <2>2. PoolTypeOK'
    BY <1>3, <2>1 DEF PoolTypeOK, StartLoop, Made, At, Create, Move, task, marks,
       dispatcher
  <2>3. Making'
    BY <1>3 DEF PoolTypeOK, Making, Places, Early, Waiting, Busy, StartLoop, Made, At,
       Create, Move, task, marks, dispatcher
  <2>4. Ordered'
    BY <1>3 DEF Ordered, Ending, StartLoop, Made, At, Create, Move, task, marks,
       dispatcher
  <2>5. Untold'
    BY <1>3 DEF Untold, Taking, StartLoop, Made, At, Create, Move, task, marks,
       dispatcher
  <2>6. Blocked'
    BY <1>3 DEF Blocked, StartLoop, Made, At, Create, Move, task, marks, dispatcher
  <2>7. Settled'
    BY <1>3 DEF Settled, Pending, StartLoop, Made, At, Create, Move, task, marks,
       dispatcher
  <2>8. NoOverwrite'
    BY <1>3 DEF NoOverwrite, StartLoop, Made, At, Create, Move, task, marks, dispatcher
  <2> QED
    BY <2>1, <2>2, <2>3, <2>4, <2>5, <2>6, <2>7, <2>8
<1>4. ASSUME Serve PROVE Inv'
  <2>1. ThreadTypeOK'
    BY <1>4 DEF PoolTypeOK, ThreadTypeOK, Serve, Made, At, Created, task, marks,
       dispatcher
  <2>2. PoolTypeOK'
    BY <1>4, <2>1 DEF PoolTypeOK, Serve, Made, At, Created, task, marks, dispatcher
  <2>3. Making'
    BY <1>4 DEF PoolTypeOK, Making, Serve, Made, At, Created, task, marks, dispatcher
  <2>4. Ordered'
    BY <1>4 DEF Ordered, Ending, Serve, Made, At, Created, task, marks, dispatcher
  <2>5. Untold' /\ Blocked' /\ Settled' /\ NoOverwrite'
    BY <1>4, Kept DEF Serve, Made, At, Created, task, marks, dispatcher
  <2> QED
    BY <2>1, <2>2, <2>3, <2>4, <2>5
<1>5. ASSUME StopLoop /\ pc[loop] = "none" PROVE Inv'
  <2>1. ThreadTypeOK'
    BY <1>5 DEF PoolTypeOK, ThreadTypeOK, StopLoop, tvars
  <2>2. PoolTypeOK'
    BY <1>5, <2>1 DEF PoolTypeOK, StopLoop, At, tvars, task, marks, dispatcher
  <2>3. Making'
    BY <1>5 DEF Making, StopLoop, At, tvars, task, marks, dispatcher
  <2>4. Ordered'
    BY <1>5 DEF Ordered, Ending, StopLoop, At, tvars, task, marks, dispatcher
  <2>5. Untold' /\ Blocked' /\ Settled' /\ NoOverwrite'
    BY <1>5, Kept DEF StopLoop, At, tvars, task, marks, dispatcher
  <2> QED
    BY <2>1, <2>2, <2>3, <2>4, <2>5
<1>6. ASSUME StopLoop /\ pc[loop] # "none" PROVE Inv'
  <2>1. ThreadTypeOK'
    <3>1. signals' \subseteq Thread
      BY <1>6 DEF PoolTypeOK, ThreadTypeOK, StopLoop, Kill
    <3>2. UNCHANGED <<pc, this, run, free, lock, gone, input, now, missed, overtaken, dead>>
      BY <1>6 DEF StopLoop, Kill, task
    <3> QED
      BY <3>1, <3>2 DEF PoolTypeOK, ThreadTypeOK
  <2>2. PoolTypeOK'
    BY <1>6, <2>1 DEF PoolTypeOK, StopLoop, At, Kill, task, dispatcher
  <2>3. Making'
    BY <1>6 DEF Making, StopLoop, At, Kill, task, dispatcher
  <2>4. Ordered'
    BY <1>6 DEF Ordered, Ending, StopLoop, At, Kill, task, dispatcher
  <2>5. Untold' /\ Blocked' /\ Settled' /\ NoOverwrite'
    BY <1>6, Kept DEF StopLoop, At, Kill, task, dispatcher
  <2> QED
    BY <2>1, <2>2, <2>3, <2>4, <2>5
<1>7. ASSUME LoopJoined PROVE Inv'
  <2>1. ThreadTypeOK'
    BY <1>7 DEF PoolTypeOK, ThreadTypeOK, LoopJoined, At, Joined, tvars, task, marks,
       dispatcher
  <2>2. PoolTypeOK'
    BY <1>7, <2>1 DEF PoolTypeOK, LoopJoined, At, Joined, tvars, task, marks, dispatcher
  <2>3. Making'
    BY <1>7 DEF Making, LoopJoined, At, Joined, tvars, task, marks, dispatcher
  <2>4. Ordered'
    BY <1>7 DEF Ordered, Ending, LoopJoined, At, Joined, tvars, task, marks, dispatcher
  <2>5. Untold' /\ Blocked' /\ Settled' /\ NoOverwrite'
    BY <1>7, Kept DEF LoopJoined, At, Joined, tvars, task, marks, dispatcher
  <2> QED
    BY <2>1, <2>2, <2>3, <2>4, <2>5
<1>8. ASSUME DestroyLock PROVE Inv'
  <2>1. ThreadTypeOK'
    <3>1. gone' \in [Worker -> BOOLEAN]
      BY <1>8 DEF PoolTypeOK, ThreadTypeOK, DestroyLock, Destroy
    <3>2. /\ UNCHANGED <<pc, this, run, free, lock, input, now>>
          /\ UNCHANGED <<signals, missed, overtaken, dead>>
      BY <1>8 DEF DestroyLock, Destroy, marks
    <3> QED
      BY <3>1, <3>2 DEF PoolTypeOK, ThreadTypeOK
  <2>2. PoolTypeOK'
    BY <1>8, <2>1 DEF PoolTypeOK, DestroyLock, At, Destroy, marks, dispatcher
  <2>3. Making'
    BY <1>8 DEF PoolTypeOK, Making, DestroyLock, At, Destroy, marks, dispatcher
  <2>4. Ordered'
    BY <1>8 DEF Ordered, Ending, DestroyLock, At, Destroy, marks, dispatcher
  <2>5. Untold' /\ Blocked' /\ Settled' /\ NoOverwrite'
    <3>1. \A w \in Worker : gone[w] => gone'[w]
      BY <1>8 DEF PoolTypeOK, ThreadTypeOK, DestroyLock, Destroy
    <3> QED
      BY <1>8, <3>1, Kept DEF DestroyLock, Destroy, marks, dispatcher
  <2> QED
    BY <2>1, <2>2, <2>3, <2>4, <2>5
<1>9. ASSUME StopWorker PROVE Inv'
  <2>1. ThreadTypeOK'
    BY <1>9 DEF PoolTypeOK, ThreadTypeOK, Making, StopWorker, At, Kill, task, dispatcher
  <2>2. PoolTypeOK'
    BY <1>9, <2>1 DEF PoolTypeOK, StopWorker, At, Kill, task, dispatcher
  <2>3. Making'
    BY <1>9 DEF Making, StopWorker, At, Kill, task, dispatcher
  <2>4. Ordered'
    BY <1>9 DEF Ordered, Ending, StopWorker, At, Kill, task, dispatcher
  <2>5. Untold' /\ Blocked' /\ Settled' /\ NoOverwrite'
    BY <1>9, Kept DEF StopWorker, At, Kill, task, dispatcher
  <2> QED
    BY <2>1, <2>2, <2>3, <2>4, <2>5
<1>10. ASSUME WorkerJoined PROVE Inv'
  <2>1. ThreadTypeOK'
    BY <1>10 DEF PoolTypeOK, ThreadTypeOK, WorkerJoined, At, Joined, tvars, task, marks,
       dispatcher
  <2>2. PoolTypeOK'
    BY <1>10, <2>1 DEF PoolTypeOK, Making, WorkerJoined, At, Joined, tvars, task, marks,
       dispatcher
  <2>3. Making'
    BY <1>10 DEF Making, WorkerJoined, At, Joined, tvars, task, marks, dispatcher
  <2>4. Ordered'
    BY <1>10 DEF Ordered, Ending, WorkerJoined, At, Joined, tvars, task, marks,
       dispatcher
  <2>5. Untold' /\ Blocked' /\ Settled' /\ NoOverwrite'
    BY <1>10, Kept DEF WorkerJoined, At, Joined, tvars, task, marks, dispatcher
  <2> QED
    BY <2>1, <2>2, <2>3, <2>4, <2>5
<1>11. ASSUME Leave PROVE Inv'
  <2>1. ThreadTypeOK'
    BY <1>11 DEF PoolTypeOK, ThreadTypeOK, Leave, Made, At, tvars, task, marks,
       dispatcher
  <2>2. PoolTypeOK'
    BY <1>11, <2>1 DEF PoolTypeOK, Leave, Made, At, tvars, task, marks, dispatcher
  <2>3. Making'
    BY <1>11 DEF PoolTypeOK, Making, Leave, Made, At, tvars, task, marks, dispatcher
  <2>4. Ordered'
    BY <1>11 DEF Ordered, Ending, Leave, Made, At, tvars, task, marks, dispatcher
  <2>5. Untold' /\ Blocked' /\ Settled' /\ NoOverwrite'
    BY <1>11, Kept DEF Leave, Made, At, tvars, task, marks, dispatcher
  <2> QED
    BY <2>1, <2>2, <2>3, <2>4, <2>5
<1>12. ASSUME Accept PROVE Inv'
  <2>1. ThreadTypeOK'
    BY <1>12 DEF PoolTypeOK, ThreadTypeOK, Accept, Looping, tvars, task, marks
  <2>2. PoolTypeOK'
    BY <1>12, <2>1 DEF PoolTypeOK, Accept, Looping, tvars, task, marks
  <2>3. Making'
    BY <1>12 DEF Making, Accept, Looping, tvars, task, marks
  <2>4. Ordered'
    BY <1>12 DEF Ordered, Ending, Accept, Looping, tvars, task, marks
  <2>5. Untold' /\ Blocked' /\ Settled' /\ NoOverwrite'
    BY <1>12, Kept DEF Accept, Looping, tvars, task, marks
  <2> QED
    BY <2>1, <2>2, <2>3, <2>4, <2>5
<1>13. ASSUME Skip PROVE Inv'
  <2>1. ThreadTypeOK'
    BY <1>13 DEF PoolTypeOK, ThreadTypeOK, Skip, Looping, tvars, task, marks
  <2>2. PoolTypeOK'
    BY <1>13, <2>1 DEF PoolTypeOK, Skip, Looping, tvars, task, marks
  <2>3. Making'
    BY <1>13 DEF Making, Skip, Looping, tvars, task, marks
  <2>4. Ordered'
    BY <1>13 DEF Ordered, Ending, Skip, Looping, tvars, task, marks
  <2>5. Untold' /\ Blocked' /\ Settled' /\ NoOverwrite'
    BY <1>13, Kept DEF Skip, Looping, tvars, task, marks
  <2> QED
    BY <2>1, <2>2, <2>3, <2>4, <2>5
<1>14. ASSUME RunTask PROVE Inv'
  <2>1. ThreadTypeOK'
    BY <1>14 DEF PoolTypeOK, ThreadTypeOK, RunTask, Looping, Take, Ready, marks
  <2>2. PoolTypeOK'
    BY <1>14, <2>1 DEF PoolTypeOK, RunTask, Looping, Take, Ready, marks
  <2>3. Making'
    BY <1>14 DEF Making, RunTask, Looping, Take, Ready, marks
  <2>4. Ordered'
    BY <1>14 DEF Ordered, Ending, RunTask, Looping, Take, Ready, marks
  <2>5. Untold'
    BY <1>14 DEF PoolTypeOK, ThreadTypeOK, Making, Ordered, Untold, Blocked, Ending,
       Taking, Early, Waiting, Busy, RunTask, Looping, Take, Ready, marks
  <2>6. Blocked'
    BY <1>14 DEF Blocked, RunTask, Looping, Take, Ready, marks
  <2>7. Settled'
    BY <1>14 DEF Settled, Pending, RunTask, Looping, Take, Ready, marks
  <2>8. NoOverwrite'
    BY <1>14 DEF NoOverwrite, RunTask, Looping, Take, Ready, marks
  <2> QED
    BY <2>1, <2>2, <2>3, <2>4, <2>5, <2>6, <2>7, <2>8
<1>15. ASSUME SetInput PROVE Inv'
  <2>1. ThreadTypeOK'
    BY <1>15 DEF PoolTypeOK, ThreadTypeOK, SetInput, Looping, SetTask, marks
  <2>2. PoolTypeOK'
    BY <1>15, <2>1 DEF PoolTypeOK, SetInput, Looping, SetTask, marks
  <2>3. Making'
    BY <1>15 DEF Making, SetInput, Looping, SetTask, marks
  <2>4. Ordered'
    BY <1>15 DEF Ordered, Ending, SetInput, Looping, SetTask, marks
  <2>5. Untold'
    BY <1>15 DEF Untold, Taking, SetInput, Looping, SetTask, marks
  <2>6. Blocked'
    BY <1>15 DEF Blocked, SetInput, Looping, SetTask, marks
  <2>7. Settled'
    BY <1>15 DEF Settled, Pending, Making, PoolTypeOK, ThreadTypeOK, Untold, Taking,
       Waiting, SetInput, Looping, SetTask, marks
  <2>8. NoOverwrite'
    BY <1>15 DEF NoOverwrite, Settled, Pending, PoolTypeOK, ThreadTypeOK, SetInput,
       Looping, SetTask, marks
  <2> QED
    BY <2>1, <2>2, <2>3, <2>4, <2>5, <2>6, <2>7, <2>8
<1>16. ASSUME Unlock PROVE Inv'
  <2>1. ThreadTypeOK'
    BY <1>16 DEF PoolTypeOK, ThreadTypeOK, Unlock, Looping, UnlockTask
  <2>2. PoolTypeOK'
    BY <1>16, <2>1 DEF PoolTypeOK, Unlock, Looping, UnlockTask
  <2>3. Making'
    BY <1>16 DEF Making, Unlock, Looping, UnlockTask
  <2>4. Ordered'
    BY <1>16 DEF Ordered, Ending, Unlock, Looping, UnlockTask
  <2>5. Untold'
    BY <1>16 DEF Untold, Taking, Unlock, Looping, UnlockTask
  <2>6. Blocked'
    BY <1>16 DEF PoolTypeOK, ThreadTypeOK, Blocked, Busy, Making, Untold, Taking,
       Waiting, Unlock, Looping, UnlockTask
  <2>7. Settled'
    BY <1>16 DEF Settled, Pending, Unlock, Looping, UnlockTask
  <2>8. NoOverwrite'
    BY <1>16 DEF NoOverwrite, Unlock, Looping, UnlockTask
  <2> QED
    BY <2>1, <2>2, <2>3, <2>4, <2>5, <2>6, <2>7, <2>8
<1>17. ASSUME Refuse PROVE Inv'
  <2>1. ThreadTypeOK'
    BY <1>17 DEF PoolTypeOK, ThreadTypeOK, Refuse, Looping, tvars, task, marks
  <2>2. PoolTypeOK'
    BY <1>17, <2>1 DEF PoolTypeOK, Refuse, Looping, tvars, task, marks
  <2>3. Making'
    BY <1>17 DEF Making, Refuse, Looping, tvars, task, marks
  <2>4. Ordered'
    BY <1>17 DEF Ordered, Ending, Refuse, Looping, tvars, task, marks
  <2>5. Untold' /\ Blocked' /\ Settled' /\ NoOverwrite'
    BY <1>17, Kept DEF Refuse, Looping, tvars, task, marks
  <2> QED
    BY <2>1, <2>2, <2>3, <2>4, <2>5
<1>18. ASSUME LoopEnd PROVE Inv'
  <2>1. ThreadTypeOK'
    BY <1>18 DEF PoolTypeOK, ThreadTypeOK, LoopEnd, Move, task, marks, dispatcher
  <2>2. PoolTypeOK'
    BY <1>18, <2>1 DEF PoolTypeOK, LoopEnd, Move, task, marks, dispatcher
  <2>3. Making'
    BY <1>18 DEF PoolTypeOK, Making, Places, Early, Waiting, Busy, LoopEnd, Move, task,
       marks, dispatcher
  <2>4. Ordered'
    BY <1>18 DEF Ordered, Ending, LoopEnd, Move, task, marks, dispatcher
  <2>5. Untold'
    BY <1>18 DEF Untold, Taking, LoopEnd, Move, task, marks, dispatcher
  <2>6. Blocked'
    BY <1>18 DEF Blocked, LoopEnd, Move, task, marks, dispatcher
  <2>7. Settled'
    BY <1>18 DEF Settled, Pending, LoopEnd, Move, task, marks, dispatcher
  <2>8. NoOverwrite'
    BY <1>18 DEF NoOverwrite, LoopEnd, Move, task, marks, dispatcher
  <2> QED
    BY <2>1, <2>2, <2>3, <2>4, <2>5, <2>6, <2>7, <2>8
<1>19. ASSUME NEW w \in Worker, Dispatch(w) PROVE Inv'
  <2>1. ThreadTypeOK'
    BY <1>19 DEF PoolTypeOK, ThreadTypeOK, Making, Dispatch, Move, task, marks,
       dispatcher
  <2>2. PoolTypeOK'
    <3>1. served' \subseteq Task
      BY <1>19 DEF PoolTypeOK, ThreadTypeOK, Dispatch
    <3>2. \A v \in Worker : pc'[v] \in {"none", "new", "named", "start", "first", "wait",
                                         "task", "free", "wipe", "ended"}
      BY <1>19 DEF PoolTypeOK, Making, Dispatch, Move
    <3>3. pc'[loop] = pc[loop] /\ UNCHANGED <<main, m, dispatcher>>
      BY <1>19 DEF Making, Dispatch, Move
    <3> QED
      BY <2>1, <3>1, <3>2, <3>3 DEF PoolTypeOK, dispatcher
  <2>3. Making'
    BY <1>19 DEF PoolTypeOK, Making, Places, Early, Waiting, Busy, Dispatch, Move, task,
       marks, dispatcher
  <2>4. Ordered'
    BY <1>19 DEF Making, Ordered, Ending, Early, Dispatch, Move, task, marks, dispatcher
  <2>5. Untold'
    BY <1>19 DEF Untold, Taking, Making, Waiting, Dispatch, Move, task, marks,
       dispatcher
  <2>6. Blocked'
    BY <1>19 DEF Blocked, Busy, Making, Dispatch, Move, task, marks, dispatcher
  <2>7. Settled'
    BY <1>19 DEF Settled, Pending, Dispatch, Move, task, marks, dispatcher
  <2>8. NoOverwrite'
    BY <1>19 DEF NoOverwrite, Dispatch, Move, task, marks, dispatcher
  <2> QED
    BY <2>1, <2>2, <2>3, <2>4, <2>5, <2>6, <2>7, <2>8
<1>20. ASSUME NEW w \in Worker, FirstLock(w), UNCHANGED <<main, m, served, dispatcher>>
      PROVE  Inv'
  <2>1. ThreadTypeOK'
    BY <1>20 DEF PoolTypeOK, ThreadTypeOK, FirstLock, Lock, Move, marks, dispatcher
  <2>2. PoolTypeOK'
    BY <1>20, <2>1 DEF PoolTypeOK, FirstLock, Lock, Move, marks, dispatcher
  <2>3. Making'
    BY <1>20 DEF PoolTypeOK, Making, Places, Early, Waiting, Busy, FirstLock, Lock,
       Move, marks, dispatcher
  <2>4. Ordered'
    BY <1>20 DEF Making, Ordered, Ending, Early, FirstLock, Lock, Move, marks,
       dispatcher
  <2>5. Untold'
    BY <1>20 DEF PoolTypeOK, ThreadTypeOK, Making, Ordered, Untold, Blocked, Ending,
       Taking, Early, Waiting, Busy, FirstLock, Lock, Move, marks, dispatcher
  <2>6. Blocked'
    BY <1>20 DEF PoolTypeOK, ThreadTypeOK, Blocked, Busy, Making, FirstLock, Lock, Move,
       marks, dispatcher
  <2>7. Settled'
    BY <1>20 DEF Settled, Pending, FirstLock, Lock, Move, marks, dispatcher
  <2>8. NoOverwrite'
    BY <1>20 DEF NoOverwrite, FirstLock, Lock, Move, marks, dispatcher
  <2> QED
    BY <2>1, <2>2, <2>3, <2>4, <2>5, <2>6, <2>7, <2>8
<1>21. ASSUME NEW w \in Worker, LoopLock(w), UNCHANGED <<main, m, served, dispatcher>>
      PROVE  Inv'
  <2>1. ThreadTypeOK'
    BY <1>21 DEF PoolTypeOK, ThreadTypeOK, LoopLock, Lock, Move, marks, dispatcher
  <2>2. PoolTypeOK'
    BY <1>21, <2>1 DEF PoolTypeOK, LoopLock, Lock, Move, marks, dispatcher
  <2>3. Making'
    BY <1>21 DEF PoolTypeOK, Making, Places, Early, Waiting, Busy, LoopLock, Lock, Move,
       marks, dispatcher
  <2>4. Ordered'
    BY <1>21 DEF Making, Ordered, Ending, Early, LoopLock, Lock, Move, marks, dispatcher
  <2>5. Untold'
    BY <1>21 DEF Untold, Taking, Making, Waiting, Ordered, Ending, LoopLock, Lock, Move,
       marks, dispatcher
  <2>6. Blocked'
    <3>1. \A v \in Worker \ {w} : pc'[v] = pc[v] /\ lock'[v] = lock[v]
      BY <1>21 DEF PoolTypeOK, ThreadTypeOK, Making, LoopLock, Lock, Move
    <3>2. UNCHANGED <<free, gone, run, dispatcher>>
      BY <1>21 DEF LoopLock
    <3>3. pc'[w] = "task" => run[w] /\ (lock'[w] \/ gone[w]) /\ (~free[w] \/ gone[w])
      <4>1. CASE gone[w]
    BY <4>1, <1>21 DEF PoolTypeOK, ThreadTypeOK, Making, Blocked, LoopLock, Lock, Move
      <4>2. CASE ~gone[w]
        <5>1. ~lock[w] /\ lock'[w] = TRUE
      BY <4>2, <1>21 DEF PoolTypeOK, ThreadTypeOK, LoopLock, Lock
        <5>2. pc[w] = "wait" /\ pc'[w] = IF run[w] THEN "task" ELSE "ended"
      BY <1>21 DEF Making, LoopLock, Move
        <5> QED
      BY <5>1, <5>2, <4>2 DEF Blocked
      <4> QED
    BY <4>1, <4>2
    <3>4. pc'[w] \in {"task", "ended"}
      BY <1>21 DEF Making, LoopLock, Move
    <3> QED
      BY <3>1, <3>2, <3>3, <3>4 DEF Blocked, Busy
  <2>7. Settled'
    <3>1. \A v \in Worker \ {w} : pc'[v] = pc[v] /\ now'[v] = now[v]
      BY <1>21 DEF PoolTypeOK, ThreadTypeOK, Making, LoopLock, Move
    <3>2. UNCHANGED <<free, taken, served, dpc, i, dead>>
      BY <1>21 DEF LoopLock, Move, marks, dispatcher
    <3>3. now'[w] = input[w] /\ pc'[w] \in {"task", "ended"}
      BY <1>21 DEF PoolTypeOK, ThreadTypeOK, Making, LoopLock, Move
    <3>4. \A v \in Worker : Pending(v)' = Pending(v)
      BY <3>2 DEF Pending
    <3>5. \A c \in Pending(w) : input[w] \in {c, NoTask}
      BY DEF Pending, NoOverwrite
    <3> QED
      BY <3>1, <3>2, <3>3, <3>4, <3>5 DEF Settled
  <2>8. NoOverwrite'
    BY <1>21 DEF NoOverwrite, LoopLock, Lock, Move, marks, dispatcher
  <2> QED
    BY <2>1, <2>2, <2>3, <2>4, <2>5, <2>6, <2>7, <2>8
<1>22. ASSUME NEW w \in Worker, Wipe(w), UNCHANGED <<main, m, served, dispatcher>>
      PROVE  Inv'
  <2>1. ThreadTypeOK'
    BY <1>22 DEF PoolTypeOK, ThreadTypeOK, Wipe, Move, marks, dispatcher
  <2>2. PoolTypeOK'
    BY <1>22, <2>1 DEF PoolTypeOK, Wipe, Move, marks, dispatcher
  <2>3. Making'
    BY <1>22 DEF PoolTypeOK, Making, Places, Early, Waiting, Busy, Wipe, Move, marks,
       dispatcher
  <2>4. Ordered'
    BY <1>22 DEF Making, Ordered, Ending, Early, Wipe, Move, marks, dispatcher
  <2>5. Untold'
    BY <1>22 DEF PoolTypeOK, ThreadTypeOK, Making, Ordered, Untold, Blocked, Ending,
       Taking, Early, Waiting, Busy, Wipe, Move, marks, dispatcher
  <2>6. Blocked'
    BY <1>22 DEF Blocked, Busy, Making, Wipe, Move, marks, dispatcher
  <2>7. Settled'
    BY <1>22 DEF Settled, Pending, Wipe, Move, marks, dispatcher
  <2>8. NoOverwrite'
    BY <1>22 DEF NoOverwrite, Wipe, Move, marks, dispatcher
  <2> QED
    BY <2>1, <2>2, <2>3, <2>4, <2>5, <2>6, <2>7, <2>8
<1>23. ASSUME NEW w \in Worker, Return(w) PROVE Inv'
  <2>1. ThreadTypeOK'
    BY <1>23 DEF PoolTypeOK, ThreadTypeOK, Return, SetFree, Move, marks, dispatcher
  <2>2. PoolTypeOK'
    BY <1>23, <2>1 DEF PoolTypeOK, Return, SetFree, Move, marks, dispatcher
  <2>3. Making'
    BY <1>23 DEF PoolTypeOK, Making, Places, Early, Waiting, Busy, Return, SetFree,
       Move, marks, dispatcher
  <2>4. Ordered'
    BY <1>23 DEF Making, Ordered, Ending, Early, Return, SetFree, Move, marks,
       dispatcher
  <2>5. Untold'
    BY <1>23 DEF Untold, Taking, Making, Waiting, Return, SetFree, Move, marks,
       dispatcher
  <2>6. Blocked'
    BY <1>23 DEF Blocked, Busy, Making, Return, SetFree, Move, marks, dispatcher
  <2>7. Settled'
    BY <1>23 DEF Settled, Pending, Return, SetFree, Move, marks, dispatcher
  <2>8. NoOverwrite'
    BY <1>23 DEF NoOverwrite, Return, SetFree, Move, marks, dispatcher
  <2> QED
    BY <2>1, <2>2, <2>3, <2>4, <2>5, <2>6, <2>7, <2>8
<1>24. ASSUME NEW w \in Worker, UseDestroyed(w) PROVE Inv'
  <2>1. ThreadTypeOK'
    BY <1>24 DEF PoolTypeOK, ThreadTypeOK, UseDestroyed, task, marks, dispatcher
  <2>2. PoolTypeOK'
    BY <1>24, <2>1 DEF PoolTypeOK, UseDestroyed, task, marks, dispatcher
  <2>3. Making'
    BY <1>24 DEF Making, UseDestroyed, task, marks, dispatcher
  <2>4. Ordered'
    BY <1>24 DEF Ordered, Ending, UseDestroyed, task, marks, dispatcher
  <2>5. Untold'
    BY <1>24 DEF Untold, Taking, UseDestroyed, task, marks, dispatcher
  <2>6. Blocked'
    BY <1>24 DEF Blocked, UseDestroyed, task, marks, dispatcher
  <2>7. Settled'
    BY <1>24 DEF Settled, Pending, UseDestroyed, task, marks, dispatcher
  <2>8. NoOverwrite'
    BY <1>24 DEF NoOverwrite, UseDestroyed, task, marks, dispatcher
  <2> QED
    BY <2>1, <2>2, <2>3, <2>4, <2>5, <2>6, <2>7, <2>8
<1>25. ASSUME NEW t \in Thread, Begin(t) /\ SetState(t) PROVE Inv'
  <2>1. ThreadTypeOK'
    BY <1>25 DEF PoolTypeOK, ThreadTypeOK, Begin, SetState, Move, task, marks,
       dispatcher
  <2>2. PoolTypeOK'
    BY <1>25, <2>1 DEF PoolTypeOK, Begin, SetState, Move, task, marks, dispatcher
  <2>3. Making'
    BY <1>25 DEF PoolTypeOK, Making, Places, Early, Waiting, Busy, Begin, SetState,
       Move, task, marks, dispatcher
  <2>4. Ordered'
    BY <1>25 DEF Making, Ordered, Ending, Early, Begin, SetState, Move, task, marks,
       dispatcher
  <2>5. Untold'
    BY <1>25 DEF Untold, Taking, Making, Waiting, Begin, SetState, Move, task, marks,
       dispatcher
  <2>6. Blocked'
    BY <1>25 DEF Blocked, Busy, Making, Begin, SetState, Move, task, marks, dispatcher
  <2>7. Settled'
    BY <1>25 DEF Settled, Pending, Begin, SetState, Move, task, marks, dispatcher
  <2>8. NoOverwrite'
    BY <1>25 DEF NoOverwrite, Begin, SetState, Move, task, marks, dispatcher
  <2> QED
    BY <2>1, <2>2, <2>3, <2>4, <2>5, <2>6, <2>7, <2>8
<1>26. ASSUME NEW t \in Thread, Begin(t) /\ CallRun(t) PROVE Inv'
  <2>1. ThreadTypeOK'
    BY <1>26 DEF PoolTypeOK, ThreadTypeOK, Begin, CallRun, Move, task, marks, dispatcher
  <2>2. PoolTypeOK'
    BY <1>26, <2>1 DEF PoolTypeOK, Begin, CallRun, Move, task, marks, dispatcher
  <2>3. Making'
    BY <1>26 DEF PoolTypeOK, Making, Places, Early, Waiting, Busy, Begin, CallRun, Move,
       task, marks, dispatcher
  <2>4. Ordered'
    BY <1>26 DEF Making, Ordered, Ending, Early, Begin, CallRun, Move, task, marks,
       dispatcher
  <2>5. Untold'
    BY <1>26 DEF Untold, Taking, Making, Waiting, Begin, CallRun, Move, task, marks,
       dispatcher
  <2>6. Blocked'
    BY <1>26 DEF Blocked, Busy, Making, Begin, CallRun, Move, task, marks, dispatcher
  <2>7. Settled'
    BY <1>26 DEF Settled, Pending, Begin, CallRun, Move, task, marks, dispatcher
  <2>8. NoOverwrite'
    BY <1>26 DEF NoOverwrite, Begin, CallRun, Move, task, marks, dispatcher
  <2> QED
    BY <2>1, <2>2, <2>3, <2>4, <2>5, <2>6, <2>7, <2>8
<1>27. ASSUME NEW w \in Worker, Begin(w) /\ Start(w, "first") PROVE Inv'
  <2>1. ThreadTypeOK'
    BY <1>27 DEF PoolTypeOK, ThreadTypeOK, Begin, Start, Move, task, marks, dispatcher
  <2>2. PoolTypeOK'
    BY <1>27, <2>1 DEF PoolTypeOK, Begin, Start, Move, task, marks, dispatcher
  <2>3. Making'
    BY <1>27 DEF PoolTypeOK, Making, Places, Early, Waiting, Busy, Begin, Start, Move,
       task, marks, dispatcher
  <2>4. Ordered'
    BY <1>27 DEF PoolTypeOK, ThreadTypeOK, Making, Ordered, Ending, Early, Begin, Start,
       Move, task, marks, dispatcher
  <2>5. Untold'
    BY <1>27 DEF Untold, Taking, Making, Waiting, Begin, Start, Move, task, marks,
       dispatcher
  <2>6. Blocked'
    BY <1>27 DEF Blocked, Busy, Making, Begin, Start, Move, task, marks, dispatcher
  <2>7. Settled'
    BY <1>27 DEF Settled, Pending, Begin, Start, Move, task, marks, dispatcher
  <2>8. NoOverwrite'
    BY <1>27 DEF NoOverwrite, Begin, Start, Move, task, marks, dispatcher
  <2> QED
    BY <2>1, <2>2, <2>3, <2>4, <2>5, <2>6, <2>7, <2>8
<1>28. ASSUME Begin(loop) /\ Start(loop, "loop") PROVE Inv'
  <2>1. ThreadTypeOK'
    BY <1>28 DEF PoolTypeOK, ThreadTypeOK, Begin, Start, Move, task, marks, dispatcher
  <2>2. PoolTypeOK'
    BY <1>28, <2>1 DEF PoolTypeOK, Begin, Start, Move, task, marks, dispatcher
  <2>3. Making'
    BY <1>28 DEF PoolTypeOK, Making, Places, Early, Waiting, Busy, Begin, Start, Move,
       task, marks, dispatcher
  <2>4. Ordered'
    BY <1>28 DEF Ordered, Ending, Begin, Start, Move, task, marks, dispatcher
  <2>5. Untold'
    BY <1>28 DEF Untold, Taking, Begin, Start, Move, task, marks, dispatcher
  <2>6. Blocked'
    BY <1>28 DEF Blocked, Begin, Start, Move, task, marks, dispatcher
  <2>7. Settled'
    BY <1>28 DEF Settled, Pending, Begin, Start, Move, task, marks, dispatcher
  <2>8. NoOverwrite'
    BY <1>28 DEF NoOverwrite, Begin, Start, Move, task, marks, dispatcher
  <2> QED
    BY <2>1, <2>2, <2>3, <2>4, <2>5, <2>6, <2>7, <2>8
<1>29. ASSUME NEW t \in Thread, Interrupt(t) PROVE Inv'
  <2>1. ThreadTypeOK'
    BY <1>29 DEF PoolTypeOK, ThreadTypeOK, Interrupt, HandleStop, dispatcher
  <2>2. PoolTypeOK'
    BY <1>29, <2>1 DEF PoolTypeOK, Interrupt, HandleStop, dispatcher
  <2>3. Making'
    BY <1>29 DEF Making, Interrupt, HandleStop, dispatcher
  <2>4. Ordered'
    BY <1>29 DEF Ordered, Ending, Interrupt, HandleStop, dispatcher
  <2>5. Untold'
    BY <1>29 DEF Untold, Taking, Making, Waiting, Ordered, Ending, Interrupt,
       HandleStop, dispatcher
  <2>6. Blocked'
    BY <1>29 DEF PoolTypeOK, ThreadTypeOK, Blocked, Busy, Making, Interrupt, HandleStop,
       dispatcher
  <2>7. Settled'
    BY <1>29 DEF Settled, Pending, Interrupt, HandleStop, dispatcher
  <2>8. NoOverwrite'
    BY <1>29 DEF NoOverwrite, Interrupt, HandleStop, dispatcher
  <2> QED
    BY <2>1, <2>2, <2>3, <2>4, <2>5, <2>6, <2>7, <2>8
<1>30. ASSUME UNCHANGED pvars PROVE Inv'
  BY <1>30 DEF PoolTypeOK, ThreadTypeOK, Making, Ordered, Untold, Blocked, Settled, NoOverwrite,
     Pending, Ending, Taking, pvars, tvars, task, marks
<1>a. CASE Construct
  BY <1>a, <1>1, <1>2 DEF Construct
<1>b. CASE StopLoop
  BY <1>b, <1>5, <1>6
<1>c. ASSUME NEW t \in Thread, Begin(t) PROVE Inv'
  <2>1. CASE SetState(t)
    BY <1>c, <2>1, <1>25
  <2>2. CASE CallRun(t)
    BY <1>c, <2>2, <1>26
  <2>3. CASE Start(t, IF t = loop THEN "loop" ELSE "first")
    BY <1>c, <2>3, <1>27, <1>28
  <2> QED
    BY <1>c, <2>1, <2>2, <2>3 DEF Begin
<1>d. CASE Main
  BY <1>d, <1>a, <1>3, <1>4, <1>b, <1>7, <1>8, <1>9, <1>10 DEF Main
<1>e. CASE MainLoop
  BY <1>e, <1>12, <1>13, <1>14, <1>15, <1>16, <1>17, <1>18 DEF MainLoop
<1>f. ASSUME NEW w \in Worker, Work(w) PROVE Inv'
  BY <1>f, <1>19, <1>20, <1>21, <1>22 DEF Work
<1> QED
  BY <1>c, <1>d, <1>e, <1>f, <1>11, <1>23, <1>24, <1>29, <1>30 DEF Next

\* The invariant holds in every pool of TaskPool, from constructor to destructor.
THEOREM AlwaysInv == Spec => []Inv
<1> QED
  BY InitInv, StepInv, PTL DEF Spec

\* Of every number of workers: each variable keeps its type, and no thread is
\* started before the one before it has named itself.
THEOREM PoolTypeCorrect == Spec => []PoolTypeOK
<1>1. Inv => PoolTypeOK
  BY DEF Inv
<1> QED
  BY <1>1, AlwaysInv, PTL

\* runTask, without a lock, never overwrites a connection that its worker has not
\* been called with.
THEOREM OverwriteCorrect == Spec => []NoOverwrite
<1>1. Inv => NoOverwrite
  BY DEF Inv
<1> QED
  BY <1>1, AlwaysInv, PTL

\* A free worker waits in mainLoop's lock until runTask or a stop unlocks it.
THEOREM BlockedCorrect == Spec => []FreeBlocked
<1>1. Inv => FreeBlocked
  BY DEF Inv, Blocked, FreeBlocked
<1> QED
  BY <1>1, AlwaysInv, PTL
=============================================================================
