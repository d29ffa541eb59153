------------------------------- MODULE TaskPool -------------------------------
(***************************************************************************)
(* The Dispatcher of one machine and its pool of TaskThreads, from the     *)
(* server's constructor to its destructor: the main thread makes and ends  *)
(* the threads, the dispatcher's thread accepts connections and hands each *)
(* to the first free worker.                                               *)
(***************************************************************************)
EXTENDS TaskThread

CONSTANT loop   \* the dispatcher's own thread; a Task is a connection

threadNum == Cardinality(Worker)

ASSUME PoolAssumption ==
  threadNum \in Nat \ {0} /\ Worker = 1..threadNum /\ Other = {loop}

VARIABLES
  main,     \* where the main thread is in Server's life
  m,        \* the worker it makes or ends
  dpc,      \* where Dispatcher::mainLoop is
  conn,     \* the connection it accepted
  i,        \* the worker it looks at
  waiting,  \* connections not accepted yet
  taken,    \* history: taken[c]: the worker runTask gave c to
  served,   \* history: connections dispatch was called with
  refused   \* history: "server busy!"

pvars == <<tvars, main, m, dpc, conn, i, waiting, taken, served, refused>>
dispatcher == <<dpc, conn, i, waiting, taken, refused>>

Init ==
  /\ ThreadInit
  /\ main = "construct" /\ m = 1
  /\ dpc = "accept" /\ conn = NoTask /\ i = 1 /\ waiting = Task
  /\ taken = [c \in Task |-> 0]
  /\ served = {} /\ refused = {}

-----------------------------------------------------------------------------
(* The main thread: constructors, Server::start, destructors.              *)

At(place) == ~dead /\ main = place
Made == At("construct") /\ m > threadNum

Construct ==
  /\ At("construct") /\ m <= threadNum
  /\ \/ Create(m) /\ UNCHANGED m
     \/ this = m /\ Created(m) /\ m' = m + 1
  /\ UNCHANGED <<main, served, dispatcher>>

\* Dispatcher::start, unless bind fails.
StartLoop ==
  /\ Made /\ Create(loop)
  /\ UNCHANGED <<main, m, served, dispatcher>>

Serve ==
  /\ Made /\ this = loop /\ Created(loop)
  /\ main' = "serve"
  /\ UNCHANGED <<m, served, dispatcher>>

\* serve returns at a signal, or start failed; ~Server saves the snapshot and
\* destroys the file manager and the router.
Leave ==
  /\ At("serve") \/ (Made /\ pc[loop] = "none")
  /\ main' = "leave" /\ m' = 1
  /\ UNCHANGED <<tvars, served, dispatcher>>

\* ~Dispatcher stops the loop, if it was started.
StopLoop ==
  /\ At("leave")
  /\ IF pc[loop] = "none" THEN main' = "destroy" /\ UNCHANGED tvars
                          ELSE main' = "join" /\ Kill(loop)
  /\ UNCHANGED <<m, served, dispatcher>>

LoopJoined ==
  /\ At("join") /\ Joined(loop)
  /\ main' = "destroy"
  /\ UNCHANGED <<tvars, m, served, dispatcher>>

\* ~TaskThread, of each worker.
DestroyLock ==
  /\ At("destroy") /\ m <= threadNum
  /\ main' = "stop" /\ Destroy(m)
  /\ UNCHANGED <<m, served, dispatcher>>

StopWorker ==
  /\ At("stop")
  /\ main' = "joinWorker" /\ Kill(m)
  /\ UNCHANGED <<m, served, dispatcher>>

WorkerJoined ==
  /\ At("joinWorker") /\ Joined(m)
  /\ main' = "destroy" /\ m' = m + 1
  /\ UNCHANGED <<tvars, served, dispatcher>>

Leaving == main \notin {"construct", "serve"}
Down == main = "destroy" /\ m > threadNum

-----------------------------------------------------------------------------
(* The threads.                                                            *)

\* Dispatcher::dispatch with what it was called with.
Dispatch(w) ==
  /\ Move(w, "task", "free")
  /\ IF now[w] = NoTask THEN dead' = TRUE /\ UNCHANGED served
     ELSE served' = served \cup {now[w]} /\ UNCHANGED dead
  /\ UNCHANGED <<this, run, task, marks, main, m, dispatcher>>

\* A handler uses what ~Server has destroyed.
UseDestroyed(w) ==
  /\ ~dead /\ pc[w] = "free" /\ Leaving
  /\ dead' = TRUE
  /\ UNCHANGED <<pc, this, run, task, marks, main, m, served, dispatcher>>

Begin(t) ==
  /\ SetState(t) \/ CallRun(t) \/ Start(t, IF t = loop THEN "loop" ELSE "first")
  /\ UNCHANGED <<main, m, served, dispatcher>>

Interrupt(t) == HandleStop(t) /\ UNCHANGED <<main, m, served, dispatcher>>

Return(w) == SetFree(w) /\ UNCHANGED <<main, m, served, dispatcher>>

Work(w) ==
  \/ Dispatch(w)
  \/ /\ FirstLock(w) \/ LoopLock(w) \/ Wipe(w)
     /\ UNCHANGED <<main, m, served, dispatcher>>

-----------------------------------------------------------------------------
(* Dispatcher::mainLoop with TaskThread::runTask.                          *)

Looping(place) == ~dead /\ pc[loop] = "loop" /\ dpc = place

\* threadStop closes the socket, in this thread.
Closed == main = "join" /\ loop \notin signals

Accept ==
  /\ Looping("accept") /\ run[loop] /\ ~Closed
  /\ \E c \in waiting : conn' = c /\ waiting' = waiting \ {c}
  /\ i' = 1 /\ dpc' = "scan"
  /\ UNCHANGED <<tvars, main, m, taken, served, refused>>

\* Mutant: the loop over the pool goes one too far.
SkipPast ==
  /\ Looping("scan") /\ i \in 1..threadNum + 1
  /\ i > threadNum \/ ~Ready(i)
  /\ i' = i + 1
  /\ UNCHANGED <<tvars, main, m, dpc, conn, waiting, taken, served, refused>>

\* No worker is free, or one was and has not started.
Skip ==
  /\ Looping("scan") /\ i \in Worker /\ ~Ready(i)
  /\ i' = i + 1
  /\ UNCHANGED <<tvars, main, m, dpc, conn, waiting, taken, served, refused>>

RunTask ==
  /\ Looping("scan") /\ i \in Worker /\ Take(i)
  /\ dpc' = "input"
  /\ UNCHANGED <<main, m, conn, i, waiting, taken, served, refused>>

SetInput ==
  /\ Looping("input") /\ SetTask(i, conn)
  /\ taken' = [taken EXCEPT ![conn] = i]
  /\ dpc' = "unlock"
  /\ UNCHANGED <<main, m, conn, i, waiting, served, refused>>

Unlock ==
  /\ Looping("unlock") /\ UnlockTask(i)
  /\ dpc' = "accept"
  /\ UNCHANGED <<main, m, conn, i, waiting, taken, served, refused>>

Refuse ==
  /\ Looping("scan") /\ i \notin Worker
  /\ refused' = refused \cup {conn}
  /\ dpc' = "accept"
  /\ UNCHANGED <<tvars, main, m, conn, i, waiting, taken, served>>

LoopEnd ==
  /\ Move(loop, "loop", "ended") /\ dpc = "accept" /\ ~run[loop]
  /\ UNCHANGED <<this, run, task, marks, dead, main, m, served, dispatcher>>

-----------------------------------------------------------------------------
Main ==
  Construct \/ StartLoop \/ Serve \/ StopLoop \/ LoopJoined \/ DestroyLock \/ StopWorker
  \/ WorkerJoined
MainLoop == Accept \/ Skip \/ RunTask \/ SetInput \/ Unlock \/ Refuse \/ LoopEnd

Next ==
  \/ Main \/ Leave \/ MainLoop
  \/ \E w \in Worker : Work(w) \/ Return(w) \/ UseDestroyed(w)
  \/ \E t \in Thread : Begin(t) \/ Interrupt(t)

\* Threads are scheduled; a dispatch may wait for ever (receive has no timeout),
\* and nobody has to stop the server.
Spec ==
  /\ Init /\ [][Next]_pvars /\ WF_pvars(Main) /\ WF_pvars(MainLoop)
  /\ \A w \in Worker : WF_pvars(Work(w))
  /\ \A t \in Thread : WF_pvars(Begin(t)) /\ WF_pvars(Interrupt(t))

-----------------------------------------------------------------------------
(* Properties.                                                             *)

\* Every variable keeps its type; a created thread's start is not over before the
\* thread has said so.
PoolTypeOK ==
  /\ ThreadTypeOK
  /\ \A w \in Worker : pc[w] \in {"none", "new", "named", "start", "first", "wait",
                                  "task", "free", "wipe", "ended"}
  /\ pc[loop] \in {"none", "new", "named", "start", "loop", "ended"}
  /\ main \in {"construct", "serve", "leave", "join", "destroy", "stop", "joinWorker"}
  /\ m \in 1..threadNum + 1
  /\ dpc \in {"accept", "scan", "input", "unlock"}
  /\ conn \in Task \cup {NoTask} /\ i \in 1..threadNum + 1
  /\ dpc \in {"input", "unlock"} => i \in Worker
  /\ dpc # "accept" => conn \in Task
  /\ waiting \subseteq Task /\ taken \in [Task -> Worker \cup {0}]
  /\ served \subseteq Task /\ refused \subseteq Task

\* Though nothing locks _free and the fields of the task, runTask never puts a
\* connection in the place of one that its worker has not been called with:
\* the worst a worker finds there is what it wiped itself.
NoOverwrite ==
  \A c \in Task : taken[c] # 0 /\ c \notin served => input[taken[c]] \in {c, NoTask}

\* A free worker is blocked in mainLoop until it is stopped: unlocks and locks of
\* _task_lock match, however they come, so that no worker calls dispatch again on
\* its own.
FreeBlocked ==
  \A w \in Worker : pc[w] = "wait" /\ free[w] /\ run[w] => lock[w] \/ gone[w]

\* A connection that runTask took is dispatched, unless its worker was unlocked
\* before threadFunc had locked, a worker that set _free too early wiped the
\* task it had been given and dispatches nothing at all, or the server stops.
TakenRuns ==
  \A c \in Task :
    taken[c] # 0 ~> c \in served \/ taken[c] \in missed \/ dead \/ Leaving

\* A server that stops comes to its end, unless a handler waits for ever or for
\* what was destroyed, or a thread was stopped before it had set _run or
\* unlocked before it had locked.
StopEnds ==
  Leaving ~> \/ Down \/ dead \/ missed \cup overtaken # {}
             \/ \E w \in Worker : pc[w] = "free"
=============================================================================
