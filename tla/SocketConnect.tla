---------------------------- MODULE SocketConnect ----------------------------
(***************************************************************************)
(* The life of a Socket that sends one message: socket, connect under a    *)
(* timer of one second, write, close.  Connects of a process take turns    *)
(* (Socket::_sig_lock); the timer closes the descriptor of whoever _this   *)
(* is.  Descriptors are numbers that the system gives out again.           *)
(***************************************************************************)
EXTENDS Alarm

CONSTANTS
  NoThread,
  Conn      \* Socket::timeout

ASSUME SocketAssumption == NoThread \notin Thread /\ Conn \in Timer

\* One for each thread is enough: a thread has one socket at a time.
Fd == 1..Cardinality(Thread)

VARIABLES
  pc,     \* pc[t]: where thread t is, in its own code
  back,   \* back[t]: where it goes on when its socket is closed
  turn,   \* who holds Socket::_sig_lock
  cthis,  \* Socket::_this: the thread whose socket it is
  fd,     \* fd[t]: _fd of its socket, 0 for none
  owner,  \* owner[n]: whose socket has descriptor n open
  shut,   \* history: timeout has closed a descriptor
  dead    \* the process crashed: a timeout called with no _this

sockVars == <<pc, back, turn, cthis, fd, owner, shut, dead>>

SocketInit(idle) ==
  /\ pc = [t \in Thread |-> idle] /\ back = [t \in Thread |-> idle]
  /\ turn = NoThread /\ cthis = NoThread
  /\ fd = [t \in Thread |-> 0] /\ owner = [n \in Fd |-> NoThread]
  /\ shut = FALSE /\ dead = FALSE

Goto(t, from, to) ==
  /\ ~dead /\ pc[t] = from /\ place[t] = "none"
  /\ pc' = [pc EXCEPT ![t] = to]

Open(n) == owner[n] # NoThread

\* Socket(ST_TCP): the lowest descriptor that is free.
Socket(t, from) ==
  /\ Goto(t, from, "turn")
  /\ \E n \in Fd :
       /\ ~Open(n) /\ \A k \in 1..n - 1 : Open(k)
       /\ fd' = [fd EXCEPT ![t] = n]
       /\ owner' = [owner EXCEPT ![n] = t]
  /\ back' = [back EXCEPT ![t] = from]
  /\ UNCHANGED <<turn, cthis, shut, dead, alarmVars>>

TakeTurn(t) ==
  /\ Goto(t, "turn", "timer") /\ turn = NoThread
  /\ turn' = t /\ cthis' = t
  /\ UNCHANGED <<back, fd, owner, shut, dead, alarmVars>>

StartTimer(t) ==
  /\ Goto(t, "timer", "connect") /\ SetAlarm(t, Conn)
  /\ UNCHANGED <<back, turn, cthis, fd, owner, shut, dead>>

\* ::connect comes back, whatever has become of its descriptor; _this = NULL.
Connect(t) ==
  /\ Goto(t, "connect", "stop")
  /\ cthis' = NoThread
  /\ UNCHANGED <<back, turn, fd, owner, shut, dead, alarmVars>>

StopTimer(t) ==
  /\ Goto(t, "stop", "give") /\ ClearAlarm(t, Conn)
  /\ UNCHANGED <<back, turn, cthis, fd, owner, shut, dead>>

\* ... and send, if connect succeeded.
GiveTurn(t) ==
  /\ Goto(t, "give", "close") /\ turn' = NoThread
  /\ UNCHANGED <<back, cthis, fd, owner, shut, dead, alarmVars>>

\* Mutant: close leaves _fd as it was, for ~Socket to close again.
CloseKeeps(t) ==
  /\ Goto(t, "close", "destroy")
  /\ owner' = [owner EXCEPT ![fd[t]] = NoThread]
  /\ UNCHANGED <<back, turn, cthis, fd, shut, dead, alarmVars>>

\* close closes the number, whose ever it is by now.
Close(t) ==
  /\ Goto(t, "close", "destroy")
  /\ owner' = [owner EXCEPT ![fd[t]] = NoThread]
  /\ fd' = [fd EXCEPT ![t] = 0]
  /\ UNCHANGED <<back, turn, cthis, shut, dead, alarmVars>>

\* ~Socket
Destroy(t) ==
  /\ Goto(t, "destroy", back[t])
  /\ owner' = IF fd[t] = 0 THEN owner ELSE [owner EXCEPT ![fd[t]] = NoThread]
  /\ fd' = [fd EXCEPT ![t] = 0]
  /\ UNCHANGED <<back, turn, cthis, shut, dead, alarmVars>>

\* Socket::timeout closes the descriptor of whoever connects by now, and leaves
\* _fd as it is.
Timeout(c) ==
  /\ ~dead
  /\ Called(c, Conn)
  /\ IF cthis = NoThread
     THEN dead' = TRUE /\ UNCHANGED <<owner, shut>>
     ELSE /\ owner' = [owner EXCEPT ![fd[cthis]] = NoThread]
          /\ shut' = TRUE /\ UNCHANGED dead
  /\ UNCHANGED <<pc, back, turn, cthis, fd>>

Connecting(t) ==
  \/ TakeTurn(t) \/ StartTimer(t) \/ Connect(t) \/ StopTimer(t)
  \/ Close(t) \/ Destroy(t)

\* Between socket and close: not yet closed by its thread.
Uses(t) == pc[t] \in {"turn", "timer", "connect", "stop", "give", "close"}

SocketTypeOK(places) ==
  /\ pc \in [Thread -> places \cup {"turn", "timer", "connect", "stop", "give",
                                    "close", "destroy"}]
  /\ back \in [Thread -> places]
  /\ turn \in Thread \cup {NoThread} /\ cthis \in {NoThread, turn}
  /\ fd \in [Thread -> Fd \cup {0}] /\ owner \in [Fd -> Thread \cup {NoThread}]
  /\ \A t \in Thread : Uses(t) => fd[t] # 0
  /\ shut \in BOOLEAN /\ dead \in BOOLEAN
=============================================================================
