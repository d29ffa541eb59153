--------------------------- MODULE RemoteAskProofs ---------------------------
(***************************************************************************)
(* Proofs about RemoteAsk, for any number of threads and machines: its     *)
(* types, that the first lock of an ask is free, that the asker's timer    *)
(* has an asker, and that a socket keeps its descriptor until a timeout.   *)
(***************************************************************************)
EXTENDS RemoteAsk, TLAPS

Idles == {"idle", "sig", "arm", "send", "lock1", "lock2", "unlock", "disarm", "release"}
Sockets == {"turn", "timer", "connect", "stop", "give", "close", "destroy"}

\* t is past _sig_lock, also while its broadcast sends.
Asks(t) ==
  \/ pc[t] \in {"arm", "send", "lock1", "lock2", "unlock", "disarm", "release"}
  \/ pc[t] \in Sockets /\ back[t] = "send"

Places ==
  /\ pc \in [Thread -> Idles \cup Sockets] /\ back \in [Thread -> Idles]
  /\ turn \in Thread \cup {NoThread} /\ cthis \in Thread \cup {NoThread}
  /\ sig \in Thread \cup {NoThread}
  /\ fd \in [Thread -> Fd \cup {0}] /\ owner \in [Fd -> Thread \cup {NoThread}]
Flags ==
  /\ ask \in BOOLEAN /\ this \in BOOLEAN /\ spoilt \in BOOLEAN
  /\ shut \in BOOLEAN /\ dead \in BOOLEAN
Counts ==
  togo \subseteq Peer /\ answers \in Nat /\ calls \in 0..MaxCalls /\ slow \in 0..MaxSlow

\* Who has what, by where it is.
Held ==
  /\ \A t \in Thread :
       /\ Asks(t) <=> sig = t
       /\ pc[t] \in Sockets => back[t] \in {"idle", "send"}
       /\ pc[t] \in {"timer", "connect", "stop", "give"} <=> turn = t
       /\ cthis = t => pc[t] \in {"timer", "connect"}
       /\ Uses(t) => fd[t] # 0
       /\ pc[t] = "destroy" => fd[t] = 0
  /\ sig # NoThread => this

\* _remote_ask_lock is taken between the two locks and the unlock, and the timer is
\* set between its two calls.
Locked == ask => sig # NoThread /\ pc[sig] \in {"lock2", "unlock"}
Armed ==
  Ask \in entries =>
    sig # NoThread /\ pc[sig] \in {"send", "lock1", "lock2", "unlock", "disarm"} \cup Sockets

Inv ==
  AlarmTypeOK /\ Places /\ Flags /\ Counts /\ Held /\ Locked /\ Armed /\ SocketKept

LEMMA InvImplies == Inv => AskTypeOK /\ FirstLockFree /\ TimerHasAsker /\ SocketKept
<1> SUFFICES ASSUME Inv PROVE AskTypeOK /\ FirstLockFree /\ TimerHasAsker /\ SocketKept
  OBVIOUS
<1>1. cthis \in {NoThread, turn}
  BY DEF Inv, Places, Held
<1>2. /\ \A t \in Thread : pc[t] \in {"arm", "send", "lock1", "lock2", "unlock", "disarm",
                                     "release"} => sig = t
      /\ sig # NoThread => pc[sig] \notin {"idle", "sig"}
  BY DEF Inv, Places, Held, Asks, Sockets
<1>3. SocketTypeOK({"idle", "sig", "arm", "send", "lock1", "lock2", "unlock", "disarm",
                    "release"})
  BY <1>1 DEF SocketTypeOK, Inv, Places, Held, Flags, Idles, Sockets
<1>4. AskTypeOK
  BY <1>2, <1>3 DEF AskTypeOK, Inv, Places, Flags, Counts
<1>5. FirstLockFree
  BY DEF FirstLockFree, Inv, Locked
<1>6. TimerHasAsker
  BY DEF TimerHasAsker, Inv, Armed, Held
<1> QED
  BY <1>4, <1>5, <1>6 DEF Inv

LEMMA InitInv == Init => Inv
<1> SUFFICES ASSUME Init PROVE Inv
  OBVIOUS
<1> USE DEF Init, AlarmInit, SocketInit
<1>1. AlarmTypeOK
  <2>1. Len(Order) \in Nat /\ MaxLost \in Nat
    BY AlarmAssumption
  <2>2. place \in [Runs -> {"none", "look"} \cup Timer] /\ look \in [Runs -> 0..Len(Order)]
    BY <2>1
  <2>3. todo \in [Runs -> SUBSET Timer] /\ next \in [Runs -> SUBSET Timer]
    OBVIOUS
  <2>4. os \in BOOLEAN /\ entries \subseteq Timer /\ due \subseteq entries
    OBVIOUS
  <2>5. lost \in 0..MaxLost
    BY <2>1
  <2> QED
    BY <2>2, <2>3, <2>4, <2>5 DEF AlarmTypeOK
<1>2. Places
  BY DEF Places, Idles
<1>3. Flags
  BY DEF Flags
<1>4. Counts
  BY AskAssumption DEF Counts
<1>5. Held
  BY SocketAssumption DEF Held, Asks, Sockets, Uses
<1>6. Locked /\ Armed /\ SocketKept
  BY DEF Locked, Armed, SocketKept, Uses
<1> QED
  BY <1>1, <1>2, <1>3, <1>4, <1>5, <1>6 DEF Inv

-----------------------------------------------------------------------------
(* The timers' types.                                                      *)

AlarmStep ==
  \/ \E c \in Runs : Look(c) \/ Finish(c)
  \/ \E c \in Runs, f \in Timer : SetAlarm(c, f) \/ ClearAlarm(c, f) \/ Called(c, f) \/ Elapse(f)
  \/ Ring \/ UNCHANGED alarmVars

LEMMA HandleTypes ==
  ASSUME AlarmTypeOK, NEW c \in Runs, NEW to \in {"none", "look"}, Handle(c, to)
  PROVE  /\ place' \in [Runs -> {"none", "look"} \cup Timer]
         /\ look' \in [Runs -> 0..Len(Order)] /\ todo' \in [Runs -> SUBSET Timer]
         /\ next' \in [Runs -> SUBSET Timer]
<1>1. 0 \in 0..Len(Order)
  BY AlarmAssumption
<1> QED
  BY <1>1 DEF AlarmTypeOK, Handle

LEMMA AlarmTypes == ASSUME AlarmTypeOK, AlarmStep PROVE AlarmTypeOK'
<1>0. Len(Order) \in Nat /\ MaxLost \in Nat
  BY AlarmAssumption
<1>1. ASSUME NEW c \in Runs, Look(c) PROVE AlarmTypeOK'
  <2>1. PICK n \in Upcoming(c) :
          /\ look' = [look EXCEPT ![c] = n]
          /\ IF Order[n] \in due
             THEN place' = [place EXCEPT ![c] = Order[n]] /\ UNCHANGED next
             ELSE next' = [next EXCEPT ![c] = @ \cup {Order[n]}] /\ UNCHANGED place
    BY <1>1 DEF Look
  <2>2. n \in 0..Len(Order) /\ Order[n] \in Timer
    BY <1>0, <2>1 DEF Upcoming, AlarmTypeOK, Timer
  <2> QED
    BY <1>1, <2>1, <2>2 DEF AlarmTypeOK, Look
<1>2. ASSUME NEW c \in Runs, Finish(c) PROVE AlarmTypeOK'
  <2>0. entries' = entries \ todo[c]
    BY <1>2 DEF Finish
  <2>1. entries' \subseteq Timer /\ due' \subseteq entries'
    BY <1>2, <2>0 DEF Finish, AlarmTypeOK
  <2>3. lost' \in 0..MaxLost
    BY <1>0, <1>2 DEF Finish, AlarmTypeOK
  <2>4. os' \in BOOLEAN
    BY <1>2 DEF Finish, AlarmTypeOK
  <2>2. \E to \in {"none", "look"} : Handle(c, to)
    BY <1>2 DEF Finish
  <2> QED
    BY <2>1, <2>2, <2>3, <2>4, HandleTypes DEF AlarmTypeOK
<1>3. ASSUME NEW c \in Runs, NEW f \in Timer, SetAlarm(c, f) PROVE AlarmTypeOK'
  BY <1>3, HandleTypes DEF SetAlarm, AlarmTypeOK
<1>4. ASSUME NEW c \in Runs, NEW f \in Timer, ClearAlarm(c, f) PROVE AlarmTypeOK'
  BY <1>4, HandleTypes DEF ClearAlarm, AlarmTypeOK, alarmVars, handling
<1>5. ASSUME NEW c \in Runs, NEW f \in Timer, Called(c, f) PROVE AlarmTypeOK'
  BY <1>5 DEF Called, AlarmTypeOK
<1>6. ASSUME NEW f \in Timer, Elapse(f) PROVE AlarmTypeOK'
  BY <1>6 DEF Elapse, AlarmTypeOK, handling
<1>7. CASE Ring
  <2>1. Signal \in Runs
    BY DEF Runs
  <2> QED
    BY <1>7, <2>1, HandleTypes DEF Ring, AlarmTypeOK
<1>8. CASE UNCHANGED alarmVars
  BY <1>8 DEF alarmVars, handling, AlarmTypeOK
<1> QED
  BY <1>1, <1>2, <1>3, <1>4, <1>5, <1>6, <1>7, <1>8 DEF AlarmStep
-----------------------------------------------------------------------------
(* The steps of the asker, of sockets and of the alarm handler.            *)

LEMMA StepInv == Inv /\ [Next]_avars => Inv'
<1> SUFFICES ASSUME Inv, [Next]_avars PROVE Inv'
  OBVIOUS
<1> USE AskAssumption, SocketAssumption
<1>0. \A n \in Fd : n # 0
  BY DEF Fd
<1>1. ASSUME NEW t \in Thread, Call(t) PROVE Inv'
  <2>1. Places' /\ Counts'
    BY <1>1 DEF Inv, Places, Counts, Held, Idles, Sockets, Call, Goto, held, alarmVars
  <2>2. Flags'
    BY <1>1 DEF Inv, Flags, Call, Goto, held, alarmVars
  <2>3. Held'
    BY <1>1 DEF Inv, Places, Held, Asks, Uses, Idles, Sockets, Call, Goto, held,
       alarmVars
  <2>4. Locked' /\ Armed'
    BY <1>1 DEF Inv, Places, Held, Asks, Locked, Armed, Idles, Sockets, Call, Goto,
       held, alarmVars
  <2>5. SocketKept'
    BY <1>1 DEF Inv, Places, Held, SocketKept, Uses, Idles, Sockets, Call, Goto, held,
       alarmVars
  <2>6. AlarmStep
    BY <1>1 DEF AlarmStep, Runs, Call, held, alarmVars
  <2> QED
    BY <2>1, <2>2, <2>3, <2>4, <2>5, <2>6, AlarmTypes DEF Inv
<1>2. ASSUME NEW t \in Thread, LockSig(t) PROVE Inv'
  <2>1. Places' /\ Counts'
    BY <1>2 DEF Inv, Places, Counts, Held, Idles, Sockets, LockSig, Goto, held,
       alarmVars
  <2>2. Flags'
    BY <1>2 DEF Inv, Flags, LockSig, Goto, held, alarmVars
  <2>3. Held'
    BY <1>2 DEF Inv, Places, Held, Asks, Uses, Idles, Sockets, LockSig, Goto, held,
       alarmVars
  <2>4. Locked' /\ Armed'
    BY <1>2 DEF Inv, Places, Held, Asks, Locked, Armed, Idles, Sockets, LockSig, Goto,
       held, alarmVars
  <2>5. SocketKept'
    BY <1>2 DEF Inv, Places, Held, SocketKept, Uses, Idles, Sockets, LockSig, Goto,
       held, alarmVars
  <2>6. AlarmStep
    BY <1>2 DEF AlarmStep, Runs, LockSig, held, alarmVars
  <2> QED
    BY <2>1, <2>2, <2>3, <2>4, <2>5, <2>6, AlarmTypes DEF Inv
<1>3. ASSUME NEW t \in Thread, Arm(t) PROVE Inv'
  <2>1. Places' /\ Counts'
    BY <1>3 DEF Inv, Places, Counts, Held, Idles, Sockets, Arm, Goto, held, SetAlarm
  <2>2. Flags'
    BY <1>3 DEF Inv, Flags, Arm, Goto, held, SetAlarm
  <2>3. Held'
    BY <1>3 DEF Inv, Places, Held, Asks, Uses, Idles, Sockets, Arm, Goto, held, SetAlarm
  <2>4. Locked' /\ Armed'
    BY <1>3 DEF Inv, Places, Held, Asks, Locked, Armed, Idles, Sockets, Arm, Goto, held,
       SetAlarm
  <2>5. SocketKept'
    BY <1>3 DEF Inv, Places, Held, SocketKept, Uses, Idles, Sockets, Arm, Goto, held,
       SetAlarm
  <2>6. AlarmStep
    BY <1>3 DEF AlarmStep, Runs, Arm, held
  <2> QED
    BY <2>1, <2>2, <2>3, <2>4, <2>5, <2>6, AlarmTypes DEF Inv
<1>4. ASSUME NEW t \in Thread, SendTo(t) PROVE Inv'
  <2>1. Places' /\ Counts'
    BY <1>4 DEF Inv, Places, Counts, Held, Idles, Sockets, SendTo, Socket, Open, Goto,
       alarmVars
  <2>2. Flags'
    BY <1>4 DEF Inv, Flags, SendTo, Socket, Open, Goto, alarmVars
  <2>3. Held'
    BY <1>0, <1>4 DEF Inv, Places, Held, Asks, Uses, Idles, Sockets, SendTo, Socket,
       Open, Goto, alarmVars
  <2>4. Locked' /\ Armed'
    BY <1>4 DEF Inv, Places, Held, Asks, Locked, Armed, Idles, Sockets, SendTo, Socket,
       Open, Goto, alarmVars
  <2>5. SocketKept'
    BY <1>4 DEF Inv, Places, Held, SocketKept, Uses, Idles, Sockets, SendTo, Socket,
       Open, Goto, alarmVars
  <2>6. AlarmStep
    BY <1>4 DEF AlarmStep, Runs, SendTo, Socket, alarmVars
  <2> QED
    BY <2>1, <2>2, <2>3, <2>4, <2>5, <2>6, AlarmTypes DEF Inv
<1>5. ASSUME NEW t \in Thread, Write(t) PROVE Inv'
  <2>1. Places' /\ Counts'
    BY <1>5 DEF Inv, Places, Counts, Held, Idles, Sockets, Write, GiveTurn, Goto,
       alarmVars
  <2>2. Flags'
    BY <1>5 DEF Inv, Flags, Write, GiveTurn, Goto, alarmVars
  <2>3. Held'
    BY <1>5 DEF Inv, Places, Held, Asks, Uses, Idles, Sockets, Write, GiveTurn, Goto,
       alarmVars
  <2>4. Locked' /\ Armed'
    BY <1>5 DEF Inv, Places, Held, Asks, Locked, Armed, Idles, Sockets, Write, GiveTurn,
       Goto, alarmVars
  <2>5. SocketKept'
    BY <1>5 DEF Inv, Places, Held, SocketKept, Uses, Idles, Sockets, Write, GiveTurn,
       Goto, alarmVars
  <2>6. AlarmStep
    BY <1>5 DEF AlarmStep, Runs, Write, GiveTurn, alarmVars
  <2> QED
    BY <2>1, <2>2, <2>3, <2>4, <2>5, <2>6, AlarmTypes DEF Inv
<1>6. ASSUME NEW t \in Thread, Sent(t) PROVE Inv'
  <2>1. Places' /\ Counts'
    BY <1>6 DEF Inv, Places, Counts, Held, Idles, Sockets, Sent, Goto, held, alarmVars,
       askVars
  <2>2. Flags'
    BY <1>6 DEF Inv, Flags, Sent, Goto, held, alarmVars, askVars
  <2>3. Held'
    BY <1>6 DEF Inv, Places, Held, Asks, Uses, Idles, Sockets, Sent, Goto, held,
       alarmVars, askVars
  <2>4. Locked' /\ Armed'
    BY <1>6 DEF Inv, Places, Held, Asks, Locked, Armed, Idles, Sockets, Sent, Goto,
       held, alarmVars, askVars
  <2>5. SocketKept'
    BY <1>6 DEF Inv, Places, Held, SocketKept, Uses, Idles, Sockets, Sent, Goto, held,
       alarmVars, askVars
  <2>6. AlarmStep
    BY <1>6 DEF AlarmStep, Runs, Sent, held, alarmVars
  <2> QED
    BY <2>1, <2>2, <2>3, <2>4, <2>5, <2>6, AlarmTypes DEF Inv
<1>7. ASSUME NEW t \in Thread, Lock(t) PROVE Inv'
  <2>1. Places' /\ Counts'
    BY <1>7 DEF Inv, Places, Counts, Held, Idles, Sockets, Lock, Goto, held, alarmVars
  <2>2. Flags'
    BY <1>7 DEF Inv, Flags, Lock, Goto, held, alarmVars
  <2>3. Held'
    BY <1>7 DEF Inv, Places, Held, Asks, Uses, Idles, Sockets, Lock, Goto, held,
       alarmVars
  <2>4. Locked' /\ Armed'
    BY <1>7 DEF Inv, Places, Held, Asks, Locked, Armed, Idles, Sockets, Lock, Goto,
       held, alarmVars
  <2>5. SocketKept'
    BY <1>7 DEF Inv, Places, Held, SocketKept, Uses, Idles, Sockets, Lock, Goto, held,
       alarmVars
  <2>6. AlarmStep
    BY <1>7 DEF AlarmStep, Runs, Lock, held, alarmVars
  <2> QED
    BY <2>1, <2>2, <2>3, <2>4, <2>5, <2>6, AlarmTypes DEF Inv
<1>8. ASSUME NEW t \in Thread, Unlock(t) PROVE Inv'
  <2>1. Places' /\ Counts'
    BY <1>8 DEF Inv, Places, Counts, Held, Idles, Sockets, Unlock, Goto, held, alarmVars
  <2>2. Flags'
    BY <1>8 DEF Inv, Flags, Unlock, Goto, held, alarmVars
  <2>3. Held'
    BY <1>8 DEF Inv, Places, Held, Asks, Uses, Idles, Sockets, Unlock, Goto, held,
       alarmVars
  <2>4. Locked' /\ Armed'
    BY <1>8 DEF Inv, Places, Held, Asks, Locked, Armed, Idles, Sockets, Unlock, Goto,
       held, alarmVars
  <2>5. SocketKept'
    BY <1>8 DEF Inv, Places, Held, SocketKept, Uses, Idles, Sockets, Unlock, Goto, held,
       alarmVars
  <2>6. AlarmStep
    BY <1>8 DEF AlarmStep, Runs, Unlock, held, alarmVars
  <2> QED
    BY <2>1, <2>2, <2>3, <2>4, <2>5, <2>6, AlarmTypes DEF Inv
<1>9. ASSUME NEW t \in Thread, Disarm(t) PROVE Inv'
  <2>1. Places' /\ Counts'
    BY <1>9 DEF Inv, Places, Counts, Held, Idles, Sockets, Disarm, Goto, held,
       ClearAlarm, alarmVars, askVars
  <2>2. Flags'
    BY <1>9 DEF Inv, Flags, Disarm, Goto, held, ClearAlarm, alarmVars, askVars
  <2>3. Held'
    BY <1>9 DEF Inv, Places, Held, Asks, Uses, Idles, Sockets, Disarm, Goto, held,
       ClearAlarm, alarmVars, askVars
  <2>4. Locked' /\ Armed'
    BY <1>9 DEF Inv, Places, Held, Asks, Locked, Armed, Idles, Sockets, Disarm, Goto,
       held, ClearAlarm, alarmVars, askVars
  <2>5. SocketKept'
    BY <1>9 DEF Inv, Places, Held, SocketKept, Uses, Idles, Sockets, Disarm, Goto, held,
       ClearAlarm, alarmVars, askVars
  <2>6. AlarmStep
    BY <1>9 DEF AlarmStep, Runs, Disarm, held, alarmVars
  <2> QED
    BY <2>1, <2>2, <2>3, <2>4, <2>5, <2>6, AlarmTypes DEF Inv
<1>10. ASSUME NEW t \in Thread, Release(t) PROVE Inv'
  <2>1. Places' /\ Counts'
    BY <1>10 DEF Inv, Places, Counts, Held, Idles, Sockets, Release, Goto, held,
       alarmVars
  <2>2. Flags'
    BY <1>10 DEF Inv, Flags, Release, Goto, held, alarmVars
  <2>3. Held'
    BY <1>10 DEF Inv, Places, Held, Asks, Uses, Idles, Sockets, Release, Goto, held,
       alarmVars
  <2>4. Locked' /\ Armed'
    BY <1>10 DEF Inv, Places, Held, Asks, Locked, Armed, Idles, Sockets, Release, Goto,
       held, alarmVars
  <2>5. SocketKept'
    BY <1>10 DEF Inv, Places, Held, SocketKept, Uses, Idles, Sockets, Release, Goto,
       held, alarmVars
  <2>6. AlarmStep
    BY <1>10 DEF AlarmStep, Runs, Release, held, alarmVars
  <2> QED
    BY <2>1, <2>2, <2>3, <2>4, <2>5, <2>6, AlarmTypes DEF Inv
<1>11. ASSUME NEW t \in Thread, SendOther(t) PROVE Inv'
  <2>1. Places' /\ Counts'
    BY <1>11 DEF Inv, Places, Counts, Held, Idles, Sockets, SendOther, Socket, Open,
       Goto, alarmVars
  <2>2. Flags'
    BY <1>11 DEF Inv, Flags, SendOther, Socket, Open, Goto, alarmVars
  <2>3. Held'
    BY <1>0, <1>11 DEF Inv, Places, Held, Asks, Uses, Idles, Sockets, SendOther, Socket,
       Open, Goto, alarmVars
  <2>4. Locked' /\ Armed'
    BY <1>11 DEF Inv, Places, Held, Asks, Locked, Armed, Idles, Sockets, SendOther,
       Socket, Open, Goto, alarmVars
  <2>5. SocketKept'
    BY <1>11 DEF Inv, Places, Held, SocketKept, Uses, Idles, Sockets, SendOther, Socket,
       Open, Goto, alarmVars
  <2>6. AlarmStep
    BY <1>11 DEF AlarmStep, Runs, SendOther, Socket, alarmVars
  <2> QED
    BY <2>1, <2>2, <2>3, <2>4, <2>5, <2>6, AlarmTypes DEF Inv
<1>12. ASSUME NEW t \in Thread, TakeTurn(t) /\ UNCHANGED askVars PROVE Inv'
  <2>1. Places' /\ Counts'
    BY <1>12 DEF Inv, Places, Counts, Held, Idles, Sockets, TakeTurn, Goto, alarmVars,
       askVars
  <2>2. Flags'
    BY <1>12 DEF Inv, Flags, TakeTurn, Goto, alarmVars, askVars
  <2>3. Held'
    BY <1>12 DEF Inv, Places, Held, Asks, Uses, Idles, Sockets, TakeTurn, Goto,
       alarmVars, askVars
  <2>4. Locked' /\ Armed'
    BY <1>12 DEF Inv, Places, Held, Asks, Locked, Armed, Idles, Sockets, TakeTurn, Goto,
       alarmVars, askVars
  <2>5. SocketKept'
    BY <1>12 DEF Inv, Places, Held, SocketKept, Uses, Idles, Sockets, TakeTurn, Goto,
       alarmVars, askVars
  <2>6. AlarmStep
    BY <1>12 DEF AlarmStep, Runs, TakeTurn, alarmVars
  <2> QED
    BY <2>1, <2>2, <2>3, <2>4, <2>5, <2>6, AlarmTypes DEF Inv
<1>13. ASSUME NEW t \in Thread, StartTimer(t) /\ UNCHANGED askVars PROVE Inv'
  <2>1. Places' /\ Counts'
    BY <1>13 DEF Inv, Places, Counts, Held, Idles, Sockets, StartTimer, Goto, SetAlarm,
       askVars
  <2>2. Flags'
    BY <1>13 DEF Inv, Flags, StartTimer, Goto, SetAlarm, askVars
  <2>3. Held'
    BY <1>13 DEF Inv, Places, Held, Asks, Uses, Idles, Sockets, StartTimer, Goto,
       SetAlarm, askVars
  <2>4. Locked' /\ Armed'
    BY <1>13 DEF Inv, Places, Held, Asks, Locked, Armed, Idles, Sockets, StartTimer,
       Goto, SetAlarm, askVars
  <2>5. SocketKept'
    BY <1>13 DEF Inv, Places, Held, SocketKept, Uses, Idles, Sockets, StartTimer, Goto,
       SetAlarm, askVars
  <2>6. AlarmStep
    BY <1>13 DEF AlarmStep, Runs, StartTimer
  <2> QED
    BY <2>1, <2>2, <2>3, <2>4, <2>5, <2>6, AlarmTypes DEF Inv
<1>14. ASSUME NEW t \in Thread, Connect(t) /\ UNCHANGED askVars PROVE Inv'
  <2>1. Places' /\ Counts'
    BY <1>14 DEF Inv, Places, Counts, Held, Idles, Sockets, Connect, Goto, alarmVars,
       askVars
  <2>2. Flags'
    BY <1>14 DEF Inv, Flags, Connect, Goto, alarmVars, askVars
  <2>3. Held'
    BY <1>14 DEF Inv, Places, Held, Asks, Uses, Idles, Sockets, Connect, Goto,
       alarmVars, askVars
  <2>4. Locked' /\ Armed'
    BY <1>14 DEF Inv, Places, Held, Asks, Locked, Armed, Idles, Sockets, Connect, Goto,
       alarmVars, askVars
  <2>5. SocketKept'
    BY <1>14 DEF Inv, Places, Held, SocketKept, Uses, Idles, Sockets, Connect, Goto,
       alarmVars, askVars
  <2>6. AlarmStep
    BY <1>14 DEF AlarmStep, Runs, Connect, alarmVars
  <2> QED
    BY <2>1, <2>2, <2>3, <2>4, <2>5, <2>6, AlarmTypes DEF Inv
<1>15. ASSUME NEW t \in Thread, StopTimer(t) /\ UNCHANGED askVars PROVE Inv'
  <2>1. Places' /\ Counts'
    BY <1>15 DEF Inv, Places, Counts, Held, Idles, Sockets, StopTimer, Goto, ClearAlarm,
       alarmVars, askVars
  <2>2. Flags'
    BY <1>15 DEF Inv, Flags, StopTimer, Goto, ClearAlarm, alarmVars, askVars
  <2>3. Held'
    BY <1>15 DEF Inv, Places, Held, Asks, Uses, Idles, Sockets, StopTimer, Goto,
       ClearAlarm, alarmVars, askVars
  <2>4. Locked' /\ Armed'
    BY <1>15 DEF Inv, Places, Held, Asks, Locked, Armed, Idles, Sockets, StopTimer,
       Goto, ClearAlarm, alarmVars, askVars
  <2>5. SocketKept'
    BY <1>15 DEF Inv, Places, Held, SocketKept, Uses, Idles, Sockets, StopTimer, Goto,
       ClearAlarm, alarmVars, askVars
  <2>6. AlarmStep
    BY <1>15 DEF AlarmStep, Runs, StopTimer, alarmVars
  <2> QED
    BY <2>1, <2>2, <2>3, <2>4, <2>5, <2>6, AlarmTypes DEF Inv
<1>16. ASSUME NEW t \in Thread, Close(t) /\ UNCHANGED askVars PROVE Inv'
  <2>1. Places' /\ Counts'
    BY <1>16 DEF Inv, Places, Counts, Held, Idles, Sockets, Close, Goto, alarmVars,
       askVars
  <2>2. Flags'
    BY <1>16 DEF Inv, Flags, Close, Goto, alarmVars, askVars
  <2>3. Held'
    BY <1>16 DEF Inv, Places, Held, Asks, Uses, Idles, Sockets, Close, Goto, alarmVars,
       askVars
  <2>4. Locked' /\ Armed'
    BY <1>16 DEF Inv, Places, Held, Asks, Locked, Armed, Idles, Sockets, Close, Goto,
       alarmVars, askVars
  <2>5. SocketKept'
    BY <1>16 DEF Inv, Places, Held, SocketKept, Uses, Idles, Sockets, Close, Goto,
       alarmVars, askVars
  <2>6. AlarmStep
    BY <1>16 DEF AlarmStep, Runs, Close, alarmVars
  <2> QED
    BY <2>1, <2>2, <2>3, <2>4, <2>5, <2>6, AlarmTypes DEF Inv
<1>17. ASSUME NEW t \in Thread, Destroy(t) /\ UNCHANGED askVars PROVE Inv'
  <2>1. Places' /\ Counts'
    BY <1>17 DEF Inv, Places, Counts, Held, Idles, Sockets, Destroy, Goto, alarmVars,
       askVars
  <2>2. Flags'
    BY <1>17 DEF Inv, Flags, Destroy, Goto, alarmVars, askVars
  <2>3. Held'
    BY <1>17 DEF Inv, Places, Held, Asks, Uses, Idles, Sockets, Destroy, Goto,
       alarmVars, askVars
  <2>4. Locked' /\ Armed'
    BY <1>17 DEF Inv, Places, Held, Asks, Locked, Armed, Idles, Sockets, Destroy, Goto,
       alarmVars, askVars
  <2>5. SocketKept'
    BY <1>17 DEF Inv, Places, Held, SocketKept, Uses, Idles, Sockets, Destroy, Goto,
       alarmVars, askVars
  <2>6. AlarmStep
    BY <1>17 DEF AlarmStep, Runs, Destroy, alarmVars
  <2> QED
    BY <2>1, <2>2, <2>3, <2>4, <2>5, <2>6, AlarmTypes DEF Inv
<1>18. ASSUME NEW c \in Runs, Look(c) /\ UNCHANGED <<sockVars, askVars>> PROVE Inv'
  <2>1. Places' /\ Counts'
    BY <1>18 DEF Inv, Places, Counts, Held, Idles, Sockets, Look, sockVars, askVars
  <2>2. Flags'
    BY <1>18 DEF Inv, Flags, Look, sockVars, askVars
  <2>3. Held'
    BY <1>18 DEF Inv, Places, Held, Asks, Uses, Idles, Sockets, Look, sockVars, askVars
  <2>4. Locked' /\ Armed'
    BY <1>18 DEF Inv, Places, Held, Asks, Locked, Armed, Idles, Sockets, Look, sockVars,
       askVars
  <2>5. SocketKept'
    BY <1>18 DEF Inv, Places, Held, SocketKept, Uses, Idles, Sockets, Look, sockVars,
       askVars
  <2>6. AlarmStep
    BY <1>18 DEF AlarmStep, Runs, Look
  <2> QED
    BY <2>1, <2>2, <2>3, <2>4, <2>5, <2>6, AlarmTypes DEF Inv
<1>19. ASSUME NEW c \in Runs, Timeout(c) /\ UNCHANGED askVars PROVE Inv'
  <2>1. Places' /\ Counts'
    BY <1>19 DEF Inv, Places, Counts, Held, Idles, Sockets, Timeout, Called, askVars
  <2>2. Flags'
    BY <1>19 DEF Inv, Flags, Timeout, Called, askVars
  <2>3. Held'
    BY <1>19 DEF Inv, Places, Held, Asks, Uses, Idles, Sockets, Timeout, Called, askVars
  <2>4. Locked' /\ Armed'
    BY <1>19 DEF Inv, Places, Held, Asks, Locked, Armed, Idles, Sockets, Timeout,
       Called, askVars
  <2>5. SocketKept'
    BY <1>19 DEF Inv, Places, Held, SocketKept, Uses, Idles, Sockets, Timeout, Called,
       askVars
  <2>6. AlarmStep
    BY <1>19 DEF AlarmStep, Runs, Timeout
  <2> QED
    BY <2>1, <2>2, <2>3, <2>4, <2>5, <2>6, AlarmTypes DEF Inv
<1>20. ASSUME NEW c \in Runs, AskTimeout(c) PROVE Inv'
  <2>1. Places' /\ Counts'
    BY <1>20 DEF Inv, Places, Counts, Held, Idles, Sockets, AskTimeout, Called
  <2>2. Flags'
    BY <1>20 DEF Inv, Flags, AskTimeout, Called
  <2>3. Held'
    BY <1>20 DEF Inv, Places, Held, Asks, Uses, Idles, Sockets, AskTimeout, Called
  <2>4. Locked' /\ Armed'
    BY <1>20 DEF Inv, Places, Held, Asks, Locked, Armed, Idles, Sockets, AskTimeout,
       Called
  <2>5. SocketKept'
    BY <1>20 DEF Inv, Places, Held, SocketKept, Uses, Idles, Sockets, AskTimeout, Called
  <2>6. AlarmStep
    BY <1>20 DEF AlarmStep, Runs, AskTimeout
  <2> QED
    BY <2>1, <2>2, <2>3, <2>4, <2>5, <2>6, AlarmTypes DEF Inv
<1>21. ASSUME NEW c \in Runs, FinishHandler(c) PROVE Inv'
  <2>1. Places' /\ Counts'
    BY <1>21 DEF Inv, Places, Counts, Held, Idles, Sockets, FinishHandler, Finish,
       sockVars
  <2>2. Flags'
    BY <1>21 DEF Inv, Flags, FinishHandler, Finish, sockVars
  <2>3. Held'
    BY <1>21 DEF Inv, Places, Held, Asks, Uses, Idles, Sockets, FinishHandler, Finish,
       sockVars
  <2>4. Locked' /\ Armed'
    BY <1>21 DEF Inv, Places, Held, Asks, Locked, Armed, Idles, Sockets, FinishHandler,
       Finish, sockVars
  <2>5. SocketKept'
    BY <1>21 DEF Inv, Places, Held, SocketKept, Uses, Idles, Sockets, FinishHandler,
       Finish, sockVars
  <2>6. AlarmStep
    BY <1>21 DEF AlarmStep, Runs, FinishHandler
  <2> QED
    BY <2>1, <2>2, <2>3, <2>4, <2>5, <2>6, AlarmTypes DEF Inv
<1>22. CASE HandleAnswer
  <2>1. Places' /\ Counts'
    BY <1>22 DEF Inv, Places, Counts, Held, Idles, Sockets, HandleAnswer, alarmVars,
       sockVars
  <2>2. Flags'
    BY <1>22 DEF Inv, Flags, HandleAnswer, alarmVars, sockVars
  <2>3. Held'
    BY <1>22 DEF Inv, Places, Held, Asks, Uses, Idles, Sockets, HandleAnswer, alarmVars,
       sockVars
  <2>4. Locked' /\ Armed'
    BY <1>22 DEF Inv, Places, Held, Asks, Locked, Armed, Idles, Sockets, HandleAnswer,
       alarmVars, sockVars
  <2>5. SocketKept'
    BY <1>22 DEF Inv, Places, Held, SocketKept, Uses, Idles, Sockets, HandleAnswer,
       alarmVars, sockVars
  <2>6. AlarmStep
    BY <1>22 DEF AlarmStep, Runs, HandleAnswer, alarmVars
  <2> QED
    BY <2>1, <2>2, <2>3, <2>4, <2>5, <2>6, AlarmTypes DEF Inv
<1>23. CASE Rings
  <2>1. Places' /\ Counts'
    BY <1>23 DEF Inv, Places, Counts, Held, Idles, Sockets, Rings, Ring, sockVars,
       askVars
  <2>2. Flags'
    BY <1>23 DEF Inv, Flags, Rings, Ring, sockVars, askVars
  <2>3. Held'
    BY <1>23 DEF Inv, Places, Held, Asks, Uses, Idles, Sockets, Rings, Ring, sockVars,
       askVars
  <2>4. Locked' /\ Armed'
    BY <1>23 DEF Inv, Places, Held, Asks, Locked, Armed, Idles, Sockets, Rings, Ring,
       sockVars, askVars
  <2>5. SocketKept'
    BY <1>23 DEF Inv, Places, Held, SocketKept, Uses, Idles, Sockets, Rings, Ring,
       sockVars, askVars
  <2>6. AlarmStep
    BY <1>23 DEF AlarmStep, Runs, Rings
  <2> QED
    BY <2>1, <2>2, <2>3, <2>4, <2>5, <2>6, AlarmTypes DEF Inv
<1>24. ASSUME NEW f \in Timer, Elapses(f) PROVE Inv'
  <2>1. Places' /\ Counts'
    BY <1>24 DEF Inv, Places, Counts, Held, Idles, Sockets, Elapses, Elapse, sockVars
  <2>2. Flags'
    BY <1>24 DEF Inv, Flags, Elapses, Elapse, sockVars
  <2>3. Held'
    BY <1>24 DEF Inv, Places, Held, Asks, Uses, Idles, Sockets, Elapses, Elapse,
       sockVars
  <2>4. Locked' /\ Armed'
    BY <1>24 DEF Inv, Places, Held, Asks, Locked, Armed, Idles, Sockets, Elapses,
       Elapse, sockVars
  <2>5. SocketKept'
    BY <1>24 DEF Inv, Places, Held, SocketKept, Uses, Idles, Sockets, Elapses, Elapse,
       sockVars
  <2>6. AlarmStep
    BY <1>24 DEF AlarmStep, Runs, Elapses
  <2> QED
    BY <2>1, <2>2, <2>3, <2>4, <2>5, <2>6, AlarmTypes DEF Inv
<1>25. CASE UNCHANGED avars
  <2>1. Places' /\ Counts'
    BY <1>25 DEF Inv, Places, Counts, Held, Idles, Sockets, avars, alarmVars, sockVars,
       askVars
  <2>2. Flags'
    BY <1>25 DEF Inv, Flags, avars, alarmVars, sockVars, askVars
  <2>3. Held'
    BY <1>25 DEF Inv, Places, Held, Asks, Uses, Idles, Sockets, avars, alarmVars,
       sockVars, askVars
  <2>4. Locked' /\ Armed'
    BY <1>25 DEF Inv, Places, Held, Asks, Locked, Armed, Idles, Sockets, avars,
       alarmVars, sockVars, askVars
  <2>5. SocketKept'
    BY <1>25 DEF Inv, Places, Held, SocketKept, Uses, Idles, Sockets, avars, alarmVars,
       sockVars, askVars
  <2>6. AlarmStep
    BY <1>25 DEF AlarmStep, avars
  <2> QED
    BY <2>1, <2>2, <2>3, <2>4, <2>5, <2>6, AlarmTypes DEF Inv
<1> QED
  BY <1>1, <1>2, <1>3, <1>4, <1>5, <1>6, <1>7, <1>8, <1>9, <1>10, <1>11, <1>12, <1>13,
     <1>14, <1>15, <1>16, <1>17, <1>18, <1>19, <1>20, <1>21, <1>22, <1>23, <1>24, <1>25
     DEF Next, Asking, Connecting, Handler

\* The inductive invariant: who holds which lock, and what its place says.
THEOREM AlwaysInv == Spec => []Inv
<1> QED
  BY InitInv, StepInv, PTL DEF Spec

\* Of every number of threads: each variable keeps its type, and whoever is past
\* _sig_lock holds it.
THEOREM AskTypeCorrect == Spec => []AskTypeOK
<1> QED
  BY AlwaysInv, InvImplies, PTL

\* The first of askRemoteBlock's two locks never waits.
THEOREM FirstLockCorrect == Spec => []FirstLockFree
<1> QED
  BY AlwaysInv, InvImplies, PTL

\* The asker's timer is in alarmMap only while there is an asker.
THEOREM TimerCorrect == Spec => []TimerHasAsker
<1> QED
  BY AlwaysInv, InvImplies, PTL

\* A socket's descriptor is its own until a connect was timed out.
THEOREM SocketCorrect == Spec => []SocketKept
<1> QED
  BY AlwaysInv, InvImplies, PTL
=============================================================================
