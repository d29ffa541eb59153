-------------------------------- MODULE Alarm --------------------------------
(***************************************************************************)
(* DoopeyAlarm: the timers of a process share one alarm().  alarmHandler   *)
(* goes through the map of timers, calls what is due, erases what it       *)
(* called and sets alarm() for the next.  It runs in the thread SIGALRM    *)
(* interrupts and in every thread that sets or cancels a timer, with       *)
(* nothing locked.                                                         *)
(***************************************************************************)
EXTENDS Integers, FiniteSets, Sequences

CONSTANTS
  Thread,   \* the pool threads
  Signal,   \* the thread that SIGALRM interrupts
  Order,    \* the functions timers are set for, as the map sorts their addresses
  MaxLost   \* bound: alarm(0) calls, the second having passed in between

ASSUME AlarmAssumption == Signal \notin Thread /\ Order \in Seq(STRING) /\ MaxLost \in Nat

Runs == Thread \cup {Signal}
Timer == {Order[n] : n \in DOMAIN Order}

VARIABLES
  entries,  \* alarmMap
  due,      \* those of them whose time has come
  os,       \* the process has an alarm pending
  place,    \* place[c]: where alarmHandler is on c: "none", "look" or the timer it calls
  look,     \* look[c]: the number of the timers it has looked at
  todo,     \* todo[c]: those it called
  next,     \* next[c]: those it found not due
  lost

alarmVars == <<entries, due, os, place, look, todo, next, lost>>
handling == <<place, look, todo, next>>

AlarmInit ==
  /\ entries = {} /\ due = {} /\ os = FALSE
  /\ place = [c \in Runs |-> "none"]
  /\ look = [c \in Runs |-> 0] /\ todo = [c \in Runs |-> {}] /\ next = [c \in Runs |-> {}]
  /\ lost = 0

Handle(c, to) ==
  /\ place' = [place EXCEPT ![c] = to]
  /\ look' = [look EXCEPT ![c] = 0]
  /\ todo' = [todo EXCEPT ![c] = {}]
  /\ next' = [next EXCEPT ![c] = {}]

-----------------------------------------------------------------------------
(* DoopeyAlarm(f, sec)                                                     *)

\* sec > 0
SetAlarm(c, f) ==
  /\ entries' = entries \cup {f} /\ due' = due \ {f}
  /\ os' = FALSE /\ Handle(c, "look")
  /\ UNCHANGED lost

\* sec = 0: a timer that is not there is none to cancel.
ClearAlarm(c, f) ==
  \/ f \notin entries /\ UNCHANGED alarmVars
  \/ /\ f \in entries
     /\ entries' = entries \ {f} /\ due' = due \ {f}
     /\ os' = FALSE /\ Handle(c, "look")
     /\ UNCHANGED lost

-----------------------------------------------------------------------------
(* Time and alarmHandler.                                                  *)

\* A timer's second comes.
Elapse(f) ==
  /\ f \in entries \ due
  /\ due' = due \cup {f}
  /\ UNCHANGED <<entries, os, handling, lost>>

\* SIGALRM.  One that comes before its time, for a timer cancelled since, only
\* sets the alarm again and is left out.
Ring ==
  /\ os /\ (due # {} \/ entries = {}) /\ place[Signal] = "none"
  /\ os' = FALSE /\ Handle(Signal, "look")
  /\ UNCHANGED <<entries, due, lost>>

\* The next timer of the map.
Upcoming(c) == {n \in look[c] + 1..Len(Order) : Order[n] \in entries}

Look(c) ==
  /\ place[c] = "look"
  /\ \E n \in Upcoming(c) :
       /\ \A k \in Upcoming(c) : n <= k
       /\ look' = [look EXCEPT ![c] = n]
       /\ IF Order[n] \in due THEN place' = [place EXCEPT ![c] = Order[n]] /\ UNCHANGED next
                           ELSE next' = [next EXCEPT ![c] = @ \cup {Order[n]}] /\ UNCHANGED place
  /\ UNCHANGED <<entries, due, os, todo, lost>>

\* The function returns.
Called(c, f) ==
  /\ place[c] = f
  /\ place' = [place EXCEPT ![c] = "look"]
  /\ todo' = [todo EXCEPT ![c] = @ \cup {f}]
  /\ UNCHANGED <<entries, due, os, look, next, lost>>

\* Mutant: the timers that are not due are left to themselves.
FinishNoNext(c) ==
  /\ place[c] = "look" /\ Upcoming(c) = {}
  /\ entries' = entries \ todo[c] /\ due' = due \ todo[c]
  /\ Handle(c, "none")
  /\ UNCHANGED <<os, lost>>

\* What was called is erased by name, whoever has set it by now; then alarm() for
\* what is left, or another round if its time came meanwhile.  alarm(0), when it
\* comes between the test and the call, is no alarm.
Finish(c) ==
  /\ place[c] = "look" /\ Upcoming(c) = {}
  /\ entries' = entries \ todo[c]
  /\ LET left == due \ todo[c] IN
     \/ next[c] = {} /\ due' = left /\ Handle(c, "none") /\ UNCHANGED <<os, lost>>
     \/ next[c] \cap left # {} /\ due' = left /\ Handle(c, "look") /\ UNCHANGED <<os, lost>>
     \/ /\ next[c] # {} /\ next[c] \cap left = {}
        /\ Handle(c, "none")
        /\ \/ os' = TRUE /\ due' = left /\ UNCHANGED lost
           \/ /\ lost < MaxLost /\ lost' = lost + 1 /\ os' = FALSE
              /\ \E f \in next[c] : due' = left \cup ({f} \cap entries')

AlarmTypeOK ==
  /\ entries \subseteq Timer /\ due \subseteq entries /\ os \in BOOLEAN
  /\ place \in [Runs -> {"none", "look"} \cup Timer]
  /\ look \in [Runs -> 0..Len(Order)] /\ todo \in [Runs -> SUBSET Timer]
  /\ next \in [Runs -> SUBSET Timer] /\ lost \in 0..MaxLost
=============================================================================
