------------------------------ MODULE RemoteAsk ------------------------------
(***************************************************************************)
(* BlockResolver::askRemoteBlock inside one process: pool threads that ask *)
(* the other machines for a block or send a message of their own, and the  *)
(* threads that handle the answers.  The asker locks _remote_ask_lock      *)
(* twice, so that the second lock waits for an unlock by an answer or by   *)
(* the timeout; _sig_lock lets one asker at a time do so.  In BlockStore   *)
(* the whole of it is the pair AskRemote, WaitEnd.                         *)
(***************************************************************************)
EXTENDS SocketConnect

CONSTANTS
  Ask,       \* BlockResolver::timeout
  Peer,      \* the machines of the routing table
  MaxCalls,  \* bound: asks and messages
  MaxSlow    \* bound: timers that end before what they are to end has begun

ASSUME AskAssumption ==
  Ask # Conn /\ Timer = {Ask, Conn} /\ IsFiniteSet(Peer) /\ MaxCalls \in Nat /\ MaxSlow \in Nat

VARIABLES
  togo,     \* the machines the asker's broadcast has still to reach
  sig,      \* who holds BlockResolver::_sig_lock
  ask,      \* _remote_ask_lock is locked
  this,     \* BlockResolver::_this is set
  answers,  \* answers on their way
  spoilt,   \* history: the asker's timer will not end its wait
  calls, slow

askVars == <<togo, sig, ask, this, answers, spoilt, calls, slow>>
avars == <<alarmVars, sockVars, askVars>>
held == <<back, turn, cthis, fd, owner, shut, dead>>

Init ==
  /\ AlarmInit /\ SocketInit("idle")
  /\ togo = {} /\ sig = NoThread
  /\ ask = FALSE /\ this = FALSE
  /\ answers = 0 /\ spoilt = FALSE
  /\ calls = 0 /\ slow = 0

-----------------------------------------------------------------------------
(* The asker.                                                              *)

Call(t) ==
  /\ Goto(t, "idle", "sig") /\ calls < MaxCalls
  /\ calls' = calls + 1
  /\ UNCHANGED <<alarmVars, held, togo, sig, ask, this, answers, spoilt, slow>>

LockSig(t) ==
  /\ Goto(t, "sig", "arm") /\ sig = NoThread
  /\ sig' = t /\ this' = TRUE /\ spoilt' = FALSE
  /\ UNCHANGED <<alarmVars, held, togo, ask, answers, calls, slow>>

\* DoopeyAlarm(timeout, waitRemote)
Arm(t) ==
  /\ Goto(t, "arm", "send") /\ SetAlarm(t, Ask)
  /\ togo' = Peer
  /\ UNCHANGED <<held, sig, ask, this, answers, spoilt, calls, slow>>

\* broadcast: sendTo one machine after the other.
SendTo(t) ==
  /\ Socket(t, "send")
  /\ \E p \in togo : togo' = togo \ {p}
  /\ UNCHANGED <<sig, ask, this, answers, spoilt, calls, slow>>

\* The machine has the block and will answer, or not.
Write(t) ==
  /\ GiveTurn(t)
  /\ answers' \in {answers} \cup (IF back[t] = "send" THEN {answers + 1} ELSE {})
  /\ UNCHANGED <<togo, sig, ask, this, spoilt, calls, slow>>

Sent(t) ==
  /\ Goto(t, "send", "lock1") /\ togo = {}
  /\ UNCHANGED <<alarmVars, held, askVars>>

Lock(t) ==
  /\ Goto(t, "lock1", "lock2") \/ Goto(t, "lock2", "unlock")
  /\ ~ask /\ ask' = TRUE
  /\ UNCHANGED <<alarmVars, held, togo, sig, this, answers, spoilt, calls, slow>>

\* Mutant: the waiter leaves the lock as it got it.
UnlockSkipped(t) ==
  /\ Goto(t, "unlock", "disarm")
  /\ UNCHANGED <<alarmVars, held, askVars>>

Unlock(t) ==
  /\ Goto(t, "unlock", "disarm") /\ ask' = FALSE
  /\ UNCHANGED <<alarmVars, held, togo, sig, this, answers, spoilt, calls, slow>>

\* Mutant: the timer is left to itself once the wait is over.
DisarmForgotten(t) ==
  /\ Goto(t, "disarm", "release")
  /\ UNCHANGED <<alarmVars, held, askVars>>

\* DoopeyAlarm(timeout, 0)
Disarm(t) ==
  /\ Goto(t, "disarm", "release") /\ ClearAlarm(t, Ask)
  /\ UNCHANGED <<held, askVars>>

\* Mutant: the asker returns with _sig_lock held.
ReleaseForgotten(t) ==
  /\ Goto(t, "release", "idle") /\ this' = FALSE
  /\ UNCHANGED <<alarmVars, held, togo, sig, ask, answers, spoilt, calls, slow>>

\* ... and the caller looks for the block among the remote ids.
Release(t) ==
  /\ Goto(t, "release", "idle") /\ sig' = NoThread /\ this' = FALSE
  /\ UNCHANGED <<alarmVars, held, togo, ask, answers, spoilt, calls, slow>>

-----------------------------------------------------------------------------
(* Other messages, answers, timers.                                        *)

\* Router::sendTo on its own.
SendOther(t) ==
  /\ Socket(t, "idle") /\ calls < MaxCalls
  /\ calls' = calls + 1
  /\ UNCHANGED <<togo, sig, ask, this, answers, spoilt, slow>>

\* handleRequestBlockLocationACK: the answer to any ask ends the present one.
HandleAnswer ==
  /\ ~dead /\ answers > 0
  /\ answers' = answers - 1 /\ ask' = FALSE
  /\ UNCHANGED <<alarmVars, sockVars, togo, sig, this, spoilt, calls, slow>>

\* The asker has armed its timer, and nothing has ended its wait.
Waits ==
  \E t \in Thread : sig = t /\ \/ pc[t] \notin {"arm", "lock2", "unlock", "disarm", "release"}
                               \/ pc[t] = "lock2" /\ ask

\* BlockResolver::timeout: by now the asker may be gone, and another there.
AskTimeout(c) ==
  /\ ~dead /\ Called(c, Ask)
  /\ IF this THEN ask' = FALSE /\ UNCHANGED dead ELSE dead' = TRUE /\ UNCHANGED ask
  /\ UNCHANGED <<pc, back, turn, cthis, fd, owner, shut, togo, sig, this, answers, spoilt,
                 calls, slow>>

\* The handler takes the asker's timer away, or gives it up.
FinishHandler(c) ==
  /\ ~dead /\ Finish(c)
  /\ spoilt' = (spoilt \/ (Waits /\ Ask \in entries /\ (Ask \notin entries' \/ lost' # lost)))
  /\ UNCHANGED <<sockVars, togo, sig, ask, this, answers, calls, slow>>

\* waitRemote is over, late in a wait or before it; a connect takes a second.
Elapses(f) ==
  /\ ~dead /\ Elapse(f)
  /\ IF f = Ask /\ \E t \in Thread : sig = t /\ pc[t] \in {"lock2", "unlock", "disarm"}
     THEN UNCHANGED slow ELSE slow < MaxSlow /\ slow' = slow + 1
  /\ UNCHANGED <<sockVars, togo, sig, ask, this, answers, spoilt, calls>>

Rings == ~dead /\ Ring /\ UNCHANGED <<sockVars, askVars>>

Handler(c) ==
  \/ ~dead /\ Look(c) /\ UNCHANGED <<sockVars, askVars>>
  \/ Timeout(c) /\ UNCHANGED askVars
  \/ AskTimeout(c) \/ FinishHandler(c)

-----------------------------------------------------------------------------
Asking(t) ==
  \/ LockSig(t) \/ Arm(t) \/ SendTo(t) \/ Write(t) \/ Sent(t) \/ Lock(t) \/ Unlock(t)
  \/ Disarm(t) \/ Release(t)
  \/ Connecting(t) /\ UNCHANGED askVars

Next ==
  \/ \E t \in Thread : Call(t) \/ SendOther(t) \/ Asking(t)
  \/ \E c \in Runs : Handler(c)
  \/ HandleAnswer \/ Rings \/ \E f \in Timer : Elapses(f)

\* Threads are scheduled, time passes and the alarm rings; answers may be lost.
Spec ==
  /\ Init /\ [][Next]_avars
  /\ \A t \in Thread : WF_avars(Asking(t))
  /\ \A c \in Runs : WF_avars(Handler(c))
  /\ WF_avars(Rings) /\ WF_avars(Elapses(Ask))

-----------------------------------------------------------------------------
(* Properties.                                                             *)

\* Every variable keeps its type; _sig_lock is held by whoever is past it.
AskTypeOK ==
  /\ AlarmTypeOK
  /\ SocketTypeOK({"idle", "sig", "arm", "send", "lock1", "lock2", "unlock", "disarm",
                   "release"})
  /\ togo \subseteq Peer /\ sig \in Thread \cup {NoThread}
  /\ \A t \in Thread : pc[t] \in {"arm", "send", "lock1", "lock2", "unlock", "disarm",
                                  "release"} => sig = t
  /\ sig # NoThread => pc[sig] \notin {"idle", "sig"}
  /\ ask \in BOOLEAN /\ this \in BOOLEAN /\ answers \in Nat /\ spoilt \in BOOLEAN
  /\ calls \in 0..MaxCalls /\ slow \in 0..MaxSlow

\* The first of the two locks never waits: however answers, timeouts and the
\* handler of an earlier ask interleave, an ask leaves _remote_ask_lock free
\* for the next one (askRemoteBlock locks twice and unlocks once itself).
FirstLockFree ==
  sig # NoThread /\ pc[sig] \notin {"lock2", "unlock", "disarm", "release"} => ~ask

\* alarmMap never keeps an entry for the asker's timeout without an asker, for whom
\* _this is set: only a handler that found the entry before it was erased can find
\* _this gone (askRemoteBlock cancels first, Socket::connect the other way round).
TimerHasAsker == Ask \in entries => this

\* Until a connect has been timed out, a thread's descriptor is its own from
\* socket to close: no thread writes into the connection of another or closes it.
SocketKept == \A t \in Thread : Uses(t) => owner[fd[t]] = t \/ shut

\* An ask ends, answered or not, unless the process crashed or its timer is lost
\* to it: rung before the wait began, erased by the handler of an earlier ask, or
\* alarm(0).
AskEndsUnlessSpoilt ==
  \A t \in Thread : pc[t] = "arm" ~> pc[t] = "release" \/ dead \/ spoilt
=============================================================================
