------------------------------- MODULE Channel -------------------------------
(***************************************************************************)
(* What send and receive of a Socket promise to their callers: messages    *)
(* arrive whole and in the order in which send returned true, and receive  *)
(* gives no message (NULL) only when the other end has closed and every    *)
(* message was received.  Once a length has been cut, nothing is promised. *)
(***************************************************************************)
EXTENDS Naturals, Sequences

CONSTANT N   \* the messages, 1..N, in the order of their sends

VARIABLES
  sent,      \* sends that returned true
  received,  \* what receive returned
  open,      \* the sender's end
  ended,     \* the receiver: "no", "null" for a NULL, "gone" without one
  broken     \* a length was cut

cvars == <<sent, received, open, ended, broken>>

Init == sent = 0 /\ received = <<>> /\ open = TRUE /\ ended = "no" /\ broken = FALSE

Send ==
  /\ open /\ sent < N
  /\ sent' = sent + 1
  /\ UNCHANGED <<received, open, ended, broken>>

Close == open' = FALSE /\ UNCHANGED <<sent, received, ended, broken>>

Receive ==
  /\ ended = "no"
  /\ \/ Len(received) < sent /\ received' = Append(received, Len(received) + 1)
     \/ broken /\ \E msg \in 0..N : received' = Append(received, msg)
  /\ UNCHANGED <<sent, open, ended, broken>>

Null ==
  /\ ended = "no"
  /\ broken \/ (~open /\ Len(received) = sent)
  /\ ended' = "null"
  /\ UNCHANGED <<sent, received, open, broken>>

Leave == ended = "no" /\ ended' = "gone" /\ UNCHANGED <<sent, received, open, broken>>

Break == broken' = TRUE /\ ended' \in {ended, "gone"} /\ UNCHANGED <<sent, received, open>>

Next == Send \/ Close \/ Receive \/ Null \/ Leave \/ Break

Spec == Init /\ [][Next]_cvars
=============================================================================
