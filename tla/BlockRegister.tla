---------------------------- MODULE BlockRegister ----------------------------
(***************************************************************************)
(* What the block layer promises its callers, without replicas, caches,    *)
(* routes or messages: a saved block can be read, with what was saved or   *)
(* not at all, from any machine until its deletion is accepted.  A block   *)
(* of a deleted id may still be read while copies of it linger, and its id *)
(* may be given out again.                                                 *)
(***************************************************************************)
EXTENDS Integers

CONSTANTS Block, Reader, Torn

VARIABLES saved,    \* how often the block of an id was saved, its content
          gone,     \* ids whose deletion was accepted
          answer    \* what a reader was given and has not taken: 0 is nothing

rvars == <<saved, gone, answer>>

None == -2

RInit ==
  /\ saved = [b \in Block |-> 0]
  /\ gone = {}
  /\ answer = [r \in Reader |-> None]

\* A new block gets an id nobody reads under, unless it was deleted before.
SaveBlock(b) ==
  /\ saved[b] = 0 \/ b \in gone
  /\ saved' = [saved EXCEPT ![b] = @ + 1]
  /\ UNCHANGED <<gone, answer>>

AcceptDelete(b) ==
  /\ gone' = gone \cup {b}
  /\ UNCHANGED <<saved, answer>>

\* Only a read that a crash of the writer cut short may see a torn block.
Answers(b) ==
  {0, saved[b], Torn} \cup (IF b \in gone THEN 0..saved[b] ELSE {})

Read(r, b) ==
  /\ answer[r] = None /\ saved[b] > 0
  /\ \E v \in Answers(b) : answer' = [answer EXCEPT ![r] = v]
  /\ UNCHANGED <<saved, gone>>

\* The reader takes its block, or dies with it.
Take(R) ==
  /\ answer' = [r \in Reader |-> IF r \in R THEN None ELSE answer[r]]
  /\ UNCHANGED <<saved, gone>>

RNext ==
  \/ \E b \in Block : SaveBlock(b) \/ AcceptDelete(b)
                      \/ \E r \in Reader : Read(r, b)
  \/ \E R \in SUBSET Reader : Take(R)

RSpec == RInit /\ [][RNext]_rvars
=============================================================================
