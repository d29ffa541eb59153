---------------------------- MODULE SocketStream ----------------------------
(***************************************************************************)
(* Socket::send and Socket::receive over one TCP connection: a length,     *)
(* then the data in slices, by write and read calls that may take fewer    *)
(* bytes than asked.  Every call for the length asks for all of its bytes, *)
(* also when some are there already.                                       *)
(***************************************************************************)
EXTENDS Naturals, Sequences

CONSTANTS
  W,         \* sizeof(uint64_t)
  sliceSize,
  Length,    \* Length[k]: the bytes of message k
  Room,      \* bytes the connection holds
  MaxJunk    \* bound on a length made of other bytes

N == Len(Length)

ASSUME StreamAssumption ==
  /\ W \in Nat \ {0} /\ sliceSize \in Nat \ {0} /\ Room \in Nat \ {0} /\ MaxJunk \in Nat
  /\ Length \in Seq(Nat \ {0})

VARIABLES
  place,   \* the sender is in the "len" or "data" of send, "idle", or it closed
  count,   \* send's count
  sent,    \* sends that returned true: it is at the next
  wire,    \* bytes written and not read
  at,      \* the receiver is in the "len" or "data" of receive, or it ended
  len,     \* receive's len
  buf,     \* the bytes of len, then of data, that were read: count of them
  got,     \* what receive returned: k, or 0 if it is none of the messages
  torn     \* history: a length was written or read past its end

svars == <<place, count, sent, wire, at, len, buf, got, torn>>
sender == <<place, count, sent>>
receiver == <<at, len, buf, got>>

\* A byte is the message and the place in it, the length in front; what lies past
\* the variable in memory is none of them.
Byte(k, p) == <<k, p>>
Junk == Byte(0, 0)
Bytes(k, from, to) == [p \in 1..to - from |-> Byte(k, from + p)]

Smaller(a, b) == IF a < b THEN a ELSE b

\* Mutant: a slice is written and read past the end of the message.
SliceWhole(n, of) == sliceSize

Slice(n, of) == IF n + sliceSize > of THEN of - n ELSE sliceSize

Init ==
  /\ place = "idle" /\ count = 0 /\ sent = 0 /\ wire = <<>>
  /\ at = "len" /\ len = 0 /\ buf = <<>> /\ got = <<>> /\ torn = FALSE

-----------------------------------------------------------------------------
(* send                                                                    *)

Send ==
  /\ place = "idle" /\ sent < N
  /\ place' = "len" /\ count' = 0
  /\ UNCHANGED <<sent, wire, receiver, torn>>

\* write takes at least one byte and as many as there is room for.
Write(n, bytes) ==
  /\ n \in 1..Smaller(Len(bytes), Room - Len(wire))
  /\ wire' = wire \o SubSeq(bytes, 1, n)

\* W bytes from &len + count.
LengthBytes == Bytes(sent + 1, count, W) \o [p \in 1..count |-> Junk]

\* Mutant: send is content with what the first write has taken.
WriteLengthOnce ==
  /\ place = "len"
  /\ \E n \in 1..W : Write(n, LengthBytes)
  /\ place' = "data" /\ count' = 0
  /\ UNCHANGED <<sent, receiver, torn>>

WriteLength ==
  /\ place = "len"
  /\ \E n \in 1..W :
       /\ Write(n, LengthBytes)
       /\ torn' = (torn \/ count + n > W)
       /\ IF count + n < W THEN count' = count + n /\ UNCHANGED place
                           ELSE count' = 0 /\ place' = "data"
  /\ UNCHANGED <<sent, receiver>>

WriteData ==
  /\ place = "data"
  /\ LET k == sent + 1
         size == Slice(count, Length[k])
     IN \E n \in 1..size :
          /\ Write(n, Bytes(k, W + count, W + count + size))
          /\ IF count + n < Length[k] THEN count' = count + n /\ UNCHANGED <<place, sent>>
                                      ELSE count' = 0 /\ place' = "idle" /\ sent' = k
  /\ UNCHANGED <<receiver, torn>>

Ended == at \in {"null", "gone"}

\* The sender closes, is killed in the middle, or write fails: nobody reads.
Close ==
  /\ place # "closed"
  /\ place' = "closed"
  /\ UNCHANGED <<count, sent, wire, receiver, torn>>

WriteFails == place \in {"len", "data"} /\ Ended /\ Close

-----------------------------------------------------------------------------
(* receive                                                                 *)

Read(n) ==
  /\ n \in 1..Len(wire)
  /\ wire' = SubSeq(wire, n + 1, Len(wire))

\* What W bytes mean as a length.
Meant(bytes) ==
  LET of == {k \in 1..N : bytes = Bytes(k, 0, W)}
  IN IF of = {} THEN 0..MaxJunk ELSE {Length[k] : k \in of}

\* Mutant: one more read when the length is there.
ReadLengthMore ==
  /\ at = "len"
  /\ \E n \in 1..W :
       /\ Read(n)
       /\ LET bytes == buf \o SubSeq(wire, 1, n)
          IN IF Len(bytes) <= W
             THEN buf' = bytes /\ UNCHANGED <<at, len>>
             ELSE len' \in Meant(SubSeq(bytes, 1, W)) /\ buf' = <<>> /\ at' = "data"
  /\ UNCHANGED <<sender, got, torn>>

\* W bytes to &len + count: what comes past the variable lands in the stack.
ReadLength ==
  /\ at = "len"
  /\ \E n \in 1..W :
       /\ Read(n)
       /\ LET bytes == buf \o SubSeq(wire, 1, n)
          IN IF Len(bytes) < W
             THEN buf' = bytes /\ UNCHANGED <<at, len, torn>>
             ELSE /\ len' \in Meant(SubSeq(bytes, 1, W))
                  /\ buf' = <<>>
                  /\ torn' = (torn \/ Len(bytes) > W)
                  /\ at' \in {"data"} \cup (IF Len(bytes) > W THEN {"gone"} ELSE {})
  /\ UNCHANGED <<sender, got>>

Message(bytes) ==
  LET of == {k \in 1..N : bytes = Bytes(k, W, W + Length[k])}
  IN IF of = {} THEN 0 ELSE CHOOSE k \in of : TRUE

ReadData ==
  /\ at = "data"
  /\ \E n \in 1..Slice(Len(buf), len) :
       /\ Read(n)
       /\ LET bytes == buf \o SubSeq(wire, 1, n)
          IN IF Len(bytes) < len
             THEN buf' = bytes /\ UNCHANGED <<at, got>>
             ELSE buf' = <<>> /\ at' = "len" /\ got' = Append(got, Message(bytes))
  /\ UNCHANGED <<sender, len, torn>>

\* read returns 0: nothing was asked for, or the other end has closed.
ReadNothing ==
  /\ \/ at = "data" /\ len = 0
     \/ at \in {"len", "data"} /\ wire = <<>> /\ place = "closed"
  /\ at' = "null"
  /\ UNCHANGED <<sender, wire, len, buf, got, torn>>

\* The receiver is killed, or closes.
Leave ==
  /\ ~Ended /\ at' = "gone"
  /\ UNCHANGED <<sender, wire, len, buf, got, torn>>

-----------------------------------------------------------------------------
Next ==
  \/ Send \/ WriteLength \/ WriteData \/ Close \/ WriteFails
  \/ ReadLength \/ ReadData \/ ReadNothing \/ Leave

\* A send that has begun goes on, and a receiver reads; nobody has to send or close.
Spec ==
  /\ Init /\ [][Next]_svars
  /\ WF_svars(WriteLength \/ WriteData \/ WriteFails)
  /\ WF_svars(ReadLength \/ ReadData \/ ReadNothing)

-----------------------------------------------------------------------------
(* Properties.                                                             *)

\* Every variable keeps its type; what was read of a message is never more than
\* there is room for.
StreamTypeOK ==
  /\ place \in {"idle", "len", "data", "closed"} /\ count \in Nat /\ sent \in 0..N
  /\ Len(wire) <= Room /\ at \in {"len", "data", "null", "gone"} /\ len \in Nat
  /\ at = "len" => Len(buf) < W
  /\ at = "data" => Len(buf) <= len
  /\ got \in Seq(0..N) /\ torn \in BOOLEAN

Promise == INSTANCE Channel WITH
  received <- got, open <- place # "closed", broken <- torn,
  ended <- IF Ended THEN at ELSE "no"

\* However the bytes of a message are cut into writes and reads, send and receive
\* keep the promise of Channel, as long as no length was written or read past its
\* end: whole messages in order, and no NULL while one is left.
ImplementsChannel == Promise!Spec

\* What was sent is received, unless a length was torn (and both may then wait for
\* bytes that never come) or the receiver leaves.
SentArrives == \A n \in 1..N : sent >= n ~> Len(got) >= n \/ torn \/ at = "gone"
=============================================================================
