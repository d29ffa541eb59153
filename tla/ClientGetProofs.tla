---------------------------- MODULE ClientGetProofs ----------------------------
(***************************************************************************)
(* Proofs about ClientGet, for any number of readers and blocks: its       *)
(* types, with file_size that never wraps, and that a file that was        *)
(* fetched is whole unless a reader failed after its result was read.      *)
(***************************************************************************)
EXTENDS ClientGet, TLAPS

Places == {"none", "new", "named", "start", "first", "wait", "task", "fetch", "store", "free",
           "wipe", "ended"}

\* w has told that it has the block, and is at work on it.
AtWork(w) == pc[w] \in {"fetch", "store"}

\* Readers are made and ended one at a time.
Making ==
  /\ pc \in [Worker -> Places]
  /\ main = "open" => m = 1 /\ \A w \in Worker : pc[w] = "none"
  /\ main = "make" => \A w \in Worker : /\ w < m => pc[w] \notin {"none", "new"}
                                        /\ w > m => pc[w] = "none"
  /\ main \notin {"open", "make"} => \A w \in Worker : pc[w] # "new"
  /\ main \in {"scan", "input", "unlock", "poll"} => m = 1
  /\ main \in {"stop", "join"} => m \in Worker

\* A file is answered for when every reader has ended.
Ending ==
  /\ answer => Freed
  /\ answer => \A w \in Worker : w < m \/ main = "done" => pc[w] = "ended"

\* The blocks whose size is settled; what a block holds; what is left from block k on.
Given == {b \in 1..blockNum : /\ main \notin {"open", "make"}
                              /\ main = "scan" => b < i
                              /\ main \in {"input", "unlock"} => b =< i}
Need(b) == Smaller(BlockSize, fileLength - (b - 1) * BlockSize)
Left(k) == LET d == fileLength - (k - 1) * BlockSize IN IF d < 0 THEN 0 ELSE d

Counting ==
  /\ main \in {"open", "make"} => i = 1 /\ fileSize = fileLength
  /\ main = "open" => fileLength = 0 /\ \A b \in Task : result[b] = 0
  /\ main = "scan" => fileSize = Left(i)
  /\ main \in {"input", "unlock"} => i =< blockNum /\ fileSize = Left(i + 1)

\* A reader is given a block after its size, and works on nothing else.
Sized ==
  /\ \A b \in Given : wsize[b] = Need(b)
  /\ \A w \in Worker : input[w] \in Given \cup {NoTask} /\ now[w] \in Given \cup {NoTask}
  /\ \A w \in Worker : AtWork(w) /\ ~dead => now[w] # NoTask

\* A result of 1 is true, will be, or was too early.
Begun ==
  \A b \in Task : result[b] = 1 =>
    Whole(b) \/ b \in late \/ \E w \in Worker : now[w] = b /\ AtWork(w)

Polled ==
  \A b \in 1..blockNum : (main = "poll" /\ b < i) \/ answer => result[b] = 1 \/ b \in late

Inv == GetTypeOK /\ Making /\ Ending /\ Counting /\ Sized /\ Begun /\ Polled

-----------------------------------------------------------------------------
(* Arithmetic: the blocks of a file and their sizes.                       *)

LEMMA Division ==
  ASSUME NEW a \in Nat, NEW b \in Nat \ {0}
  PROVE  a \div b \in Nat /\ (a \div b) * b <= a /\ a < (a \div b) * b + b
<1>1. a = b * (a \div b) + (a % b) /\ a \div b \in Int
  BY Z3
<1>2. a % b \in 0..b-1
  BY Z3
<1> QED
  BY <1>1, <1>2, Z3

LEMMA Times ==
  ASSUME NEW a \in Int, NEW c \in Int, NEW b \in Nat \ {0}, a < c
  PROVE  a * b \in Int /\ c * b \in Int /\ a * b + b <= c * b
<1>1. (c - a - 1) * b >= 0
  OBVIOUS
<1>2. (c - a - 1) * b = c * b - a * b - b
  OBVIOUS
<1> QED
  BY <1>1, <1>2

LEMMA Threads ==
  /\ threadNum \in Nat \ {0} /\ Worker = 1..threadNum /\ Thread = Worker
  /\ NoTask \notin Task /\ NoThread \notin Thread
  /\ BlockSize \in Nat \ {0} /\ MaxLength \in Nat
BY ThreadAssumption, GetAssumption DEF Thread

LEMMA BlocksBound ==
  ASSUME NEW length \in 0..MaxLength
  PROVE  /\ BlocksOf(length) \in Nat
         /\ BlocksOf(length) * BlockSize < length + BlockSize
         /\ length <= BlocksOf(length) * BlockSize
<1> DEFINE n == BlocksOf(length)
           p == n * BlockSize
<1>1. BlockSize \in Nat \ {0} /\ length \in Nat /\ length + BlockSize - 1 \in Nat
  BY Threads
<1>2. /\ n \in Nat /\ p <= length + BlockSize - 1
      /\ length + BlockSize - 1 < p + BlockSize
  BY <1>1, Division DEF BlocksOf
<1>3. p \in Int
  BY <1>1, <1>2
<1> HIDE DEF p
<1>4. p < length + BlockSize /\ length <= p
  BY <1>1, <1>2, <1>3
<1> QED
  BY <1>2, <1>4 DEF p

LEMMA Blocks ==
  ASSUME NEW length \in 0..MaxLength
  PROVE  /\ BlocksOf(length) \in Nat
         /\ 1..BlocksOf(length) \subseteq Task
         /\ length = 0 => BlocksOf(length) = 0
         /\ \A k \in 1..BlocksOf(length) :
              (k - 1) * BlockSize \in Int /\ (k - 1) * BlockSize < length
<1> DEFINE n == BlocksOf(length)
           N == BlocksOf(MaxLength)
<1>1. BlockSize \in Nat \ {0} /\ length \in Nat /\ length <= MaxLength /\ MaxLength \in 0..MaxLength
  BY Threads
<1>2. n \in Nat /\ n * BlockSize < length + BlockSize
  BY BlocksBound
<1>3. N \in Nat /\ MaxLength <= N * BlockSize
  BY <1>1, BlocksBound
<1> HIDE DEF n, N
<1>4. ASSUME NEW k \in 1..n
      PROVE  (k - 1) * BlockSize \in Int /\ (k - 1) * BlockSize < length
  <2> DEFINE q == (k - 1) * BlockSize
             p == n * BlockSize
             r == k * BlockSize
  <2>1. k \in Int /\ k - 1 \in Int /\ k - 1 < k /\ n \in Int /\ k <= n
    BY <1>2
  <2>2. q \in Int /\ r \in Int /\ q + BlockSize <= r
    BY <1>1, <2>1, Times
  <2>3. p \in Int /\ r <= p
    <3>1. CASE k = n
      BY <2>2, <3>1
    <3>2. CASE k < n
      <4>1. p \in Int /\ r + BlockSize <= p
        BY <1>1, <2>1, <3>2, Times
      <4> HIDE DEF p, r
      <4> QED
        BY <1>1, <2>2, <4>1
    <3> QED
      BY <2>1, <3>1, <3>2
  <2>4. p < length + BlockSize
    BY <1>2
  <2> HIDE DEF p, q, r
  <2>5. q < length
    BY <1>1, <2>2, <2>3, <2>4
  <2> QED
    BY <2>2, <2>5 DEF q
<1>5. length = 0 => n = 0
  <2> SUFFICES ASSUME length = 0, n # 0  PROVE FALSE
    OBVIOUS
  <2>1. 1 \in 1..n /\ (1 - 1) * BlockSize = 0
    BY <1>1, <1>2
  <2> QED
    BY <1>1, <1>4, <2>1
<1>6. n <= N
  <2> SUFFICES ASSUME N < n  PROVE FALSE
    BY <1>2, <1>3
  <2>1. N + 1 \in 1..n /\ (N + 1) - 1 = N
    BY <1>2, <1>3
  <2> DEFINE p == N * BlockSize
  <2>2. p \in Int /\ p < length
    BY <1>4, <2>1
  <2>3. MaxLength <= p
    BY <1>3
  <2> HIDE DEF p
  <2> QED
    BY <1>1, <2>2, <2>3, Threads
<1>7. 1..n \subseteq Task
  BY <1>2, <1>3, <1>6, GetAssumption DEF N
<1> QED
  BY <1>2, <1>4, <1>5, <1>7 DEF n

\* Giving block k its size leaves the size of what follows.
LEMMA Sizes ==
  ASSUME fileLength \in 0..MaxLength
  PROVE  /\ blockNum \in Nat /\ 1..blockNum \subseteq Task
         /\ fileLength = 0 => blockNum = 0
         /\ Left(1) = fileLength
         /\ \A k \in 1..blockNum :
              /\ Left(k) \in 0..fileLength /\ Left(k + 1) \in 0..fileLength
              /\ Need(k) = Smaller(Left(k), BlockSize) /\ Need(k) \in 0..BlockSize
              /\ Left(k + 1) = Left(k) - Need(k)
<1>1. BlockSize \in Nat \ {0} /\ fileLength \in Nat
  BY Threads
<1>2. /\ blockNum \in Nat /\ 1..blockNum \subseteq Task /\ (fileLength = 0 => blockNum = 0)
      /\ \A k \in 1..blockNum :
           (k - 1) * BlockSize \in Int /\ (k - 1) * BlockSize < fileLength
  BY Blocks DEF blockNum
<1>3. Left(1) = fileLength
  <2>1. (1 - 1) * BlockSize = 0
    BY <1>1
  <2> QED
    BY <1>1, <2>1 DEF Left
<1>4. ASSUME NEW k \in 1..blockNum
      PROVE  /\ Left(k) \in 0..fileLength /\ Left(k + 1) \in 0..fileLength
             /\ Need(k) = Smaller(Left(k), BlockSize) /\ Need(k) \in 0..BlockSize
             /\ Left(k + 1) = Left(k) - Need(k)
  <2> DEFINE q == (k - 1) * BlockSize
             r == ((k + 1) - 1) * BlockSize
  <2>1. k \in Int /\ k >= 1
    BY <1>2
  <2>2. q \in Int /\ q < fileLength
    BY <1>2
  <2>3. q >= 0 /\ r = q + BlockSize
    BY <1>1, <2>1
  <2>4. /\ Left(k) = IF fileLength - q < 0 THEN 0 ELSE fileLength - q
        /\ Left(k + 1) = IF fileLength - r < 0 THEN 0 ELSE fileLength - r
        /\ Need(k) = IF BlockSize < fileLength - q THEN BlockSize ELSE fileLength - q
    BY DEF Left, Need, Smaller
  <2> HIDE DEF q, r
  <2> QED
    BY <1>1, <2>2, <2>3, <2>4 DEF Smaller
<1> QED
  BY <1>2, <1>3, <1>4
-----------------------------------------------------------------------------
(* The readers.                                                            *)

\* What getFile alone changes.
mains == <<main, m, i, j, fileLength, fileSize, wsize, silent, skipped>>

LEMMA InitInv == Init => Inv
<1> SUFFICES ASSUME Init  PROVE Inv
  OBVIOUS
<1> USE Threads DEF Init, ThreadInit
<1>1. ThreadTypeOK
  BY DEF ThreadTypeOK
<1>2. blockNum = 0 /\ fileLength \in 0..MaxLength
  BY Sizes
<1>3. GetTypeOK
  <2>1. /\ wsize \in [Task -> 0..BlockSize] /\ file \in [Task -> 0..BlockSize]
        /\ result \in [Task -> {0, 1, -1}]
    OBVIOUS
  <2> QED
    <3>1. m \in 1..threadNum + 1 /\ i \in 1..blockNum + 1 /\ j \in Worker
      BY <1>2
    <3>2. fileSize \in 0..fileLength /\ silent \cup skipped \cup late \subseteq Task
      BY <1>2
    <3>3. main = "open" /\ answer \in BOOLEAN
      OBVIOUS
    <3> QED
      BY <1>1, <1>2, <2>1, <3>1, <3>2, <3>3 DEF GetTypeOK
<1>4. Making /\ Ending
  BY DEF Making, Ending, Places
<1>5. Counting
  BY DEF Counting
<1>6. Sized
  BY <1>2 DEF Sized, Given, AtWork
<1>7. Begun /\ Polled
  BY <1>2 DEF Begun, Polled
<1> QED
  BY <1>3, <1>4, <1>5, <1>6, <1>7 DEF Inv

\* A step of getFile's state alone keeps what it says of its blocks.
LEMMA SameBlocks ==
  ASSUME UNCHANGED fileLength
  PROVE  /\ blockNum' = blockNum
         /\ \A k \in Int : Left(k)' = Left(k) /\ Need(k)' = Need(k)
BY DEF blockNum, Left, Need

\* A step of a reader that is not at work on a block, before it or after it.
Moved(w) ==
  /\ UNCHANGED <<mains, result, answer, file, late>>
  /\ ThreadTypeOK'
  /\ \/ pc' = pc
     \/ /\ pc[w] \notin {"none", "ended"} /\ ~AtWork(w)
        /\ pc' = [pc EXCEPT ![w] = pc'[w]]
        /\ pc'[w] \in Places \ {"none", "new", "fetch", "store"}
  /\ \A v \in Worker :
       /\ input'[v] \in {input[v], NoTask} /\ now'[v] \in {now[v], input[v], NoTask}
       /\ AtWork(v) => now'[v] = now[v]
  /\ ~dead

LEMMA ThrMoves ==
  ASSUME Inv, NEW w \in Worker, Thr(w)
  PROVE  Moved(w)
<1> USE Threads
<1>0. /\ ThreadTypeOK /\ pc \in [Worker -> Places]
  BY DEF Inv, GetTypeOK, Making
<1>1. CASE SetState(w)
  BY <1>0, <1>1 DEF Thr, Moved, SetState, Move, ThreadTypeOK, AtWork, Places, task, marks,
     mains, givers, asked, written
<1>2. CASE CallRun(w)
  BY <1>0, <1>2 DEF Thr, Moved, CallRun, Move, ThreadTypeOK, AtWork, Places, task, marks,
     mains, givers, asked, written
<1>3. CASE Start(w, "first")
  BY <1>0, <1>3 DEF Thr, Moved, Start, Move, ThreadTypeOK, AtWork, Places, task, marks,
     mains, givers, asked, written
<1>4. CASE FirstLock(w)
  BY <1>0, <1>4 DEF Thr, Moved, FirstLock, Lock, Move, ThreadTypeOK, AtWork, Places, marks,
     mains, givers, asked, written
<1>5. CASE LoopLock(w)
  BY <1>0, <1>5 DEF Thr, Moved, LoopLock, Lock, Move, ThreadTypeOK, AtWork, Places, marks,
     mains, givers, asked, written
<1>6. CASE SetFree(w)
  BY <1>0, <1>6 DEF Thr, Moved, SetFree, Move, ThreadTypeOK, AtWork, Places, marks,
     mains, givers, asked, written
<1>7. CASE Wipe(w)
  BY <1>0, <1>7 DEF Thr, Moved, Wipe, Move, ThreadTypeOK, AtWork, Places, marks,
     mains, givers, asked, written
<1>8. CASE HandleStop(w)
  BY <1>0, <1>8 DEF Thr, Moved, HandleStop, ThreadTypeOK, AtWork, Places,
     mains, givers, asked, written
<1> QED
  BY <1>1, <1>2, <1>3, <1>4, <1>5, <1>6, <1>7, <1>8 DEF Thr

\* Making and Ending bear any step of a created reader.
LEMMA MakingKept ==
  ASSUME Inv, NEW w \in Worker, UNCHANGED <<main, m, answer>>,
         \/ pc' = pc
         \/ /\ pc[w] \notin {"none", "ended"} /\ pc' = [pc EXCEPT ![w] = pc'[w]]
            /\ pc'[w] \in Places \ {"none", "new"}
  PROVE  Making' /\ Ending'
<1>1. /\ pc' \in [Worker -> Places]
      /\ \A v \in Worker : /\ pc'[v] = "new" => pc[v] = "new"
                           /\ pc'[v] = "none" <=> pc[v] = "none"
                           /\ pc[v] = "ended" => pc'[v] = "ended"
  BY DEF Inv, Making
<1>2. Making'
  BY <1>1 DEF Inv, Making
<1>3. Ending'
  BY <1>1 DEF Inv, Ending, Freed
<1> QED
  BY <1>2, <1>3

LEMMA ThrInv ==
  ASSUME Inv, NEW w \in Worker, Thr(w)
  PROVE  Inv'
<1>0. Moved(w)
  BY ThrMoves
<1>1. GetTypeOK'
  BY <1>0 DEF Inv, GetTypeOK, Moved, mains, blockNum
<1>2. Making' /\ Ending'
  BY <1>0, MakingKept DEF Moved, mains
<1>3. Counting'
  BY <1>0 DEF Inv, Counting, Moved, mains, blockNum, Left
<1>4. Given' = Given /\ \A b : Need(b)' = Need(b)
  BY <1>0 DEF Given, Moved, mains, blockNum, Need
<1>5. \A v \in Worker : AtWork(v)' <=> AtWork(v)
  BY <1>0 DEF Moved, AtWork, Inv, Making
<1>6. Sized'
  <2>1. \A b \in Given : wsize'[b] = Need(b)
    BY <1>0 DEF Inv, Sized, Moved, mains
  <2>2. \A v \in Worker : input'[v] \in Given \cup {NoTask} /\ now'[v] \in Given \cup {NoTask}
    BY <1>0 DEF Inv, Sized, Moved
  <2>3. \A v \in Worker : AtWork(v) /\ ~dead' => now'[v] # NoTask
    BY <1>0 DEF Inv, Sized, Moved
  <2> QED
    BY <1>4, <1>5, <2>1, <2>2, <2>3 DEF Sized
<1>7. Begun'
  BY <1>0, <1>5 DEF Inv, Begun, Moved, mains, Whole
<1>8. Polled'
  BY <1>0 DEF Inv, Polled, Moved, mains, blockNum
<1> QED
  BY <1>1, <1>2, <1>3, <1>6, <1>7, <1>8 DEF Inv

\* A reader at work, or about to be.
LEMMA ReadThreads ==
  ASSUME Inv, NEW w \in Worker, Read(w) \/ FailBlock(w)
  PROVE  /\ UNCHANGED <<this, run, task, marks, mains, answer>> /\ ~dead /\ dead' \in BOOLEAN
         /\ pc[w] \in {"task", "fetch", "store"}
         /\ pc'[w] \in {"fetch", "store", "free"} /\ pc' = [pc EXCEPT ![w] = pc'[w]]
         /\ (pc'[w] # "free" => pc[w] = "fetch" \/ Read(w))
<1>1. pc \in [Worker -> Places] /\ dead \in BOOLEAN
  BY DEF Inv, Making, GetTypeOK, ThreadTypeOK
<1>2. CASE BeginBlock(w)
  BY <1>1, <1>2 DEF BeginBlock, Move, SetResult, mains, givers, asked, Read
<1>3. CASE Fetch(w)
  BY <1>1, <1>3 DEF Fetch, Move, mains, givers, asked, Read
<1>4. CASE Store(w)
  BY <1>1, <1>4 DEF Store, Move, mains, givers, asked, Read
<1>5. CASE FailBlock(w)
  BY <1>1, <1>5 DEF FailBlock, Move, SetResult, mains, givers, asked
<1> QED
  BY <1>2, <1>3, <1>4, <1>5 DEF Read

\* What a reader does to the results and the file.
LEMMA ReadBlock ==
  ASSUME Inv, NEW w \in Worker, Read(w) \/ FailBlock(w)
  PROVE  /\ result' \in [Task -> {0, 1, -1}] /\ file' \in [Task -> 0..BlockSize]
         /\ late' \subseteq Task /\ late \subseteq late'
         /\ AtWork(w)' /\ ~dead' => now[w] # NoTask
<1> USE Threads
<1>1. /\ pc \in [Worker -> Places] /\ result \in [Task -> {0, 1, -1}]
      /\ file \in [Task -> 0..BlockSize] /\ wsize \in [Task -> 0..BlockSize]
      /\ late \subseteq Task /\ ~dead /\ now[w] \in Task \cup {NoTask}
      /\ AtWork(w) => now[w] # NoTask
  BY ReadThreads DEF Inv, Making, GetTypeOK, ThreadTypeOK, Sized
<1>2. CASE BeginBlock(w)
  BY <1>1, <1>2 DEF BeginBlock, Move, SetResult
<1>3. CASE Fetch(w)
  BY <1>1, <1>3 DEF Fetch, Move, written, AtWork
<1>4. CASE Store(w)
  BY <1>1, <1>4 DEF Store, Move, AtWork
<1>5. CASE FailBlock(w)
  <2>1. AtWork(w) /\ pc'[w] = "free"
    BY <1>1, <1>5 DEF FailBlock, Move, AtWork
  <2>2. now[w] \in Task
    BY <1>1, <2>1
  <2>3. result' \in [Task -> {0, 1, -1}]
    BY <1>1, <1>5, <2>2 DEF FailBlock, SetResult
  <2>4. file' \in [Task -> 0..BlockSize]
    <3>1. wsize[now[w]] \in 0..BlockSize
      BY <1>1, <2>2
    <3>2. file' = file \/ \E k \in 0..wsize[now[w]] - 1 : file' = [file EXCEPT ![now[w]] = k]
      BY <1>5 DEF FailBlock
    <3>3. \A k \in 0..wsize[now[w]] - 1 : k \in 0..BlockSize
      BY <3>1
    <3> QED
      BY <1>1, <3>2, <3>3
  <2>5. late' \subseteq Task /\ late \subseteq late'
    BY <1>1, <1>5, <2>2 DEF FailBlock
  <2> QED
    BY <2>1, <2>3, <2>4, <2>5 DEF AtWork
<1> QED
  BY <1>2, <1>3, <1>4, <1>5 DEF Read

LEMMA ReadBegun ==
  ASSUME Inv, NEW w \in Worker, Read(w) \/ FailBlock(w)
  PROVE  Begun'
<1> USE Threads
<1>1. /\ pc \in [Worker -> Places] /\ result \in [Task -> {0, 1, -1}]
      /\ file \in [Task -> 0..BlockSize]
      /\ UNCHANGED <<now, fileLength>> /\ pc' = [pc EXCEPT ![w] = pc'[w]]
      /\ now[w] \in Given \cup {NoTask} /\ (AtWork(w) => now[w] # NoTask)
  BY ReadThreads DEF Inv, Making, GetTypeOK, Sized, task, mains
<1>2. \A v \in Worker \ {w} : AtWork(v)' <=> AtWork(v)
  BY <1>1 DEF AtWork
<1> SUFFICES ASSUME NEW b \in Task, result'[b] = 1
             PROVE  Whole(b)' \/ b \in late' \/ \E v \in Worker : now[v] = b /\ AtWork(v)'
  BY <1>1 DEF Begun
<1>3. CASE BeginBlock(w)
  <2>1. AtWork(w)' /\ UNCHANGED <<file, late>>
    BY <1>1, <1>3 DEF BeginBlock, Move, AtWork
  <2>2. result'[b] = result[b] \/ now[w] = b
    BY <1>1, <1>3 DEF BeginBlock, SetResult
  <2> QED
    BY <1>1, <1>2, <2>1, <2>2 DEF Inv, Begun, Whole
<1>4. CASE Fetch(w)
  <2>1. AtWork(w)' /\ UNCHANGED <<result, file, late>>
    BY <1>1, <1>4 DEF Fetch, Move, AtWork, written
  <2> QED
    BY <1>1, <1>2, <2>1 DEF Inv, Begun, Whole
<1>5. CASE Store(w)
  <2>1. AtWork(w) /\ file' = [file EXCEPT ![now[w]] = wsize[now[w]]] /\ UNCHANGED <<result, late>>
    BY <1>5 DEF Store, Move, AtWork
  <2>2. wsize[now[w]] = Need(now[w])
    BY <1>1, <2>1 DEF Inv, Sized
  <2>3. CASE now[w] = b
    BY <1>1, <2>1, <2>2, <2>3 DEF Whole, Need
  <2>4. CASE now[w] # b
    <3>1. file'[b] = file[b] /\ result[b] = 1
      BY <1>1, <2>1, <2>4
    <3> QED
      BY <1>1, <1>2, <2>1, <2>4, <3>1 DEF Inv, Begun, Whole
  <2> QED
    BY <2>3, <2>4
<1>6. CASE FailBlock(w)
  <2>1. /\ AtWork(w) /\ (file' = file \/ \E k : file' = [file EXCEPT ![now[w]] = k])
        /\ late' = IF ReadAlready(now[w]) THEN late \cup {now[w]} ELSE late
        /\ IF Freed THEN result' = result ELSE result' = [result EXCEPT ![now[w]] = -1]
    BY <1>6 DEF FailBlock, Move, AtWork, SetResult
  <2>2. CASE now[w] = b
    <3>1. Freed
      BY <1>1, <2>1, <2>2
    <3> QED
      BY <2>1, <2>2, <3>1 DEF ReadAlready
  <2>3. CASE now[w] # b
    <3>1. file'[b] = file[b] /\ result[b] = 1 /\ late \subseteq late'
      BY <1>1, <2>1, <2>3
    <3> QED
      BY <1>1, <1>2, <2>3, <3>1 DEF Inv, Begun, Whole
  <2> QED
    BY <2>2, <2>3
<1> QED
  BY <1>3, <1>4, <1>5, <1>6 DEF Read

LEMMA ReadPolled ==
  ASSUME Inv, NEW w \in Worker, Read(w) \/ FailBlock(w)
  PROVE  Polled'
<1> USE Threads
<1>1. /\ result \in [Task -> {0, 1, -1}] /\ UNCHANGED <<main, i, fileLength, answer>>
      /\ late \subseteq late' /\ fileLength \in 0..MaxLength
  BY ReadThreads, ReadBlock DEF Inv, GetTypeOK, mains
<1>2. blockNum' = blockNum /\ 1..blockNum \subseteq Task
  BY <1>1, Sizes DEF blockNum
<1> SUFFICES ASSUME NEW b \in 1..blockNum, (main = "poll" /\ b < i) \/ answer
             PROVE  result'[b] = 1 \/ b \in late'
  BY <1>1, <1>2 DEF Polled
<1>3. b \in Task /\ (result[b] = 1 \/ b \in late) /\ ReadAlready(b)
  BY <1>2 DEF Inv, Polled, Ending, ReadAlready
<1>4. CASE Read(w)
  BY <1>1, <1>3, <1>4 DEF Read, BeginBlock, Fetch, Store, SetResult, written
<1>5. CASE FailBlock(w)
  BY <1>1, <1>3, <1>5 DEF FailBlock, SetResult
<1> QED
  BY <1>4, <1>5

LEMMA ReadInv ==
  ASSUME Inv, NEW w \in Worker, Read(w) \/ FailBlock(w)
  PROVE  Inv'
<1>0. /\ UNCHANGED <<this, run, task, marks, mains, answer>> /\ ~dead /\ dead' \in BOOLEAN
      /\ pc[w] \in {"task", "fetch", "store"} /\ w \in Thread
      /\ pc'[w] \in {"fetch", "store", "free"} /\ pc' = [pc EXCEPT ![w] = pc'[w]]
      /\ pc \in [Worker -> Places]
  BY ReadThreads, Threads DEF Inv, Making
<1>1. GetTypeOK'
  <2>1. ThreadTypeOK'
    BY <1>0, Threads DEF Inv, GetTypeOK, ThreadTypeOK, task, marks
  <2> QED
    BY <1>0, <2>1, ReadBlock DEF Inv, GetTypeOK, mains, blockNum
<1>2. Making' /\ Ending'
  BY <1>0, MakingKept DEF mains, Places
<1>3. Counting'
  <2>1. main # "open"
    BY <1>0 DEF Inv, Making
  <2> QED
    BY <1>0, <2>1 DEF Inv, Counting, mains, blockNum, Left
<1>4. Sized'
  <2>1. Given' = Given /\ \A b : Need(b)' = Need(b)
    BY <1>0 DEF Given, mains, blockNum, Need
  <2>2. \A v \in Worker \ {w} : AtWork(v)' <=> AtWork(v)
    BY <1>0 DEF AtWork
  <2>3. AtWork(w)' /\ ~dead' => now[w] # NoTask
    BY ReadBlock
  <2> QED
    BY <1>0, <2>1, <2>2, <2>3 DEF Inv, Sized, task, mains
<1> QED
  BY <1>1, <1>2, <1>3, <1>4, ReadBegun, ReadPolled DEF Inv
-----------------------------------------------------------------------------
(* getFile.                                                                *)

\* A step of getFile that tells no reader anything new.
LEMMA BegunKept ==
  ASSUME Inv, UNCHANGED <<pc, now, result, file, late, fileLength>>
  PROVE  Begun'
BY DEF Inv, Begun, Whole, AtWork

LEMMA OpenInv ==
  ASSUME Inv, GiveUp \/ LoseServer \/ AskMeta
  PROVE  Inv'
<1> USE Threads
<1>0. /\ main = "open" /\ m = 1 /\ i = 1 /\ fileLength = 0 /\ blockNum = 0 /\ ~dead
      /\ (\A w \in Worker : pc[w] = "none") /\ \A b \in Task : result[b] = 0
  <2>1. main = "open" /\ ~dead
    BY DEF GiveUp, LoseServer, AskMeta, At
  <2>2. fileLength = 0 /\ fileLength \in 0..MaxLength
    BY <2>1 DEF Inv, Counting, GetTypeOK
  <2>3. blockNum = 0
    BY <2>2, Sizes
  <2> QED
    BY <2>1, <2>2, <2>3 DEF Inv, Making, Counting
<1>1. Given = {} /\ ~answer
  BY <1>0 DEF Given, Inv, Ending, Freed
<1>2. CASE GiveUp
  <2>1. /\ UNCHANGED <<tvars, m, givers, asked, written>>
        /\ main' = "done" /\ answer' = FALSE
    BY <1>2 DEF GiveUp
  <2>2. blockNum' = 0
    BY <1>0, <2>1, SameBlocks DEF asked
  <2>3. GetTypeOK'
    BY <1>0, <2>1, <2>2 DEF Inv, GetTypeOK, ThreadTypeOK, tvars, task, marks, givers, asked,
       written
  <2>4. Making' /\ Ending'
    BY <1>0, <2>1 DEF Inv, Making, Ending, tvars, Freed
  <2>5. Counting'
    BY <2>1 DEF Counting
  <2>6. Sized'
    <3>1. Given' = {}
      BY <2>2 DEF Given
    <3> QED
      BY <1>1, <2>1, <3>1 DEF Inv, Sized, tvars, task, AtWork
  <2>7. Begun'
    BY <2>1, BegunKept DEF tvars, task, written, asked
  <2>8. Polled'
    BY <2>2 DEF Polled
  <2> QED
    BY <2>3, <2>4, <2>5, <2>6, <2>7, <2>8 DEF Inv
<1>3. CASE LoseServer
  <2>1. /\ UNCHANGED <<pc, this, run, task, marks, main, m, answer, givers, asked, written>>
        /\ dead' = TRUE
    BY <1>3 DEF LoseServer
  <2>2. blockNum' = blockNum
    BY <2>1, SameBlocks DEF asked
  <2>3. GetTypeOK'
    BY <2>1, <2>2 DEF Inv, GetTypeOK, ThreadTypeOK, task, marks, givers, asked, written
  <2>4. Making' /\ Ending'
    BY <2>1 DEF Inv, Making, Ending, Freed
  <2>5. Counting'
    BY <1>0, <2>1 DEF Inv, Counting, givers, asked, written
  <2>6. Sized'
    <3>1. Given' = {}
      BY <1>0, <2>2 DEF Given
    <3> QED
      BY <1>1, <2>1, <3>1 DEF Inv, Sized, task, AtWork
  <2>7. Begun'
    BY <2>1, BegunKept DEF task, written, asked
  <2>8. Polled'
    BY <1>0, <2>2 DEF Polled
  <2> QED
    BY <2>3, <2>4, <2>5, <2>6, <2>7, <2>8 DEF Inv
<1>4. CASE AskMeta
  <2>1. /\ UNCHANGED <<tvars, m, i, j, wsize, skipped, answer, written>> /\ main' = "make"
        /\ fileLength' \in 0..MaxLength /\ fileSize' = fileLength'
        /\ silent' \in SUBSET (1..BlocksOf(fileLength'))
    BY <1>4 DEF AskMeta
  <2>2. blockNum' \in Nat /\ silent' \subseteq Task
    BY <2>1, Blocks DEF blockNum
  <2>3. GetTypeOK'
    <3>1. ThreadTypeOK' /\ i' \in 1..blockNum' + 1 /\ fileSize' \in 0..fileLength'
      <4>1. ThreadTypeOK'
        BY <2>1 DEF Inv, GetTypeOK, ThreadTypeOK, tvars, task, marks
      <4> DEFINE n == blockNum'
      <4>2. 1 \in 1..n + 1
        <5>1. n \in Nat
          BY <2>2
        <5> HIDE DEF n
        <5> QED
          BY <5>1
      <4>3. fileLength' \in 0..fileLength'
        BY <2>1
      <4> QED
        BY <1>0, <2>1, <4>1, <4>2, <4>3
    <3> QED
      BY <2>1, <2>2, <3>1 DEF Inv, GetTypeOK, written
  <2>4. Making' /\ Ending'
    BY <1>0, <1>1, <2>1 DEF Inv, Making, Ending, tvars, Freed
  <2>5. Counting'
    BY <1>0, <2>1 DEF Counting
  <2>6. Sized'
    <3>1. Given' = {}
      BY <2>1 DEF Given
    <3> QED
      BY <1>1, <2>1, <3>1 DEF Inv, Sized, tvars, task, AtWork
  <2>7. Begun'
    BY <1>0, <2>1 DEF Begun, written
  <2>8. Polled'
    BY <1>1, <2>1 DEF Polled
  <2> QED
    BY <2>3, <2>4, <2>5, <2>6, <2>7, <2>8 DEF Inv
<1> QED
  BY <1>2, <1>3, <1>4

\* The constructors of the readers: no block is given yet.
LEMMA MakeInv ==
  ASSUME Inv, MakeReader
  PROVE  Inv'
<1> USE Threads
<1>0. /\ main = "make" /\ ~dead /\ UNCHANGED <<givers, asked, written, answer>>
      /\ fileLength \in 0..MaxLength /\ blockNum' = blockNum /\ i = 1 /\ fileSize = fileLength
  BY SameBlocks DEF Inv, Counting, GetTypeOK, MakeReader, At, asked
<1>1. Given = {} /\ ~answer
  BY <1>0 DEF Given, Inv, Ending, Freed
<1>2. /\ UNCHANGED <<input, now, dead>> /\ \A w \in Worker : AtWork(w)' <=> AtWork(w)
      /\ (main' = "make" \/ (main' = "scan" /\ m' = 1 /\ m > threadNum /\ UNCHANGED tvars))
  BY <1>0 DEF MakeReader, Create, Created, Move, task, tvars, marks, AtWork, Inv, Making
<1>3. GetTypeOK' /\ Making'
  <2>1. CASE m <= threadNum /\ Create(m) /\ UNCHANGED <<main, m>>
    <3>1. m \in Worker
      BY <2>1 DEF Inv, GetTypeOK
    <3>2. ThreadTypeOK'
      BY <1>0, <2>1, <3>1 DEF Inv, GetTypeOK, ThreadTypeOK, Making, Create, Move, task, marks
    <3>3. Making'
      BY <1>0, <2>1, <3>1 DEF Inv, Making, Places, Create, Move
    <3> QED
      BY <1>0, <2>1, <3>2, <3>3 DEF Inv, GetTypeOK, givers, asked, written
  <2>2. CASE m <= threadNum /\ this = m /\ Created(m) /\ m' = m + 1 /\ UNCHANGED main
    <3>1. m \in Worker /\ m' \in 1..threadNum + 1 /\ pc[m] \notin {"none", "new"}
      BY <2>2 DEF Inv, GetTypeOK, ThreadTypeOK, Created
    <3>2. ThreadTypeOK'
      BY <1>0, <2>2, <3>1 DEF Inv, GetTypeOK, ThreadTypeOK, Making, Created, task, marks
    <3>3. Making'
      BY <1>0, <2>2, <3>1 DEF Inv, Making, Created
    <3> QED
      BY <1>0, <2>2, <3>1, <3>2, <3>3 DEF Inv, GetTypeOK, givers, asked, written
  <2>3. CASE m > threadNum /\ main' = "scan" /\ m' = 1 /\ UNCHANGED tvars
    <3>1. m \in Nat /\ \A w \in Worker : w < m
      BY <2>3 DEF Inv, GetTypeOK
    <3>2. ThreadTypeOK'
      BY <2>3 DEF Inv, GetTypeOK, ThreadTypeOK, tvars
    <3>3. Making'
      BY <1>0, <2>3, <3>1 DEF Inv, Making, tvars
    <3> QED
      BY <1>0, <2>3, <3>2, <3>3 DEF Inv, GetTypeOK, givers, asked, written
  <2> QED
    BY <2>1, <2>2, <2>3 DEF MakeReader
<1>4. Ending'
  BY <1>0, <1>1 DEF Ending
<1>5. Counting'
  BY <1>0, <1>2, Sizes, SameBlocks DEF Inv, Counting, givers, asked
<1>6. Given' = {}
  BY <1>0, <1>2 DEF Given, givers
<1>7. Sized'
  BY <1>1, <1>2, <1>6 DEF Inv, Sized
<1>8. Begun'
  BY <1>0, <1>2 DEF Inv, Begun, Whole, asked, written
<1>9. Polled'
  BY <1>0, <1>1, <1>2 DEF Polled
<1> QED
  BY <1>3, <1>4, <1>5, <1>7, <1>8, <1>9 DEF Inv

\* getFile works on reader j, or its counters; no reader makes a step.
LEMMA ScanInv ==
  ASSUME Inv, NextReader \/ GiveBlock \/ SetInput \/ Unlock
  PROVE  Inv'
<1> USE Threads
<1>0. /\ main \in {"scan", "input", "unlock"} /\ main' \in {"scan", "input", "unlock"} /\ ~dead
      /\ UNCHANGED <<pc, now, run, this, gone, signals, overtaken, dead, m, asked, written, answer>>
      /\ m = 1 /\ j \in Worker /\ i \in 1..blockNum /\ ~answer
      /\ fileLength \in 0..MaxLength /\ i \in Task
  <2>1. main \in {"scan", "input", "unlock"} /\ ~dead
    BY DEF NextReader, GiveBlock, SetInput, Unlock, Scanning, At
  <2>2. m = 1 /\ j \in Worker /\ i \in 1..blockNum + 1 /\ fileLength \in 0..MaxLength
    BY <2>1 DEF Inv, Making, GetTypeOK
  <2>3. blockNum \in Nat /\ 1..blockNum \subseteq Task
    BY <2>2, Sizes
  <2>4. i =< blockNum
    BY DEF NextReader, GiveBlock, SetInput, Unlock, Scanning, At, Inv, Counting
  <2>5. i \in 1..blockNum
    <3> HIDE DEF blockNum
    <3> QED
      BY <2>2, <2>3, <2>4
  <2>6. ~answer
    BY <2>1 DEF Inv, Ending, Freed
  <2>7. /\ main' \in {"scan", "input", "unlock"}
        /\ UNCHANGED <<pc, now, run, this, gone, signals, overtaken, dead, m, asked, written, answer>>
    BY <2>1 DEF NextReader, GiveBlock, SetInput, Unlock, Scanning, At, Take, SetTask, UnlockTask,
       tvars, task, marks, givers
  <2> QED
    BY <2>1, <2>2, <2>3, <2>5, <2>6, <2>7
<1>1. /\ blockNum' = blockNum /\ (\A k \in Int : Left(k)' = Left(k) /\ Need(k)' = Need(k))
      /\ blockNum \in Nat /\ i + 1 \in 1..blockNum + 1 /\ i + 1 \in Int /\ i \in Int
  <2>1. /\ blockNum' = blockNum /\ (\A k \in Int : Left(k)' = Left(k) /\ Need(k)' = Need(k))
        /\ blockNum \in Nat
    BY <1>0, Sizes, SameBlocks DEF asked
  <2> HIDE DEF blockNum
  <2> QED
    BY <1>0, <2>1
<1>2. ThreadTypeOK'
  <2>1. /\ free' \in [Worker -> BOOLEAN] /\ lock' \in [Worker -> BOOLEAN]
        /\ input' \in [Worker -> Task \cup {NoTask}] /\ missed' \subseteq Worker
    <3>1. /\ free \in [Worker -> BOOLEAN] /\ lock \in [Worker -> BOOLEAN]
          /\ input \in [Worker -> Task \cup {NoTask}] /\ missed \subseteq Worker
      BY DEF Inv, GetTypeOK, ThreadTypeOK
    <3>2. CASE NextReader \/ GiveBlock
      <4>1. UNCHANGED <<lock, input, missed>>
            /\ (free' = free \/ free' = [free EXCEPT ![j] = FALSE])
        BY <3>2 DEF NextReader, GiveBlock, Take, tvars, task, marks
      <4> QED
        BY <1>0, <3>1, <4>1
    <3>3. CASE SetInput
      <4>1. UNCHANGED <<free, lock, missed>> /\ input' = [input EXCEPT ![j] = i]
        BY <3>3 DEF SetInput, SetTask, marks
      <4> QED
        BY <1>0, <3>1, <4>1
    <3>4. CASE Unlock
      <4>1. /\ UNCHANGED <<free, input>> /\ lock' = [lock EXCEPT ![j] = FALSE]
            /\ missed' \in {missed, missed \cup {j}}
        BY <3>4 DEF Unlock, UnlockTask
      <4> QED
        BY <1>0, <3>1, <4>1
    <3> QED
      BY <3>2, <3>3, <3>4
  <2> QED
    BY <1>0, <2>1 DEF Inv, GetTypeOK, ThreadTypeOK
<1>3. Making' /\ Ending'
  BY <1>0 DEF Inv, Making, Ending
<1>4. Begun'
  BY <1>0, BegunKept DEF asked, written
<1>5. Polled'
  BY <1>0 DEF Polled
<1>6. SUFFICES GetTypeOK' /\ Counting' /\ Sized'
  BY <1>3, <1>4, <1>5 DEF Inv
<1>7. \A v \in Worker : AtWork(v)' <=> AtWork(v)
  BY <1>0 DEF AtWork
<1>8. /\ fileSize \in 0..fileLength /\ wsize \in [Task -> 0..BlockSize]
      /\ skipped \subseteq Task /\ silent \subseteq Task /\ late \subseteq Task
      /\ (\A b \in Given : wsize[b] = Need(b)) /\ Given \subseteq Task
      /\ (\A v \in Worker : input[v] \in Given \cup {NoTask} /\ now[v] \in Given \cup {NoTask})
      /\ (\A v \in Worker : AtWork(v) /\ ~dead => now[v] # NoTask)
  BY <1>0, Sizes DEF Inv, GetTypeOK, Sized, Given
<1>9. CASE NextReader
  <2>1. /\ UNCHANGED <<tvars, main, i, fileSize, wsize, skipped>> /\ j' \in Worker
    BY <1>0, <1>9 DEF NextReader, Smaller
  <2>2. GetTypeOK'
    BY <1>0, <1>1, <1>2, <2>1 DEF Inv, GetTypeOK, asked, written
  <2>3. Counting'
    BY <1>0, <1>1, <2>1 DEF Inv, Counting
  <2>4. Given' = Given
    BY <1>1, <2>1 DEF Given
  <2>5. Sized'
    BY <1>0, <1>1, <1>7, <1>8, <2>1, <2>4 DEF Sized, Given, tvars, task
  <2> QED
    BY <2>2, <2>3, <2>5
<1>10. CASE GiveBlock
  <2>1. /\ main = "scan" /\ fileSize = Left(i)
        /\ wsize' = [wsize EXCEPT ![i] = Smaller(fileSize, BlockSize)]
        /\ fileSize' = fileSize - Smaller(fileSize, BlockSize)
        /\ input' = input
        /\ \/ main' = "input" /\ UNCHANGED <<i, j, skipped>>
           \/ main' = "scan" /\ i' = i + 1 /\ j' = 1 /\ skipped' = skipped \cup {i}
    BY <1>10 DEF GiveBlock, Scanning, At, SizeBlock, Take, tvars, task, Inv, Counting
  <2>2. /\ Smaller(fileSize, BlockSize) = Need(i) /\ Need(i) \in 0..BlockSize
        /\ fileSize' = Left(i + 1) /\ Left(i + 1) \in 0..fileLength
    BY <1>0, <2>1, Sizes
  <2>3. wsize' \in [Task -> 0..BlockSize] /\ wsize'[i] = Need(i)
        /\ \A b \in Task : b # i => wsize'[b] = wsize[b]
    BY <1>0, <1>8, <2>1, <2>2
  <2>4. GetTypeOK'
    <3>0. i \in 1..blockNum + 1
      BY DEF Inv, GetTypeOK
    <3>1. i' \in 1..blockNum' + 1 /\ j' \in Worker /\ skipped' \subseteq Task
      <4>1. i' \in {i, i + 1} /\ j' \in {j, 1} /\ skipped' \in {skipped, skipped \cup {i}}
        BY <2>1
      <4>2. i' \in 1..blockNum + 1
        BY <1>1, <3>0, <4>1
      <4>3. j' \in Worker /\ skipped' \subseteq Task
        BY <1>0, <1>8, <4>1
      <4> QED
        BY <1>1, <4>2, <4>3
    <3>2. fileSize' \in 0..fileLength' /\ fileLength' = fileLength
      BY <1>0, <2>2 DEF asked
    <3> QED
      BY <1>0, <1>2, <2>3, <3>1, <3>2 DEF Inv, GetTypeOK, asked, written
  <2>5. Counting'
    <3>1. i' \in Int /\ i' + 1 \in Int
      BY <1>1, <2>1
    <3>2. CASE main' = "input"
      BY <1>0, <1>1, <2>1, <2>2, <3>1, <3>2 DEF Counting
    <3>3. CASE main' = "scan"
      BY <1>0, <1>1, <2>1, <2>2, <3>1, <3>3 DEF Counting
    <3> QED
      BY <2>1, <3>2, <3>3
  <2>6. Given' = Given \cup {i} /\ i \notin Given
    <3>1. Given = {b \in 1..blockNum : b < i}
      BY <2>1 DEF Given
    <3>2. Given' = {b \in 1..blockNum : b =< i}
      <4>1. CASE main' = "input"
        BY <1>1, <2>1, <4>1 DEF Given
      <4>2. CASE main' = "scan"
        <5>1. Given' = {b \in 1..blockNum : b < i + 1}
          BY <1>1, <2>1, <4>2 DEF Given
        <5> HIDE DEF blockNum
        <5> QED
          BY <1>1, <5>1
      <4> QED
        BY <2>1, <4>1, <4>2
    <3> HIDE DEF blockNum
    <3> QED
      BY <1>0, <1>1, <3>1, <3>2
  <2>7. \A b \in Given' : wsize'[b] = Need(b)' /\ b \in Int
    <3>1. \A b \in Given : b \in Int
      BY <1>1 DEF Given
    <3>2. \A b \in Given : wsize'[b] = Need(b)
      BY <1>8, <2>3, <2>6
    <3> QED
      BY <1>1, <2>3, <2>6, <3>1, <3>2
  <2>8. Sized'
    BY <1>0, <1>7, <1>8, <2>1, <2>6, <2>7 DEF Sized
  <2> QED
    BY <2>4, <2>5, <2>8
<1>11. CASE SetInput \/ Unlock
  <2>1. UNCHANGED <<fileSize, wsize, skipped>>
    BY <1>11 DEF SetInput, Unlock, givers
  <2>2. fileSize = Left(i + 1)
    BY <1>11 DEF SetInput, Unlock, At, Inv, Counting
  <2>3. /\ main \in {"input", "unlock"}
        /\ \/ main' = "unlock" /\ UNCHANGED <<i, j>>
           \/ main' = "scan" /\ i' = i + 1 /\ j' = 1
        /\ \A v \in Worker : input'[v] \in {input[v], i}
    BY <1>11 DEF SetInput, Unlock, At, SetTask, UnlockTask, givers, Inv, GetTypeOK, ThreadTypeOK
  <2>4. GetTypeOK'
    <3>1. i' \in 1..blockNum' + 1 /\ j' \in Worker
      BY <1>0, <1>1, <2>3 DEF Inv, GetTypeOK
    <3> QED
      BY <1>0, <1>2, <2>1, <3>1 DEF Inv, GetTypeOK, asked, written
  <2>5. Counting'
    <3>1. CASE main' = "unlock"
      BY <1>0, <1>1, <2>1, <2>2, <2>3, <3>1 DEF Counting
    <3>2. CASE main' = "scan"
      BY <1>0, <1>1, <2>1, <2>2, <2>3, <3>2 DEF Counting
    <3> QED
      BY <2>3, <3>1, <3>2
  <2>6. Given' = Given /\ i \in Given
    <3>1. Given = {b \in 1..blockNum : b =< i}
      BY <2>3 DEF Given
    <3>2. Given' = {b \in 1..blockNum : b =< i}
      <4>1. CASE main' = "unlock"
        BY <1>1, <2>3, <4>1 DEF Given
      <4>2. CASE main' = "scan"
        <5>1. Given' = {b \in 1..blockNum : b < i + 1}
          BY <1>1, <2>3, <4>2 DEF Given
        <5> HIDE DEF blockNum
        <5> QED
          BY <1>1, <5>1
      <4> QED
        BY <2>3, <4>1, <4>2
    <3> QED
      BY <1>0, <3>1, <3>2
  <2>7. \A b \in Given : Need(b)' = Need(b)
    BY <1>1 DEF Given
  <2>8. Sized'
    BY <1>0, <1>7, <1>8, <2>1, <2>3, <2>6, <2>7 DEF Sized
  <2> QED
    BY <2>4, <2>5, <2>8
<1> QED
  BY <1>9, <1>10, <1>11

LEMMA PollInv ==
  ASSUME Inv, AllGiven \/ Poll \/ Finish
  PROVE  Inv'
<1> USE Threads
<1>0. /\ main \in {"scan", "poll"} /\ main' \in {"poll", "leave"} /\ ~dead /\ m = 1 /\ ~answer
      /\ UNCHANGED <<tvars, m, j, fileSize, wsize, skipped, asked, written>>
      /\ fileLength \in 0..MaxLength /\ answer' \in BOOLEAN /\ i \in 1..blockNum + 1
  BY DEF AllGiven, Poll, Finish, At, givers, Inv, Making, Ending, Freed, GetTypeOK
<1>1. blockNum' = blockNum /\ blockNum \in Nat /\ 1..blockNum \subseteq Task
  BY <1>0, Sizes, SameBlocks DEF asked
<1>2. i' \in 1..blockNum + 1
  <2> HIDE DEF blockNum
  <2> QED
    BY <1>0, <1>1 DEF AllGiven, Poll, Finish, givers
<1>3. GetTypeOK'
  BY <1>0, <1>1, <1>2 DEF Inv, GetTypeOK, ThreadTypeOK, tvars, task, marks, asked, written
<1>4. Making'
  BY <1>0 DEF Inv, Making, tvars
<1>5. Ending'
  <2>1. answer' => main' = "leave"
    BY <1>0 DEF AllGiven, Poll, Finish
  <2>2. \A w \in Worker : ~(w < 1)
    OBVIOUS
  <2> QED
    BY <1>0, <2>1, <2>2 DEF Ending, Freed
<1>6. Counting'
  BY <1>0 DEF Counting
<1>7. Given' = Given
  <2>1. Given' = 1..blockNum
    BY <1>0, <1>1 DEF Given
  <2>2. main = "scan" => i > blockNum
    BY DEF AllGiven, Poll, Finish, At
  <2>3. Given = 1..blockNum
    <3>1. CASE main = "poll"
      BY <3>1 DEF Given
    <3>2. CASE main = "scan"
      <4>1. Given = {b \in 1..blockNum : b < i}
        BY <3>2 DEF Given
      <4> HIDE DEF blockNum
      <4> QED
        BY <1>0, <1>1, <2>2, <3>2, <4>1
    <3> QED
      BY <1>0, <3>1, <3>2
  <2> QED
    BY <2>1, <2>3
<1>8. Sized'
  <2>1. \A b \in Given : Need(b)' = Need(b)
    BY <1>0 DEF Need, asked
  <2>2. \A v \in Worker : AtWork(v)' <=> AtWork(v)
    BY <1>0 DEF AtWork, tvars
  <2> QED
    BY <1>0, <1>7, <2>1, <2>2 DEF Inv, Sized, tvars, task
<1>9. Begun'
  BY <1>0, BegunKept DEF tvars, task, asked, written
<1>10. Polled'
  <2> SUFFICES ASSUME NEW b \in 1..blockNum, (main' = "poll" /\ b < i') \/ answer'
               PROVE  result[b] = 1 \/ b \in late
    BY <1>0, <1>1 DEF Polled, written
  <2>1. CASE AllGiven
    BY <1>0, <2>1 DEF AllGiven
  <2>2. CASE Poll
    <3>1. main = "poll" /\ answer' = answer /\ i' = IF result[i] = 1 THEN i + 1 ELSE 1
      BY <2>2 DEF Poll, At
    <3>2. b < i \/ (b = i /\ result[i] = 1)
      <4> HIDE DEF blockNum
      <4> QED
        BY <1>0, <1>1, <3>1
    <3> QED
      BY <3>1, <3>2 DEF Inv, Polled
  <2>3. CASE Finish
    <3>1. main = "poll" /\ i > blockNum
      BY <1>0, <2>3 DEF Finish, At
    <3>2. b < i
      <4> HIDE DEF blockNum
      <4> QED
        BY <1>0, <1>1, <3>1
    <3> QED
      BY <3>1, <3>2 DEF Inv, Polled
  <2> QED
    BY <2>1, <2>2, <2>3
<1> QED
  BY <1>3, <1>4, <1>5, <1>6, <1>8, <1>9, <1>10 DEF Inv

LEMMA LeaveInv ==
  ASSUME Inv, DestroyLock \/ StopReader \/ ReaderJoined
  PROVE  Inv'
<1> USE Threads
<1>0. /\ main \in {"leave", "stop", "join"} /\ main' \in {"leave", "stop", "join", "done"}
      /\ UNCHANGED <<pc, this, run, free, lock, input, now, missed, overtaken, dead, givers, asked,
                     written, answer>> /\ ~dead
  BY DEF DestroyLock, StopReader, ReaderJoined, At, Destroy, Kill, tvars, task, marks
<1>1. blockNum' = blockNum
  BY <1>0, SameBlocks DEF asked
<1>2. m' \in 1..threadNum + 1 /\ (main' \in {"stop", "join"} => m' \in Worker)
  BY DEF DestroyLock, StopReader, ReaderJoined, At, Inv, GetTypeOK, Making
<1>3. GetTypeOK'
  <2>1. gone' \in [Worker -> BOOLEAN] /\ signals' \subseteq Thread
    <3>1. /\ gone \in [Worker -> BOOLEAN] /\ signals \subseteq Thread
          /\ (main = "stop" => m \in Thread)
      BY DEF Inv, Making, GetTypeOK, ThreadTypeOK
    <3>2. CASE DestroyLock
      <4>1. signals' = signals /\ (gone' = gone \/ gone' = [gone EXCEPT ![m] = TRUE])
        BY <3>2 DEF DestroyLock, Destroy, marks
      <4> QED
        BY <3>1, <4>1
    <3>3. CASE StopReader
      BY <3>1, <3>3 DEF StopReader, At, Kill, task
    <3>4. CASE ReaderJoined
      BY <3>1, <3>4 DEF ReaderJoined, tvars, task, marks
    <3> QED
      BY <3>2, <3>3, <3>4
  <2>2. ThreadTypeOK'
    BY <1>0, <2>1 DEF Inv, GetTypeOK, ThreadTypeOK
  <2> QED
    BY <1>0, <1>1, <1>2, <2>2 DEF Inv, GetTypeOK, givers, asked, written
<1>4. Making'
  BY <1>0, <1>2 DEF Inv, Making
<1>5. Ending'
  <2> SUFFICES ASSUME answer
               PROVE  \A w \in Worker : w < m' \/ main' = "done" => pc[w] = "ended"
    BY <1>0 DEF Ending, Freed
  <2>1. m \in Int /\ \A w \in Worker : w \in Int /\ (w < m => pc[w] = "ended")
    BY DEF Inv, Ending, GetTypeOK
  <2>2. CASE DestroyLock \/ StopReader
    BY <2>1, <2>2 DEF DestroyLock, StopReader
  <2>3. CASE ReaderJoined
    <3>1. \/ pc[m] = "ended" /\ m' = m + 1 /\ main' = "leave"
          \/ m > threadNum /\ m' = m
      BY <2>3 DEF ReaderJoined, Joined
    <3> QED
      BY <2>1, <3>1
  <2> QED
    BY <2>2, <2>3
<1>6. Counting'
  BY <1>0 DEF Counting
<1>7. Sized'
  <2>1. Given' = Given /\ \A b : Need(b)' = Need(b)
    BY <1>0, <1>1 DEF Given, Need, asked
  <2> QED
    BY <1>0, <2>1 DEF Inv, Sized, AtWork, givers
<1>8. Begun'
  BY <1>0, BegunKept DEF asked, written
<1>9. Polled'
  BY <1>0, <1>1 DEF Inv, Polled, written
<1> QED
  BY <1>3, <1>4, <1>5, <1>6, <1>7, <1>8, <1>9 DEF Inv

LEMMA StepInv == Inv /\ [Next]_gvars => Inv'
<1> SUFFICES ASSUME Inv, [Next]_gvars  PROVE Inv'
  OBVIOUS
<1>1. CASE getFile
  BY <1>1, OpenInv, MakeInv, ScanInv, PollInv, LeaveInv DEF getFile
<1>2. CASE LoseServer
  BY <1>2, OpenInv
<1>3. CASE \E w \in Worker : Thr(w) \/ Read(w) \/ FailBlock(w)
  BY <1>3, ThrInv, ReadInv
<1>4. CASE UNCHANGED gvars
  <2>1. UNCHANGED <<tvars, main, m, givers, asked, written, answer>>
    BY <1>4 DEF gvars, givers, asked, written
  <2>2. blockNum' = blockNum
    BY <2>1, SameBlocks DEF asked
  <2>3. GetTypeOK' /\ Making' /\ Ending'
    BY <2>1, <2>2 DEF Inv, GetTypeOK, ThreadTypeOK, Making, Ending, Freed, tvars, task, marks,
       givers, asked, written
  <2>4. Counting'
    BY <2>1, <2>2 DEF Inv, Counting, Left, givers, asked, written
  <2>5. Sized'
    <3>1. Given' = Given /\ \A b : Need(b)' = Need(b)
      BY <2>1, <2>2 DEF Given, Need, asked, givers
    <3> QED
      BY <2>1, <3>1 DEF Inv, Sized, AtWork, tvars, task, givers
  <2>6. Begun' /\ Polled'
    BY <2>1, <2>2, BegunKept DEF Inv, Polled, tvars, task, asked, written, givers
  <2> QED
    BY <2>3, <2>4, <2>5, <2>6 DEF Inv
<1> QED
  BY <1>1, <1>2, <1>3, <1>4 DEF Next

\* Every variable of getFile keeps its type: file_size never wraps, and no block or
\* reader is counted that is not there.
THEOREM GetTypeCorrect == Spec => []GetTypeOK
<1>1. Inv => GetTypeOK
  BY DEF Inv
<1> QED
  BY InitInv, StepInv, <1>1, PTL DEF Spec

\* When getFile has answered true, every block is whole, whatever the threads did on the
\* way, but for the blocks that failed when their result had been read.
THEOREM GetCorrect == Spec => []WholeUnlessLate
<1>1. Inv => WholeUnlessLate
  <2> SUFFICES ASSUME Inv, main = "done", answer, NEW b \in 1..blockNum
               PROVE  Whole(b) \/ b \in late
    BY DEF WholeUnlessLate
  <2>1. b \in Task
    BY Sizes DEF Inv, GetTypeOK
  <2>2. result[b] = 1 \/ b \in late
    BY DEF Inv, Polled
  <2>3. \A w \in Worker : ~AtWork(w)
    BY DEF Inv, Ending, AtWork
  <2> QED
    BY <2>1, <2>2, <2>3 DEF Inv, Begun
<1> QED
  BY InitInv, StepInv, <1>1, PTL DEF Spec
=============================================================================
