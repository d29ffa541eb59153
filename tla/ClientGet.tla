------------------------------ MODULE ClientGet ------------------------------
(***************************************************************************)
(* Client::getFile: the main thread asks the server where the blocks of a  *)
(* file are, gives each block to a reader of its own pool of TaskThreads,  *)
(* polls the readers' results and destroys the pool when it returns.  The  *)
(* readers (receiveBlock) fetch and write their blocks.                    *)
(***************************************************************************)
EXTENDS TaskThread

CONSTANTS
  BlockSize,   \* DataBlock::blockSize
  MaxLength    \* bound on the length of the file

threadNum == Cardinality(Worker)
BlocksOf(length) == (length + BlockSize - 1) \div BlockSize

ASSUME GetAssumption ==
  /\ threadNum \in Nat \ {0} /\ Worker = 1..threadNum /\ Other = {}
  /\ BlockSize \in Nat \ {0} /\ MaxLength \in Nat
  /\ Task = 1..BlocksOf(MaxLength)     \* a block is its number in the file

VARIABLES
  main,       \* where getFile is
  m,          \* the reader it makes or ends
  i, j,       \* its counters over blocks and readers
  fileLength, \* what the server said
  fileSize,   \* file_size: what is left to give to readers
  wsize,      \* BlockInfo::wsize
  result,     \* 0, 1 or -1
  answer,     \* what getFile returns
  file,       \* bytes written to each block of the local file
  silent,     \* blocks on machines that accept and never answer
  skipped,    \* history: blocks whose runTask returned false
  late        \* history: blocks that failed when their result had been read

gvars == <<tvars, main, m, i, j, fileLength, fileSize, wsize, result, answer, file, silent,
           skipped, late>>
givers == <<i, j, fileSize, wsize, skipped>>
asked == <<fileLength, silent>>
written == <<result, file, late>>

blockNum == BlocksOf(fileLength)
Smaller(a, b) == IF a < b THEN a ELSE b

Init ==
  /\ ThreadInit
  /\ main = "open" /\ m = 1 /\ i = 1 /\ j = 1
  /\ fileLength = 0 /\ fileSize = 0 /\ wsize = [b \in Task |-> 0]
  /\ result = [b \in Task |-> 0] /\ answer = FALSE
  /\ file = [b \in Task |-> 0]
  /\ silent = {} /\ skipped = {} /\ late = {}

At(place) == ~dead /\ main = place

-----------------------------------------------------------------------------
(* getFile on the client's main thread.                                    *)

\* No server, a local file of that name, an error instead of the meta block or of
\* a location.
GiveUp ==
  /\ At("open")
  /\ main' = "done" /\ answer' = FALSE
  /\ UNCHANGED <<tvars, m, givers, asked, written>>

\* The server hangs up: what receive returns is dereferenced.
LoseServer ==
  /\ At("open") /\ dead' = TRUE
  /\ UNCHANGED <<pc, this, run, task, marks, main, m, answer, givers, asked, written>>

AskMeta ==
  /\ At("open")
  /\ fileLength' \in 0..MaxLength /\ fileSize' = fileLength'
  /\ silent' \in SUBSET (1..BlocksOf(fileLength'))
  /\ main' = "make"
  /\ UNCHANGED <<tvars, m, i, j, wsize, skipped, answer, written>>

MakeReader ==
  /\ At("make")
  /\ \/ m <= threadNum /\ Create(m) /\ UNCHANGED <<main, m>>
     \/ m <= threadNum /\ this = m /\ Created(m) /\ m' = m + 1 /\ UNCHANGED main
     \/ m > threadNum /\ main' = "scan" /\ m' = 1 /\ UNCHANGED tvars
  /\ UNCHANGED <<givers, asked, written, answer>>

Scanning == At("scan") /\ i <= blockNum

\* Once round, reader 1 is not looked at again for this block.
NextReader ==
  /\ Scanning /\ ~free[j]
  /\ j' = IF j = threadNum THEN Smaller(2, threadNum) ELSE j + 1
  /\ UNCHANGED <<tvars, main, m, i, fileSize, wsize, skipped, asked, written, answer>>

\* Mutant: every block takes a full block from the size.
SizeBlockFull ==
  wsize' = [wsize EXCEPT ![i] = BlockSize] /\ fileSize' = fileSize - BlockSize

SizeBlock ==
  LET size == Smaller(fileSize, BlockSize)
  IN wsize' = [wsize EXCEPT ![i] = size] /\ fileSize' = fileSize - size

\* What runTask returns is not looked at: the block counts as given even if its
\* reader has not started.
GiveBlock ==
  /\ Scanning /\ free[j] /\ SizeBlock
  /\ IF Ready(j)
     THEN Take(j) /\ main' = "input" /\ UNCHANGED <<i, j, skipped>>
     ELSE i' = i + 1 /\ j' = 1 /\ skipped' = skipped \cup {i} /\ UNCHANGED <<tvars, main>>
  /\ UNCHANGED <<m, asked, written, answer>>

SetInput ==
  /\ At("input") /\ SetTask(j, i)
  /\ main' = "unlock"
  /\ UNCHANGED <<m, givers, asked, written, answer>>

Unlock ==
  /\ At("unlock") /\ UnlockTask(j)
  /\ i' = i + 1 /\ j' = 1 /\ main' = "scan"
  /\ UNCHANGED <<m, fileSize, wsize, skipped, asked, written, answer>>

AllGiven ==
  /\ At("scan") /\ i > blockNum
  /\ main' = "poll" /\ i' = 1
  /\ UNCHANGED <<tvars, m, j, fileSize, wsize, skipped, asked, written, answer>>

\* Mutant: a block that nobody has begun does not hold the loop up.
PollPatient ==
  /\ At("poll") /\ i <= blockNum /\ result[i] # -1
  /\ i' = i + 1
  /\ UNCHANGED <<tvars, main, m, j, fileSize, wsize, skipped, asked, written, answer>>

\* finish = result[i]: on to the next block, or again from the first.
Poll ==
  /\ At("poll") /\ i <= blockNum /\ result[i] # -1
  /\ i' = IF result[i] = 1 THEN i + 1 ELSE 1
  /\ UNCHANGED <<tvars, main, m, j, fileSize, wsize, skipped, asked, written, answer>>

\* Mutant: only a file that is there ends the loop.
FinishWhole ==
  /\ At("poll") /\ i > blockNum /\ blockNum > 0
  /\ answer' = TRUE /\ main' = "leave"
  /\ UNCHANGED <<tvars, m, givers, asked, written>>

\* Without blocks finish stays 0.
Finish ==
  /\ At("poll")
  /\ \/ i \in 1..blockNum /\ result[i] = -1 /\ answer' = FALSE
     \/ i > blockNum /\ blockNum > 0 /\ answer' = TRUE
  /\ main' = "leave"
  /\ UNCHANGED <<tvars, m, givers, asked, written>>

\* The results are destroyed first; ~TaskThread of each reader.
DestroyLock ==
  /\ At("leave") /\ m <= threadNum
  /\ main' = "stop" /\ Destroy(m)
  /\ UNCHANGED <<m, givers, asked, written, answer>>

StopReader ==
  /\ At("stop")
  /\ main' = "join" /\ Kill(m)
  /\ UNCHANGED <<m, givers, asked, written, answer>>

ReaderJoined ==
  /\ \/ At("join") /\ Joined(m) /\ main' = "leave" /\ m' = m + 1
     \/ At("leave") /\ m > threadNum /\ main' = "done" /\ UNCHANGED m
  /\ UNCHANGED <<tvars, givers, asked, written, answer>>

-----------------------------------------------------------------------------
(* receiveBlock, on a reader.                                              *)

Freed == main \in {"leave", "stop", "join", "done"}
ReadAlready(b) == Freed \/ (main = "poll" /\ i > b)

\* A result that is destroyed is written to all the same.
SetResult(b, r) ==
  IF Freed THEN dead' \in BOOLEAN /\ UNCHANGED result
  ELSE result' = [result EXCEPT ![b] = r] /\ UNCHANGED dead

\* 1 is set before the block is there.
BeginBlock(w) ==
  /\ Move(w, "task", "fetch")
  /\ IF now[w] = NoTask THEN dead' = TRUE /\ UNCHANGED result ELSE SetResult(now[w], 1)
  /\ UNCHANGED <<this, run, task, marks, main, m, givers, asked, answer, file, late>>

Fetch(w) ==
  /\ Move(w, "fetch", "store") /\ now[w] \notin silent
  /\ UNCHANGED <<this, run, task, marks, dead, main, m, givers, asked, written, answer>>

Store(w) ==
  /\ Move(w, "store", "free")
  /\ file' = [file EXCEPT ![now[w]] = wsize[now[w]]]
  /\ UNCHANGED <<this, run, task, marks, dead, main, m, givers, asked, result, late, answer>>

\* connect, send, receive, open or write fails; a write may do so half-way.
FailBlock(w) ==
  LET b == now[w] IN
  /\ \/ Move(w, "fetch", "free") /\ UNCHANGED file
     \/ /\ Move(w, "store", "free")
        /\ \E k \in 0..wsize[b] - 1 : file' = [file EXCEPT ![b] = k]
  /\ SetResult(b, -1)
  /\ late' = IF ReadAlready(b) THEN late \cup {b} ELSE late
  /\ UNCHANGED <<this, run, task, marks, main, m, givers, asked, answer>>

Thr(t) ==
  /\ \/ SetState(t) \/ CallRun(t) \/ Start(t, "first")
     \/ FirstLock(t) \/ LoopLock(t) \/ SetFree(t) \/ Wipe(t) \/ HandleStop(t)
  /\ UNCHANGED <<main, m, givers, asked, written, answer>>

Read(w) == BeginBlock(w) \/ Fetch(w) \/ Store(w)

-----------------------------------------------------------------------------
getFile ==
  \/ GiveUp \/ AskMeta \/ MakeReader \/ NextReader \/ GiveBlock \/ SetInput \/ Unlock
  \/ AllGiven \/ Poll \/ Finish \/ DestroyLock \/ StopReader \/ ReaderJoined

Next ==
  \/ getFile \/ LoseServer
  \/ \E w \in Worker : Thr(w) \/ Read(w) \/ FailBlock(w)

\* Threads are scheduled; a connect to a machine that is gone fails, by its timer.
Spec ==
  /\ Init /\ [][Next]_gvars /\ WF_gvars(getFile)
  /\ \A w \in Worker : WF_gvars(Thr(w)) /\ WF_gvars(Read(w))

-----------------------------------------------------------------------------
(* Properties.                                                             *)

\* Every variable keeps its type, and file_size, which is unsigned, never wraps.
GetTypeOK ==
  /\ ThreadTypeOK
  /\ main \in {"open", "make", "scan", "input", "unlock", "poll", "leave", "stop", "join", "done"}
  /\ m \in 1..threadNum + 1 /\ i \in 1..blockNum + 1 /\ j \in Worker
  /\ fileLength \in 0..MaxLength /\ fileSize \in 0..fileLength
  /\ wsize \in [Task -> 0..BlockSize] /\ file \in [Task -> 0..BlockSize]
  /\ result \in [Task -> {0, 1, -1}] /\ answer \in BOOLEAN
  /\ silent \cup skipped \cup late \subseteq Task

Whole(b) == file[b] = Smaller(BlockSize, fileLength - (b - 1) * BlockSize)

\* When getFile has returned true, every block of the file has been written in
\* full, whatever was overtaken or dropped on the way, unless its reader failed
\* after its result had been read.
WholeUnlessLate ==
  main = "done" /\ answer => \A b \in 1..blockNum : Whole(b) \/ b \in late

\* getFile ends, with one answer or the other, unless the file has no blocks, a
\* block was given to a reader that had not started, a machine never answers, or
\* the start or end of a reader goes wrong.
GetEnds ==
  main = "make" ~>
    \/ main = "done" \/ dead \/ blockNum = 0 \/ skipped # {} \/ missed \cup overtaken # {}
    \/ \E w \in Worker : pc[w] = "fetch" /\ now[w] \in silent

\* -1 makes getFile return false: what it returns true for is there.
GetWhole == main = "done" /\ answer => \A b \in 1..blockNum : Whole(b)
=============================================================================
