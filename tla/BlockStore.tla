----------------------------- MODULE BlockStore -----------------------------
(***************************************************************************)
(* The block layer of a Doopey cluster: BlockManager and its resolver,     *)
(* loader, saver and updater on every machine, and the messages between    *)
(* them.  A machine keeps block files (disk), an index of the blocks it    *)
(* holds (_localIDs), a cache of where others keep theirs (_remoteIDs) and *)
(* the routing table sendTo uses.  A task is one activation of a handler   *)
(* that makes network calls: every call is a step of its own, and any      *)
(* other task, message, crash or restart may come between two steps.       *)
(* Calls that only wait for an answer (MC_CheckBlockAlive,                 *)
(* MC_RequestBlockData, MC_RequestSysInfoMem) are one step that reads the  *)
(* peer and may always be refused, as a busy dispatcher refuses.           *)
(***************************************************************************)
EXTENDS Integers, FiniteSets

CONSTANTS
  Node,          \* machine ids
  Uploader,      \* the machines that store new blocks
  blockReplica,  \* Block::blockReplica
  remoteSizeMax, \* BlockResolver::remoteSizeMax
  CacheFlush,    \* entries cleanCache drops (5 in the code)
  MaxLocal,      \* bound: local block ids per machine
  Gen,           \* bound: BlockLocationAttr objects per machine and block
  Slot,          \* bound: multi-step handlers running at once in the cluster
  NoSlot,
  MaxOps,        \* bound: operations started (save, get, delete, SIGUSR1)
  MaxFaults      \* bound: crashes, lost routes and failed file creations

ASSUME NodeAssumption ==
  Node \subseteq Nat \ {0} /\ IsFiniteSet(Node) /\ Uploader \subseteq Node
ASSUME ReplicaAssumption == blockReplica \in Nat \ {0}
ASSUME SlotAssumption == NoSlot \notin Slot
ASSUME BoundAssumption ==
  /\ MaxLocal \in Nat /\ Gen \in Nat \ {0} /\ MaxOps \in Nat /\ MaxFaults \in Nat
  /\ remoteSizeMax \in Nat /\ CacheFlush \in Nat

VARIABLES
  up,        \* up[n]: the server process of machine n runs
  disk,      \* disk[n][id]: content of the block file, 0 when there is none
  local,     \* local[n][id]: attr object _localIDs maps id to, 0 for none
  remote,    \* remote[n][id]: the same for _remoteIDs
  attr,      \* the BlockLocationAttr objects, shared by maps and tasks
  localMax,  \* BlockResolver::_localMax
  route,     \* keys of Router::_routingTable
  msgs,      \* one-way messages accepted by a peer and not handled yet
  task,      \* the running handlers
  gen,       \* history: how often an id was allocated and saved
  deleted,   \* history: the ids whose deletion was accepted
  ops, faults

vars == <<up, disk, local, remote, attr, localMax, route, msgs, task, gen,
          deleted, ops, faults>>

-----------------------------------------------------------------------------
\* An id is the machine that allocated it and a local number (buildBlockID).
BlockID == Uploader \X (1..MaxLocal)
NoBlock == <<0, 0>>
Before(i, j) == i[1] < j[1] \/ (i[1] = j[1] /\ i[2] < j[2])

\* A file holds the block of the k-th allocation of its id, or the rest of a
\* write that a crash cut short.
Torn == -1
Content == Nat \cup {Torn}

Attr == [machine: SUBSET Node, state: {"Available", "Deleting"}]
NewAttr(m) == [machine |-> {m}, state |-> "Available"]
NoAttr == [machine |-> {}, state |-> "Available"]
Ref == Node \X BlockID \X (1..Gen)

Msg == [type: {"RequestBlockLocation", "RequestBlockLocationACK", "DoReplica",
               "UpdateReplica", "DoDelete", "DeleteBlock"},
        src: Node, dst: Node, block: BlockID, machine: SUBSET Node]

Task == [pc: {"idle", "ask", "check", "verdict", "remote", "wait", "choose",
              "load", "done", "use", "erase", "pick", "next", "copying",
              "acked", "save", "pass", "ub"},
         op: {"get", "delete", "dodelete", "replica", "pass", "copy"},
         node: Node \cup {0}, block: BlockID \cup {NoBlock},
         machine: SUBSET Node, ref: 0..Gen, idx: Int,
         alive: BOOLEAN, short: BOOLEAN, peer: Node \cup {0}, data: Content,
         conn: Slot \cup {NoSlot}]

NewTask(pc, op, n, id, S) ==
  [pc |-> pc, op |-> op, node |-> n, block |-> id, machine |-> S, ref |-> 0,
   idx |-> 0, alive |-> FALSE, short |-> FALSE, peer |-> 0, data |-> 0,
   conn |-> NoSlot]
Idle == NewTask("idle", "get", 0, NoBlock, {})

-----------------------------------------------------------------------------
\* Machine lists are sorted and without duplicates: sets, in numeric order.
Nth(S, i) == CHOOSE m \in S : Cardinality({k \in S : k < m}) = i - 1
First(S) == Nth(S, 1)

\* Mutant: addMachine without its size test.
AddAllUncapped(S, L) == S \cup L

\* BlockLocationAttr::addMachine for every machine of L in turn.
AddAll(S, L) ==
  S \cup {m \in L \ S :
            Cardinality(S) + Cardinality({k \in L \ S : k < m}) < blockReplica}

\* What is left of n's routing table after it connected to all of S.
Reached(n, S) == {m \in route[n] : m \in S => up[m]}

\* The messages that leave when n sends to all of S.
Sent(n, S, type, id, L) ==
  {[type |-> type, src |-> n, dst |-> m, block |-> id, machine |-> L] :
     m \in {k \in S \cap route[n] : up[k]}}

Send(n, S, type, id, L) ==
  /\ msgs' = msgs \cup Sent(n, S, type, id, L)
  /\ route' = [route EXCEPT ![n] = Reached(n, S)]

\* The attr objects of id that neither map of n nor a task points to: the
\* code makes a fresh one; the model takes the lowest.
Unused(n, id) ==
  (1..Gen) \ ({local[n][id], remote[n][id]} \cup
              {task[t].ref : t \in {u \in Slot : task[u].node = n
                                                 /\ task[u].block = id}})
Fresh(n, id) == {g \in Unused(n, id) : \A h \in Unused(n, id) : g <= h}

\* BlockResolver::forceAddLocalID
AddLocal(n, id) ==
  \E g \in Fresh(n, id) :
    /\ attr' = [attr EXCEPT ![<<n, id, g>>] = NewAttr(n)]
    /\ local' = [local EXCEPT ![n][id] = g]
    /\ remote' = [remote EXCEPT ![n][id] = 0]

\* BlockResolver::removeLocalID and removeRemoteID
Remove(n, id) ==
  /\ local' = [local EXCEPT ![n][id] = 0]
  /\ remote' = [remote EXCEPT ![n][id] = 0]
  /\ disk' = [disk EXCEPT ![n][id] = 0]

Step(s, t) == task' = [task EXCEPT ![s] = t]
\* A handler returns; checkAllReplica goes on with its next block.
Returned(s) ==
  IF task[s].op = "pass"
  THEN NewTask("pass", "pass", task[s].node, task[s].block, {})
  ELSE Idle

StartOp == ops < MaxOps /\ ops' = ops + 1
Fault == faults < MaxFaults /\ faults' = faults + 1

Init ==
  /\ up = [n \in Node |-> TRUE]
  /\ disk = [n \in Node |-> [id \in BlockID |-> 0]]
  /\ local = [n \in Node |-> [id \in BlockID |-> 0]]
  /\ remote = [n \in Node |-> [id \in BlockID |-> 0]]
  /\ attr = [r \in Ref |-> NoAttr]
  /\ localMax = [n \in Node |-> 0]
  /\ route = [n \in Node |-> Node \ {n}]
  /\ msgs = {}
  /\ task = [s \in Slot |-> Idle]
  /\ gen = [id \in BlockID |-> 0]
  /\ deleted = {}
  /\ ops = 0
  /\ faults = 0

-----------------------------------------------------------------------------
(* Operations of the file layer and of the operator.                       *)

\* BlockManager::saveBlock of a new block: a fresh id, its file, its entry.
Save(n) ==
  LET id == <<n, localMax[n] + 1>> IN
  /\ StartOp /\ up[n] /\ n \in Uploader /\ localMax[n] < MaxLocal
  /\ localMax' = [localMax EXCEPT ![n] = @ + 1]
  /\ disk' = [disk EXCEPT ![n][id] = gen[id] + 1]
  /\ gen' = [gen EXCEPT ![id] = @ + 1]
  /\ AddLocal(n, id)
  /\ UNCHANGED <<up, route, msgs, task, deleted, faults>>

\* The file cannot be created: the id is spent, nothing else changes.
SaveFails(n) ==
  /\ StartOp /\ Fault /\ up[n] /\ n \in Uploader /\ localMax[n] < MaxLocal
  /\ localMax' = [localMax EXCEPT ![n] = @ + 1]
  /\ UNCHANGED <<up, disk, local, remote, attr, route, msgs, task, gen, deleted>>

Begin(s, t) ==
  /\ task[s].pc = "idle"
  /\ Step(s, t)

\* BlockManager::getMeta and getData
Get(s, n, id) ==
  /\ StartOp /\ up[n] /\ gen[id] > 0
  /\ Begin(s, NewTask("ask", "get", n, id, {}))
  /\ UNCHANGED <<up, disk, local, remote, attr, localMax, route, msgs, gen,
                 deleted, faults>>

\* BlockManager::deleteBlock
Delete(s, n, id) ==
  /\ StartOp /\ up[n] /\ gen[id] > 0
  /\ Begin(s, NewTask("ask", "delete", n, id, {}))
  /\ UNCHANGED <<up, disk, local, remote, attr, localMax, route, msgs, gen,
                 deleted, faults>>

Listed(n) == {id \in BlockID : local[n][id] # 0}
Lowest(I) == {i \in I : \A j \in I : i = j \/ Before(i, j)}
\* handleDoReplica for a block of checkAllReplica, asked for its own list
PassTask(n, id) ==
  NewTask("ask", "pass", n, id, attr[<<n, id, local[n][id]>>].machine)

\* SIGUSR1: BlockResolver::checkAllReplica starts with the first local block.
CheckAllReplica(s, n) ==
  /\ StartOp /\ up[n]
  /\ \E id \in Lowest(Listed(n)) : Begin(s, PassTask(n, id))
  /\ UNCHANGED <<up, disk, local, remote, attr, localMax, route, msgs, gen,
                 deleted, faults>>

\* ... and takes the next one, over an iterator whose entry may be gone.
NextPass(s) ==
  LET n == task[s].node
      id == task[s].block
      later == {i \in Listed(n) : Before(id, i)} IN
  /\ task[s].pc = "pass"
  /\ \/ local[n][id] = 0 /\ Step(s, [task[s] EXCEPT !.pc = "ub"])
     \/ local[n][id] # 0 /\ later = {} /\ Step(s, Idle)
     \/ local[n][id] # 0 /\ \E i \in Lowest(later) : Step(s, PassTask(n, i))
  /\ UNCHANGED <<up, disk, local, remote, attr, localMax, route, msgs, gen,
                 deleted, ops, faults>>

-----------------------------------------------------------------------------
(* BlockResolver::askBlock, and askBlockDetail for all but "get".          *)

Asking(s, pc) ==
  NewTask(pc, task[s].op, task[s].node, task[s].block, task[s].machine)
\* askBlock chose machine m: a get loads from it, the others look up the attr.
Answered(s, m) ==
  IF task[s].op = "get" THEN [Asking(s, "load") EXCEPT !.peer = m]
                        ELSE Asking(s, "use")

\* The local index answers, or the cache once it is checked, or the others.
AskBlock(s) ==
  LET n == task[s].node
      id == task[s].block
      g == remote[n][id]
      size == Cardinality(attr[<<n, id, g>>].machine) IN
  /\ task[s].pc = "ask"
  /\ \/ /\ local[n][id] # 0
        /\ Step(s, Answered(s, n))
     \/ /\ local[n][id] = 0 /\ g # 0
        /\ Step(s, [task[s] EXCEPT !.pc = "check", !.ref = g, !.idx = size,
                                   !.short = size < blockReplica])
     \/ /\ local[n][id] = 0 /\ g = 0
        /\ Step(s, Asking(s, "remote"))
  /\ UNCHANGED <<up, disk, local, remote, attr, localMax, route, msgs, gen,
                 deleted, ops, faults>>

\* checkReplica works on the map's own pointer: it is gone with the entry.
Checked(s) ==
  LET n == task[s].node
      id == task[s].block
  IN attr[<<n, id, task[s].ref>>].machine
Checking(s) == remote[task[s].node][task[s].block] = task[s].ref

CheckLost(s) ==
  /\ task[s].pc \in {"check", "verdict"} /\ ~Checking(s)
  /\ Step(s, [task[s] EXCEPT !.pc = "ub"])
  /\ UNCHANGED <<up, disk, local, remote, attr, localMax, route, msgs, gen,
                 deleted, ops, faults>>

\* MC_CheckBlockAlive to the idx-th machine of the list, from the last one
CheckAlive(s) ==
  LET n == task[s].node
      m == Nth(Checked(s), task[s].idx) IN
  /\ task[s].pc = "check" /\ Checking(s)
  /\ task[s].idx \in 1..Cardinality(Checked(s))
  /\ \E alive \in BOOLEAN :
       /\ alive => m \in route[n] /\ up[m] /\ local[m][task[s].block] # 0
       /\ Step(s, [task[s] EXCEPT !.pc = "verdict", !.alive = alive])
  /\ route' = [route EXCEPT ![n] = Reached(n, {m})]
  /\ UNCHANGED <<up, disk, local, remote, attr, localMax, msgs, gen, deleted,
                 ops, faults>>

\* A failed check erases whatever is at that index by now.
Verdict(s) ==
  LET r == <<task[s].node, task[s].block, task[s].ref>>
      i == task[s].idx
      S == Checked(s) IN
  /\ task[s].pc = "verdict" /\ Checking(s)
  /\ \/ /\ task[s].alive
        /\ Step(s, [task[s] EXCEPT !.pc = "check", !.idx = i - 1])
        /\ UNCHANGED attr
     \/ /\ ~task[s].alive /\ i \in 1..Cardinality(S)
        /\ attr' = [attr EXCEPT ![r].machine = S \ {Nth(S, i)}]
        /\ Step(s, [task[s] EXCEPT !.pc = "check", !.idx = i - 1, !.short = TRUE])
     \/ /\ ~task[s].alive /\ i \notin 1..Cardinality(S)
        /\ Step(s, [task[s] EXCEPT !.pc = "ub"])
        /\ UNCHANGED attr
  /\ UNCHANGED <<up, disk, local, remote, localMax, route, msgs, gen, deleted,
                 ops, faults>>

\* No machine answered: ask the others.  One is missing: MC_DoReplica.
CheckDone(s) ==
  LET n == task[s].node
      id == task[s].block
      S == Checked(s) IN
  /\ task[s].pc = "check" /\ Checking(s)
  /\ task[s].idx \notin 1..Cardinality(S)
  /\ \/ /\ S = {}
        /\ remote' = [remote EXCEPT ![n][id] = 0]
        /\ Step(s, Asking(s, "remote"))
        /\ UNCHANGED <<route, msgs>>
     \/ /\ S # {}
        /\ Step(s, [Asking(s, "choose") EXCEPT !.ref = task[s].ref])
        /\ IF task[s].short THEN Send(n, {First(S)}, "DoReplica", id, S)
                            ELSE UNCHANGED <<route, msgs>>
        /\ UNCHANGED remote
  /\ UNCHANGED <<up, disk, local, attr, localMax, gen, deleted, ops, faults>>

\* askRemoteBlock: one asker per process holds _sig_lock.
AskRemote(s) ==
  LET n == task[s].node IN
  /\ task[s].pc = "remote"
  /\ \A t \in Slot : task[t].node = n => task[t].pc # "wait"
  /\ Send(n, route[n], "RequestBlockLocation", task[s].block, {})
  /\ Step(s, [task[s] EXCEPT !.pc = "wait"])
  /\ UNCHANGED <<up, disk, local, remote, attr, localMax, gen, deleted, ops,
                 faults>>

\* An answer or the timeout (module RemoteAsk) ends the wait.
WaitEnd(s) ==
  LET g == remote[task[s].node][task[s].block] IN
  /\ task[s].pc = "wait"
  /\ \/ g # 0 /\ Step(s, [task[s] EXCEPT !.pc = "choose", !.ref = g])
     \/ g = 0 /\ task[s].op = "get" /\ Step(s, [task[s] EXCEPT !.pc = "done"])
     \/ g = 0 /\ task[s].op # "get" /\ Step(s, Returned(s))
  /\ UNCHANGED <<up, disk, local, remote, attr, localMax, route, msgs, gen,
                 deleted, ops, faults>>

\* chooseReplica asks every machine for its memory and takes any of them.
Choose(s) ==
  LET S == Checked(s) IN
  /\ task[s].pc = "choose"
  /\ \/ /\ S = {}
        /\ Step(s, [task[s] EXCEPT !.pc = "ub"])
     \/ \E m \in S :
          Step(s, Answered(s, m))
  /\ route' = [route EXCEPT ![task[s].node] = Reached(task[s].node, S)]
  /\ UNCHANGED <<up, disk, local, remote, attr, localMax, msgs, gen, deleted,
                 ops, faults>>

-----------------------------------------------------------------------------
(* BlockLoader::getData for a get and for a copy.                          *)

\* handleRequestBlockData opens the file and never looks at the index.
Readable(n, m, id) ==
  disk[m][id] # 0 /\ (m = n \/ (m \in route[n] /\ up[m]))

Load(s) ==
  LET n == task[s].node
      m == task[s].peer
      id == task[s].block IN
  /\ task[s].pc = "load" /\ Readable(n, m, id)
  /\ Step(s, [task[s] EXCEPT !.pc = IF task[s].op = "get" THEN "done" ELSE "save",
                             !.data = disk[m][id]])
  /\ UNCHANGED <<up, disk, local, remote, attr, localMax, route, msgs, gen,
                 deleted, ops, faults>>

\* Mutants: the copier answers though it has no block; it keeps the socket.
HangUpAcked(s) ==
  task' = [t \in Slot |->
             IF t = s THEN Idle
             ELSE IF task[t].pc = "copying" /\ task[t].conn = s
                  THEN [task[t] EXCEPT !.pc = "acked", !.conn = NoSlot]
                  ELSE task[t]]
HangUpSilent(s) == Step(s, Idle)

\* The connection of a copy closes: the replicating task goes on without it.
HangUp(s) ==
  task' = [t \in Slot |->
             IF t = s THEN Idle
             ELSE IF task[t].pc = "copying" /\ task[t].conn = s
                  THEN [task[t] EXCEPT !.pc = "next", !.conn = NoSlot]
                  ELSE task[t]]

\* Mutant: a failed load calls removeLocalID for removeRemoteID.
LoadFailsErasing(s) ==
  /\ task[s].pc = "load"
  /\ Remove(task[s].node, task[s].block)
  /\ IF task[s].op = "get" THEN Step(s, [task[s] EXCEPT !.pc = "done"])
                           ELSE HangUp(s)
  /\ UNCHANGED <<up, attr, localMax, route, msgs, gen, deleted, ops, faults>>

LoadFails(s) ==
  LET n == task[s].node
      m == task[s].peer IN
  /\ task[s].pc = "load"
  /\ remote' = [remote EXCEPT ![n][task[s].block] = 0]
  /\ route' = [route EXCEPT ![n] = Reached(n, {m})]
  /\ IF task[s].op = "get" THEN Step(s, [task[s] EXCEPT !.pc = "done"])
                           ELSE HangUp(s)
  /\ UNCHANGED <<up, disk, local, attr, localMax, msgs, gen, deleted, ops, faults>>

\* The caller of getMeta or getData has its block.
Deliver(s) ==
  /\ task[s].pc = "done"
  /\ Step(s, Idle)
  /\ UNCHANGED <<up, disk, local, remote, attr, localMax, route, msgs, gen,
                 deleted, ops, faults>>

-----------------------------------------------------------------------------
(* What askBlockDetail is asked for: deletion and replication.             *)

\* askBlockDetail looks both maps up again; with no entry it reads past the end.
Detail(s) ==
  LET n == task[s].node
      id == task[s].block
  IN IF local[n][id] # 0 THEN local[n][id] ELSE remote[n][id]
DetailRef(s) == <<task[s].node, task[s].block, Detail(s)>>

DetailLost(s) ==
  /\ task[s].pc = "use" /\ Detail(s) = 0
  /\ Step(s, [task[s] EXCEPT !.pc = "ub"])
  /\ UNCHANGED <<up, disk, local, remote, attr, localMax, route, msgs, gen,
                 deleted, ops, faults>>

\* deleteBlock: the first machine of the list does it.
UseDelete(s) ==
  LET n == task[s].node
      id == task[s].block
      S == attr[DetailRef(s)].machine IN
  /\ task[s].pc = "use" /\ task[s].op = "delete" /\ Detail(s) # 0
  /\ \/ /\ S = {}
        /\ Step(s, Idle)
        /\ UNCHANGED <<route, msgs>>
     \/ /\ S # {} /\ First(S) = n
        /\ Step(s, NewTask("ask", "dodelete", n, id, {}))
        /\ UNCHANGED <<route, msgs>>
     \/ /\ S # {} /\ First(S) # n
        /\ Step(s, Idle)
        /\ Send(n, {First(S)}, "DoDelete", id, {})
  /\ UNCHANGED <<up, disk, local, remote, attr, localMax, gen, deleted, ops,
                 faults>>

\* handleDoDelete marks the attr, broadcasts MC_DeleteBlock ...
UseDoDelete(s) ==
  LET n == task[s].node
      id == task[s].block IN
  /\ task[s].pc = "use" /\ task[s].op = "dodelete" /\ Detail(s) # 0
  /\ attr' = [attr EXCEPT ![DetailRef(s)].state = "Deleting"]
  /\ deleted' = deleted \cup {id}
  /\ Send(n, route[n], "DeleteBlock", id, {})
  /\ Step(s, Asking(s, "erase"))
  /\ UNCHANGED <<up, disk, local, remote, localMax, gen, ops, faults>>

\* ... and erases its own copy.
EraseLocal(s) ==
  /\ task[s].pc = "erase"
  /\ Remove(task[s].node, task[s].block)
  /\ Step(s, Idle)
  /\ UNCHANGED <<up, attr, localMax, route, msgs, gen, deleted, ops, faults>>

\* handleDoReplica takes the list it was sent, unless the block is going.
UseReplica(s) ==
  LET r == DetailRef(s) IN
  /\ task[s].pc = "use" /\ task[s].op \in {"replica", "pass"} /\ Detail(s) # 0
  /\ \/ /\ attr[r].state # "Available"
        /\ Step(s, Returned(s))
        /\ UNCHANGED attr
     \/ /\ attr[r].state = "Available"
        /\ attr' = [attr EXCEPT ![r].machine = AddAll({}, task[s].machine)]
        /\ Step(s, [task[s] EXCEPT !.pc = "pick", !.machine = {}, !.ref = Detail(s)])
  /\ UNCHANGED <<up, disk, local, remote, localMax, route, msgs, gen, deleted,
                 ops, faults>>

Held(s) == attr[<<task[s].node, task[s].block, task[s].ref>>].machine

\* pickMachineBesideList draws until it has enough: it spins while it cannot.
Pick(s) ==
  LET num == blockReplica - Cardinality(Held(s))
      table == route[task[s].node] IN
  /\ task[s].pc = "pick"
  /\ \E C \in SUBSET (table \ Held(s)) :
       /\ IF num <= 0 \/ table = {} THEN C = {} ELSE Cardinality(C) = num
       /\ Step(s, [task[s] EXCEPT !.pc = "next", !.machine = C])
  /\ UNCHANGED <<up, disk, local, remote, attr, localMax, route, msgs, gen,
                 deleted, ops, faults>>

\* MC_CopyBlockFromRemote to a candidate: handled, or refused.
SendCopy(s) ==
  LET n == task[s].node IN
  /\ task[s].pc = "next"
  /\ \E m \in task[s].machine, c \in Slot :
       /\ m \in route[n] /\ up[m] /\ task[c].pc = "idle"
       /\ task' = [task EXCEPT
            ![s] = [task[s] EXCEPT !.pc = "copying", !.peer = m, !.conn = c,
                      !.machine = task[s].machine \ {m}],
            ![c] = [NewTask("load", "copy", m, task[s].block, {})
                      EXCEPT !.peer = n]]
  /\ UNCHANGED <<up, disk, local, remote, attr, localMax, route, msgs, gen,
                 deleted, ops, faults>>

CopyRefused(s) ==
  /\ task[s].pc = "next"
  /\ \E m \in task[s].machine :
       /\ Step(s, [task[s] EXCEPT !.machine = @ \ {m}])
       /\ route' = [route EXCEPT ![task[s].node] = Reached(task[s].node, {m})]
  /\ UNCHANGED <<up, disk, local, remote, attr, localMax, msgs, gen, deleted,
                 ops, faults>>

\* handleCopyBlockFromRemote stores the block under the same id and answers.
SaveCopy(s) ==
  LET n == task[s].node
      id == task[s].block IN
  /\ task[s].pc = "save"
  /\ disk' = [disk EXCEPT ![n][id] = task[s].data]
  /\ AddLocal(n, id)
  /\ task' = [t \in Slot |->
                IF t = s THEN Idle
                ELSE IF task[t].pc = "copying" /\ task[t].conn = s
                     THEN [task[t] EXCEPT !.pc = "acked", !.conn = NoSlot]
                     ELSE task[t]]
  /\ UNCHANGED <<up, localMax, route, msgs, gen, deleted, ops, faults>>

SaveCopyFails(s) ==
  /\ task[s].pc = "save" /\ Fault
  /\ HangUp(s)
  /\ UNCHANGED <<up, disk, local, remote, attr, localMax, route, msgs, gen,
                 deleted, ops>>

\* The candidate that answered is listed.
ReplicaAck(s) ==
  LET r == <<task[s].node, task[s].block, task[s].ref>> IN
  /\ task[s].pc = "acked"
  /\ attr' = [attr EXCEPT ![r].machine = AddAll(Held(s), {task[s].peer})]
  /\ Step(s, [task[s] EXCEPT !.pc = "next", !.peer = 0])
  /\ UNCHANGED <<up, disk, local, remote, localMax, route, msgs, gen, deleted,
                 ops, faults>>

\* BlockUpdater::updateRemoteBlockInfo broadcasts the new list.
ReplicaDone(s) ==
  LET n == task[s].node IN
  /\ task[s].pc = "next" /\ task[s].machine = {}
  /\ Send(n, route[n], "UpdateReplica", task[s].block, Held(s))
  /\ Step(s, Returned(s))
  /\ UNCHANGED <<up, disk, local, remote, attr, localMax, gen, deleted, ops,
                 faults>>

-----------------------------------------------------------------------------
(* Handlers of the one-way messages.  A message that finds the dispatcher  *)
(* busy is dropped: that is a message no step ever handles.                *)

Receive(m, type) == m \in msgs /\ m.type = type /\ up[m.dst]

HandleRequestBlockLocation(m) ==
  LET n == m.dst
      g == local[n][m.block]
      L == attr[<<n, m.block, g>>].machine
      ack == IF g = 0 THEN {} ELSE Sent(n, {m.src}, "RequestBlockLocationACK", m.block, L)
  IN
  /\ Receive(m, "RequestBlockLocation")
  /\ msgs' = (msgs \ {m}) \cup ack  \* an empty answer changes nothing
  /\ route' = [route EXCEPT ![n] = Reached(n, {m.src})]
  /\ UNCHANGED <<up, disk, local, remote, attr, localMax, task, gen, deleted,
                 ops, faults>>

\* cleanCache drops the first entries of a full cache.
Cached(n) == {id \in BlockID : remote[n][id] # 0}
Kept(n) ==
  IF Cardinality(Cached(n)) < remoteSizeMax THEN Cached(n)
  ELSE {id \in Cached(n) :
          Cardinality({i \in Cached(n) : Before(i, id)}) >= CacheFlush}

HandleRequestBlockLocationACK(m) ==
  LET n == m.dst
      id == m.block
      g == remote[n][id] IN
  /\ Receive(m, "RequestBlockLocationACK")
  /\ msgs' = msgs \ {m}
  /\ \/ /\ g # 0
        /\ attr' = [attr EXCEPT ![<<n, id, g>>].machine = AddAll(@, m.machine)]
        /\ UNCHANGED remote
     \/ /\ g = 0
        /\ \E h \in Fresh(n, id) :
             /\ attr' = [attr EXCEPT ![<<n, id, h>>] =
                           [NoAttr EXCEPT !.machine = AddAll({}, m.machine)]]
             /\ remote' = [remote EXCEPT ![n] =
                  [i \in BlockID |-> IF i = id THEN h
                                     ELSE IF i \in Kept(n) THEN @[i] ELSE 0]]
  /\ UNCHANGED <<up, disk, local, localMax, route, task, gen, deleted, ops,
                 faults>>

\* handleUpdateReplica overwrites both entries of the block.
HandleUpdateReplica(m) ==
  LET n == m.dst
      Known == {local[n][m.block], remote[n][m.block]} \ {0} IN
  /\ Receive(m, "UpdateReplica")
  /\ msgs' = msgs \ {m}
  /\ attr' = [r \in Ref |->
                IF r[1] = n /\ r[2] = m.block /\ r[3] \in Known
                THEN [attr[r] EXCEPT !.machine = m.machine] ELSE attr[r]]
  /\ UNCHANGED <<up, disk, local, remote, localMax, route, task, gen, deleted,
                 ops, faults>>

HandleDeleteBlock(m) ==
  /\ Receive(m, "DeleteBlock")
  /\ msgs' = msgs \ {m}
  /\ Remove(m.dst, m.block)
  /\ UNCHANGED <<up, attr, localMax, route, task, gen, deleted, ops, faults>>

\* A pool thread takes the message up: handleDoReplica and handleDoDelete.
HandleDoReplica(s, m) ==
  /\ Receive(m, "DoReplica")
  /\ msgs' = msgs \ {m}
  /\ Begin(s, NewTask("ask", "replica", m.dst, m.block, m.machine))
  /\ UNCHANGED <<up, disk, local, remote, attr, localMax, route, gen, deleted,
                 ops, faults>>

HandleDoDelete(s, m) ==
  /\ Receive(m, "DoDelete")
  /\ msgs' = msgs \ {m}
  /\ Begin(s, NewTask("ask", "dodelete", m.dst, m.block, {}))
  /\ UNCHANGED <<up, disk, local, remote, attr, localMax, route, gen, deleted,
                 ops, faults>>

-----------------------------------------------------------------------------
(* Crashes, restarts and routes.                                           *)

\* The files n may be writing when it dies: copies, and a new block's.
Writing(n) ==
  {id \in BlockID :
     /\ disk[n][id] = 0
     /\ \/ \E s \in Slot : task[s].pc = "save" /\ task[s].node = n
                           /\ task[s].block = id
        \/ n \in Uploader /\ id = <<n, localMax[n] + 1>>}

\* A file created and not written yet keeps its name (BlockSaver::saveBlock).
Crash(n) ==
  /\ Fault /\ up[n]
  /\ up' = [up EXCEPT ![n] = FALSE]
  /\ \E T \in SUBSET Writing(n) :
       disk' = [disk EXCEPT ![n] = [id \in BlockID |-> IF id \in T THEN Torn ELSE @[id]]]
  /\ local' = [local EXCEPT ![n] = [id \in BlockID |-> 0]]
  /\ remote' = [remote EXCEPT ![n] = [id \in BlockID |-> 0]]
  /\ attr' = [r \in Ref |-> IF r[1] = n THEN NoAttr ELSE attr[r]]
  /\ localMax' = [localMax EXCEPT ![n] = 0]
  /\ msgs' = {m \in msgs : m.dst # n}
  /\ task' = [s \in Slot |->
                IF task[s].node = n THEN Idle
                ELSE IF task[s].pc = "copying" /\ task[task[s].conn].node = n
                     THEN [task[s] EXCEPT !.pc = "next", !.conn = NoSlot]
                     ELSE task[s]]
  /\ UNCHANGED <<route, gen, deleted, ops>>

\* Mutants: loadLocalIDs lists the files and leaves _localMax at 0; a machine
\* takes its own line of a fetched routing table.
OwnNumbersSkipped(n) == {}
JoinsItself(n) == {m \in Node : up[m]} \cup {n}

\* The peers a machine may reach when it joins, itself left out (initTable).
Joinable(n) == {m \in Node \ {n} : up[m]}
OwnNumbers(n) == {id[2] : id \in {i \in BlockID : i[1] = n /\ disk[n][i] # 0}}

\* loadLocalIDs lists every file and counts on from the highest own number;
\* the machine joins again with the id of its snapshot (module RouterJoin).
Restart(n) ==
  /\ ~up[n]
  /\ up' = [up EXCEPT ![n] = TRUE]
  /\ local' = [local EXCEPT ![n] =
                 [id \in BlockID |-> IF disk[n][id] # 0 THEN 1 ELSE 0]]
  /\ attr' = [r \in Ref |->
                IF r[1] = n /\ r[3] = 1 /\ disk[n][r[2]] # 0 THEN NewAttr(n)
                ELSE attr[r]]
  /\ \E k \in {0} \cup OwnNumbers(n) :
       /\ \A j \in OwnNumbers(n) : j <= k
       /\ localMax' = [localMax EXCEPT ![n] = k]
  /\ \E R \in SUBSET Joinable(n) :
       route' = [m \in Node |-> IF m = n THEN R
                                ELSE IF m \in R THEN route[m] \cup {n}
                                ELSE route[m]]
  /\ UNCHANGED <<disk, remote, msgs, task, gen, deleted, ops, faults>>

\* A connect that times out costs the route, though the peer is up.
LoseRoute(n) ==
  /\ Fault /\ up[n]
  /\ \E m \in route[n] : route' = [route EXCEPT ![n] = @ \ {m}]
  /\ UNCHANGED <<up, disk, local, remote, attr, localMax, msgs, task, gen,
                 deleted, ops>>

-----------------------------------------------------------------------------
Operation ==
  \E n \in Node :
    \/ Save(n) \/ SaveFails(n)
    \/ \E s \in Slot : CheckAllReplica(s, n)
                       \/ \E id \in BlockID : Get(s, n, id) \/ Delete(s, n, id)

TaskStep(s) ==
  \/ NextPass(s)
  \/ AskBlock(s) \/ CheckLost(s) \/ CheckAlive(s) \/ Verdict(s) \/ CheckDone(s)
  \/ AskRemote(s) \/ WaitEnd(s) \/ Choose(s)
  \/ Load(s) \/ LoadFails(s) \/ Deliver(s)
  \/ DetailLost(s) \/ UseDelete(s) \/ UseDoDelete(s) \/ EraseLocal(s)
  \/ UseReplica(s) \/ Pick(s) \/ SendCopy(s) \/ CopyRefused(s)
  \/ SaveCopy(s) \/ SaveCopyFails(s) \/ ReplicaAck(s) \/ ReplicaDone(s)

Handle ==
  \E m \in msgs :
    \/ HandleRequestBlockLocation(m) \/ HandleRequestBlockLocationACK(m)
    \/ HandleUpdateReplica(m) \/ HandleDeleteBlock(m)
    \/ \E s \in Slot : HandleDoReplica(s, m) \/ HandleDoDelete(s, m)

Environment == \E n \in Node : Crash(n) \/ Restart(n) \/ LoseRoute(n)

Next == Operation \/ (\E s \in Slot : TaskStep(s)) \/ Handle \/ Environment

Spec == Init /\ [][Next]_vars

-----------------------------------------------------------------------------
(* Properties.                                                             *)

\* What a handler has in hand when it reaches a program counter.
Ready(t) ==
  /\ t.pc # "idle" => t.node \in Node /\ t.block \in BlockID
  /\ t.pc \in {"load", "save", "copying", "acked"} => t.peer \in Node
  /\ t.pc \in {"check", "verdict", "choose", "pick", "next", "copying", "acked"}
       => t.ref # 0

MemoryOK ==
  /\ up \in [Node -> BOOLEAN]
  /\ disk \in [Node -> [BlockID -> Content]]
  /\ local \in [Node -> [BlockID -> 0..Gen]]
  /\ remote \in [Node -> [BlockID -> 0..Gen]]
  /\ attr \in [Ref -> Attr]
  /\ localMax \in [Node -> 0..MaxLocal]
  /\ route \in [Node -> SUBSET Node] /\ \A n \in Node : n \notin route[n]
  /\ msgs \subseteq Msg
  /\ gen \in [BlockID -> Nat]
  /\ deleted \subseteq BlockID
  /\ ops \in Nat /\ faults \in Nat
TasksOK == task \in [Slot -> Task] /\ \A s \in Slot : Ready(task[s])

\* Every variable keeps its type, no machine has a route to itself, and no
\* handler goes on without the block, peer and attr object it works on.
TypeOK == MemoryOK /\ TasksOK

Holds(m, id) == disk[m][id] # 0

\* A machine that any index entry, cache entry, message or running replication
\* of any machine lists for a block has the file of that block, until the
\* deletion of the block is accepted: replication acks, stale caches, races of
\* UpdateReplica and restarts never make anyone believe in a copy that is not
\* there (BlockResolver.cpp, handleDoReplica).
ListingsTruthful ==
  /\ \A n \in Node, id \in BlockID, g \in 1..Gen :
       id \notin deleted => \A m \in attr[<<n, id, g>>].machine : Holds(m, id)
  /\ \A msg \in msgs :
       msg.block \notin deleted => \A m \in msg.machine : Holds(m, msg.block)
  /\ \A s \in Slot :
       task[s].pc = "acked" /\ task[s].block \notin deleted
         => Holds(task[s].peer, task[s].block)

\* Every whole copy of a block that was not deleted is the block that was
\* saved, wherever replication carried it, and the machine that allocated the
\* id keeps a file of it: no sequence of copies, crashes and restarts lets a
\* second block take the name of a live one (newLocalID after loadLocalIDs).
\* What a crash tore is replicated as if it were whole, see LoadsWholeBlocks.
CopiesAgree ==
  \A id \in BlockID \ deleted :
    /\ \A n \in Node : disk[n][id] \in {0, Torn, gen[id]}
    /\ gen[id] > 0 => Holds(id[1], id)

\* A load that succeeds has a whole block, as the size check of
\* BlockLoader::getData says.
LoadsWholeBlocks ==
  \A s \in Slot : task[s].pc \in {"done", "save"} => task[s].data # Torn

\* handleDoReplica asks pickMachineBesideList for blockReplica minus the size
\* of the list as an unsigned number: no interleaving of merges, updates and
\* acknowledgements makes the list longer than blockReplica.
ReplicaCap ==
  \A r \in Ref : Cardinality(attr[r].machine) <= blockReplica

\* A task that still has the file of a block to ask for or to write never runs
\* on a machine whose process is gone, and a replication waits for the one copy
\* it asked for: a crash leaves no handler behind (sendTo, receive).
TasksConnected ==
  \A s \in Slot :
    /\ task[s].pc # "idle" => up[task[s].node]
    /\ task[s].pc = "copying" =>
         /\ task[task[s].conn].op = "copy" /\ task[task[s].conn].pc \in {"load", "save"}
         /\ task[task[s].conn].node = task[s].peer
         /\ task[task[s].conn].block = task[s].block

\* A file that a delete erased stays erased: once the deletion of a block is
\* accepted, no machine that does not hold it gets a copy
\* (the "invalid request replica" guard of handleDoReplica).
NoCopyAfterDelete ==
  [][\A n \in Node, id \in BlockID :
       id \in deleted /\ ~Holds(n, id) => disk'[n][id] = 0]_vars

\* The block layer is a store of blocks as module BlockRegister describes it.
Register ==
  INSTANCE BlockRegister WITH
    Block <- BlockID, Reader <- Slot, saved <- gen, gone <- deleted,
    answer <- [s \in Slot |-> IF task[s].pc = "done" THEN task[s].data ELSE -2]
ImplementsRegister == Register!RSpec
=============================================================================
