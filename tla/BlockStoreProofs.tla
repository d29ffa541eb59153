-------------------------- MODULE BlockStoreProofs --------------------------
(***************************************************************************)
(* Theorems about BlockStore for every set of machines, replica count and  *)
(* bound: its types, that no list of machines is ever longer than          *)
(* blockReplica, that nobody is ever believed to hold a block he does not  *)
(* hold, that no handler is left on a machine that is gone, or waits for   *)
(* a copy that nobody makes, that all copies of a block are copies of the  *)
(* same block, and that BlockStore implements BlockRegister.               *)
(***************************************************************************)
EXTENDS BlockStore, FiniteSetTheorems, TLAPS

\* Lists are finite, so the index loop of checkReplica starts at a number.
LEMMA ListSize ==
  ASSUME NEW S \in SUBSET Node
  PROVE  Cardinality(S) \in Int
<1>1. IsFiniteSet(Node)  BY NodeAssumption
<1>2. IsFiniteSet(S)  BY <1>1, FS_Subset
<1> QED  BY <1>2, FS_CardinalityType

\* One entry of a map of one machine changes.
LEMMA EntryType ==
  ASSUME NEW A, NEW B, NEW C, NEW f \in [A -> [B -> C]],
         NEW a \in A, NEW b \in B, NEW c \in C
  PROVE  [f EXCEPT ![a][b] = c] \in [A -> [B -> C]]
OBVIOUS

MsgType == {"RequestBlockLocation", "RequestBlockLocationACK", "DoReplica",
            "UpdateReplica", "DoDelete", "DeleteBlock"}

\* A send that is typed leaves the messages and the routes typed.
LEMMA SendType ==
  ASSUME MemoryOK, NEW n \in Node, NEW S, NEW id \in BlockID, NEW L \in SUBSET Node,
         NEW type \in MsgType, Send(n, S, type, id, L)
  PROVE  /\ msgs' \subseteq Msg
         /\ route' \in [Node -> SUBSET Node] /\ \A m \in Node : m \notin route'[m]
BY DEF MemoryOK, Send, Sent, Reached, Msg, MsgType

\* addMachine adds nothing but what it is given.
LEMMA AddAllType ==
  ASSUME NEW S \in SUBSET Node, NEW L \in SUBSET Node
  PROVE  AddAll(S, L) \in SUBSET Node
BY DEF AddAll

\* forceAddLocalID writes one new object and two map entries.
LEMMA AddLocalType ==
  ASSUME MemoryOK, NEW n \in Node, NEW id \in BlockID, AddLocal(n, id)
  PROVE  /\ attr' \in [Ref -> Attr]
         /\ local' \in [Node -> [BlockID -> 0..Gen]]
         /\ remote' \in [Node -> [BlockID -> 0..Gen]]
<1>1. PICK g \in Fresh(n, id) :
        /\ attr' = [attr EXCEPT ![<<n, id, g>>] = NewAttr(n)]
        /\ local' = [local EXCEPT ![n][id] = g]
        /\ remote' = [remote EXCEPT ![n][id] = 0]
  BY DEF AddLocal
<1>2. g \in 1..Gen  BY DEF Fresh, Unused
<1>3. NewAttr(n) \in Attr  BY DEF NewAttr, Attr
<1>4. g \in 0..Gen /\ 0 \in 0..Gen  BY <1>2, BoundAssumption
<1>5. attr' \in [Ref -> Attr]  BY <1>1, <1>3 DEF MemoryOK
<1>6. local' \in [Node -> [BlockID -> 0..Gen]]  BY <1>1, <1>4 DEF MemoryOK
<1>7. remote' \in [Node -> [BlockID -> 0..Gen]]  BY <1>1, <1>4 DEF MemoryOK
<1> QED  BY <1>5, <1>6, <1>7

\* A handler at its first step, and one that returns, is well formed.
TaskPC == {"ask", "remote", "use", "erase", "pass", "done"}
TaskOp == {"get", "delete", "dodelete", "replica", "pass", "copy"}

LEMMA NewTaskType ==
  ASSUME NEW pc \in TaskPC, NEW op \in TaskOp,
         NEW n \in Node, NEW id \in BlockID, NEW S \in SUBSET Node
  PROVE  NewTask(pc, op, n, id, S) \in Task /\ Ready(NewTask(pc, op, n, id, S))
BY BoundAssumption DEF NewTask, Task, Ready, Content, TaskPC, TaskOp

\* A handler that loads from peer m, and one that holds attr object g.
LEMMA LoadTaskType ==
  ASSUME NEW op \in TaskOp, NEW n \in Node, NEW id \in BlockID,
         NEW S \in SUBSET Node, NEW m \in Node
  PROVE  [NewTask("load", op, n, id, S) EXCEPT !.peer = m] \in Task
         /\ Ready([NewTask("load", op, n, id, S) EXCEPT !.peer = m])
<1>1. NewTask("load", op, n, id, S) \in Task
  BY BoundAssumption DEF NewTask, Task, Content, TaskOp
<1>2. [NewTask("load", op, n, id, S) EXCEPT !.peer = m] \in Task  BY <1>1 DEF Task
<1>3. Ready([NewTask("load", op, n, id, S) EXCEPT !.peer = m])
  BY DEF NewTask, Ready
<1> QED  BY <1>2, <1>3

LEMMA ChooseTaskType ==
  ASSUME NEW op \in TaskOp, NEW n \in Node, NEW id \in BlockID,
         NEW S \in SUBSET Node, NEW g \in 0..Gen, g # 0
  PROVE  [NewTask("choose", op, n, id, S) EXCEPT !.ref = g] \in Task
         /\ Ready([NewTask("choose", op, n, id, S) EXCEPT !.ref = g])
<1>1. NewTask("choose", op, n, id, S) \in Task
  BY BoundAssumption DEF NewTask, Task, Content, TaskOp
<1>2. [NewTask("choose", op, n, id, S) EXCEPT !.ref = g] \in Task  BY <1>1 DEF Task
<1>3. Ready([NewTask("choose", op, n, id, S) EXCEPT !.ref = g])
  BY DEF NewTask, Ready
<1> QED  BY <1>2, <1>3

\* A handler that starts to check the machines of attr object g.
LEMMA CheckTaskType ==
  ASSUME NEW t \in Task, t.node \in Node, t.block \in BlockID,
         NEW g \in 0..Gen, g # 0, NEW i \in Int, NEW b \in BOOLEAN
  PROVE  [t EXCEPT !.pc = "check", !.ref = g, !.idx = i, !.short = b] \in Task
         /\ Ready([t EXCEPT !.pc = "check", !.ref = g, !.idx = i, !.short = b])
BY DEF Task, Ready

LEMMA IdleType == Idle \in Task /\ Ready(Idle)
BY BoundAssumption DEF NewTask, Idle, Task, Ready, Content

\* One handler moves: the others keep what they have.
LEMMA StepType ==
  ASSUME TasksOK, NEW s \in Slot, NEW t \in Task, Ready(t), Step(s, t)
  PROVE  TasksOK'
BY DEF TasksOK, Step

LEMMA TypeInit == Init => TypeOK
BY IdleType, NodeAssumption, BoundAssumption
DEF Init, TypeOK, MemoryOK, TasksOK, NoAttr, Attr, Ref, Content, Msg

LEMMA TypeOperation ==
  ASSUME TypeOK, Operation
  PROVE  TypeOK'
<1> USE DEF TypeOK
<1>1. ASSUME NEW n \in Node, Save(n)  PROVE TypeOK'
  <2> DEFINE id == <<n, localMax[n] + 1>>
  <2>1. id \in BlockID /\ localMax[n] + 1 \in 0..MaxLocal
    BY <1>1, BoundAssumption DEF Save, MemoryOK, BlockID
  <2>2. AddLocal(n, id)  BY <1>1 DEF Save
  <2> HIDE DEF id
  <2>3. gen[id] + 1 \in Nat /\ gen[id] + 1 \in Content
    BY <2>1 DEF MemoryOK, Content
  <2>4. MemoryOK'
    BY <1>1, <2>1, <2>2, <2>3, AddLocalType DEF Save, StartOp, MemoryOK, id
  <2> QED  BY <1>1, <2>4 DEF Save, TasksOK
<1>2. ASSUME NEW n \in Node, SaveFails(n)  PROVE TypeOK'
  BY <1>2, BoundAssumption DEF SaveFails, StartOp, Fault, MemoryOK, TasksOK
<1>3. ASSUME NEW n \in Node, NEW s \in Slot, NEW id \in BlockID,
             Get(s, n, id) \/ Delete(s, n, id)
      PROVE  TypeOK'
  <2>1. PICK op \in TaskOp : Step(s, NewTask("ask", op, n, id, {}))
    BY <1>3 DEF Get, Delete, Begin, TaskOp
  <2>2. NewTask("ask", op, n, id, {}) \in Task /\ Ready(NewTask("ask", op, n, id, {}))
    BY NewTaskType DEF TaskPC
  <2>3. TasksOK'  BY <2>1, <2>2, StepType
  <2>4. MemoryOK'  BY <1>3 DEF Get, Delete, StartOp, MemoryOK
  <2> QED  BY <2>3, <2>4
<1>4. ASSUME NEW n \in Node, NEW s \in Slot, CheckAllReplica(s, n)
      PROVE  TypeOK'
  <2>1. PICK id \in Lowest(Listed(n)) : Begin(s, PassTask(n, id))
    BY <1>4 DEF CheckAllReplica
  <2>2. id \in BlockID /\ <<n, id, local[n][id]>> \in Ref
    BY <2>1, BoundAssumption DEF Lowest, Listed, Ref, MemoryOK
  <2>3. PassTask(n, id) \in Task /\ Ready(PassTask(n, id))
    BY <2>2, NewTaskType DEF PassTask, MemoryOK, Attr, TaskPC, TaskOp
  <2>4. TasksOK'  BY <2>1, <2>3, StepType DEF Begin
  <2>5. MemoryOK'  BY <1>4 DEF CheckAllReplica, StartOp, MemoryOK
  <2> QED  BY <2>4, <2>5
<1> QED  BY <1>1, <1>2, <1>3, <1>4 DEF Operation


\* The same handler at another program counter, with a result of its call.
LEMMA TypeAsk ==
  ASSUME TypeOK, NEW s \in Slot,
         \/ NextPass(s) \/ AskBlock(s) \/ CheckLost(s) \/ CheckAlive(s) \/ Verdict(s)
         \/ CheckDone(s) \/ AskRemote(s) \/ WaitEnd(s) \/ Choose(s)
  PROVE  TypeOK'
<1> USE DEF TypeOK
<1>a. task[s].pc # "idle" => task[s].node \in Node /\ task[s].block \in BlockID
  BY DEF TasksOK, Ready
<1>b. task[s] \in Task /\ task[s].op \in TaskOp /\ task[s].machine \in SUBSET Node
  BY DEF TasksOK, Task, TaskOp
<1>c. ASSUME task[s].pc # "idle"  PROVE Idle \in Task /\ Ready(Idle) /\ Returned(s) \in Task /\ Ready(Returned(s))
  BY <1>a, <1>b, <1>c, IdleType, NewTaskType DEF Returned, TaskPC, TaskOp
<1>d. ASSUME NEW pc \in TaskPC, task[s].pc # "idle"
      PROVE  Asking(s, pc) \in Task /\ Ready(Asking(s, pc))
  BY <1>a, <1>b, <1>d, NewTaskType DEF Asking
<1>e. ASSUME NEW m \in Node, task[s].pc # "idle"
      PROVE  Answered(s, m) \in Task /\ Ready(Answered(s, m))
  <2>1. Asking(s, "use") \in Task /\ Ready(Asking(s, "use"))
    BY <1>d, <1>e DEF TaskPC
  <2>2. [Asking(s, "load") EXCEPT !.peer = m] \in Task
        /\ Ready([Asking(s, "load") EXCEPT !.peer = m])
    BY <1>a, <1>b, <1>e, LoadTaskType DEF Asking
  <2> QED  BY <2>1, <2>2 DEF Answered
<1>f. ASSUME task[s].pc # "idle", task[s].ref # 0
      PROVE  Checked(s) \in SUBSET Node
  BY <1>a, <1>b, <1>f DEF Checked, MemoryOK, Attr, Ref, Task
<1>g. ASSUME task[s].pc # "idle"
      PROVE  [task[s] EXCEPT !.pc = "ub"] \in Task /\ Ready([task[s] EXCEPT !.pc = "ub"])
  BY <1>a, <1>b, <1>g DEF Task, Ready
<1>1. CASE NextPass(s)
  <2>1. MemoryOK'  BY <1>1 DEF NextPass, MemoryOK
  <2>2. ASSUME NEW i \in Listed(task[s].node)
        PROVE  PassTask(task[s].node, i) \in Task /\ Ready(PassTask(task[s].node, i))
    <3>1. task[s].node \in Node /\ i \in BlockID
      BY <1>1, <1>a, <2>2 DEF NextPass, Listed
    <3>2. <<task[s].node, i, local[task[s].node][i]>> \in Ref
      BY <3>1, <2>2, BoundAssumption DEF Listed, Ref, MemoryOK
    <3> QED  BY <3>1, <3>2, NewTaskType DEF PassTask, MemoryOK, Attr, TaskPC, TaskOp
  <2>3. TasksOK'
    BY <1>1, <1>c, <1>g, <2>2, StepType DEF NextPass, Lowest
  <2> QED  BY <2>1, <2>3
<1>2. CASE AskBlock(s)
  <2>1. MemoryOK'  BY <1>2 DEF AskBlock, MemoryOK
  <2> DEFINE n == task[s].node
             id == task[s].block
             g == remote[n][id]
             size == Cardinality(attr[<<n, id, g>>].machine)
             t == [task[s] EXCEPT !.pc = "check", !.ref = g, !.idx = size,
                                  !.short = size < blockReplica]
  <2>2. n \in Node /\ id \in BlockID  BY <1>2, <1>a DEF AskBlock
  <2>3. ASSUME g # 0  PROVE t \in Task /\ Ready(t)
    <3>1. g \in 1..Gen /\ g \in 0..Gen
      BY <2>2, <2>3, BoundAssumption DEF MemoryOK
    <3>2. attr[<<n, id, g>>].machine \in SUBSET Node
      BY <2>2, <3>1 DEF MemoryOK, Ref, Attr
    <3>3. size \in Int  BY <3>2, ListSize
    <3>4. (size < blockReplica) \in BOOLEAN  OBVIOUS
    <3> HIDE DEF size, g
    <3> QED  BY <1>b, <2>2, <2>3, <3>1, <3>3, <3>4, CheckTaskType
  <2>4. Answered(s, n) \in Task /\ Ready(Answered(s, n))
    BY <1>2, <1>e, <2>2 DEF AskBlock
  <2>5. Asking(s, "remote") \in Task /\ Ready(Asking(s, "remote"))
    BY <1>2, <1>d DEF AskBlock, TaskPC
  <2>6. TasksOK'
    BY <1>2, <2>3, <2>4, <2>5, StepType DEF AskBlock
  <2> QED  BY <2>1, <2>6
<1>3. CASE CheckLost(s)
  BY <1>3, <1>g, StepType DEF CheckLost, MemoryOK
<1>4. CASE CheckAlive(s)
  <2>1. PICK alive \in BOOLEAN :
          Step(s, [task[s] EXCEPT !.pc = "verdict", !.alive = alive])
    BY <1>4 DEF CheckAlive
  <2>2. [task[s] EXCEPT !.pc = "verdict", !.alive = alive] \in Task
        /\ Ready([task[s] EXCEPT !.pc = "verdict", !.alive = alive])
    BY <1>4, <1>b DEF CheckAlive, Task, TasksOK, Ready
  <2>3. TasksOK'  BY <2>1, <2>2, StepType
  <2>4. MemoryOK'  BY <1>4 DEF CheckAlive, MemoryOK, Reached
  <2> QED  BY <2>3, <2>4
<1>5. CASE Verdict(s)
  <2>1. task[s].idx - 1 \in Int  BY <1>b DEF Task
  <2>2. ASSUME NEW short \in BOOLEAN
        PROVE  /\ [task[s] EXCEPT !.pc = "check", !.idx = @ - 1, !.short = short] \in Task
               /\ Ready([task[s] EXCEPT !.pc = "check", !.idx = @ - 1, !.short = short])
    BY <1>5, <1>b, <2>1 DEF Verdict, Task, TasksOK, Ready
  <2>3. TasksOK'
    <3>1. CASE Step(s, [task[s] EXCEPT !.pc = "check", !.idx = @ - 1])
      <4>1. [task[s] EXCEPT !.pc = "check", !.idx = @ - 1] \in Task
            /\ Ready([task[s] EXCEPT !.pc = "check", !.idx = @ - 1])
        BY <1>5, <1>b, <2>1 DEF Verdict, Task, TasksOK, Ready
      <4> QED  BY <3>1, <4>1, StepType
    <3>2. CASE Step(s, [task[s] EXCEPT !.pc = "check", !.idx = @ - 1, !.short = TRUE])
      BY <3>2, <2>2, StepType
    <3>3. CASE Step(s, [task[s] EXCEPT !.pc = "ub"])
      BY <1>5, <3>3, <1>g, StepType DEF Verdict
    <3> QED  BY <1>5, <3>1, <3>2, <3>3 DEF Verdict
  <2>4. MemoryOK'
    <3>1. task[s].ref # 0 /\ task[s].pc # "idle"  BY <1>5 DEF Verdict, TasksOK, Ready
    <3>2. Checked(s) \in SUBSET Node  BY <3>1, <1>f
    <3>3. ASSUME NEW S \in SUBSET Node
          PROVE  [attr EXCEPT ![<<task[s].node, task[s].block, task[s].ref>>].machine = S]
                   \in [Ref -> Attr]
      BY DEF MemoryOK, Attr
    <3>4. Checked(s) \ {Nth(Checked(s), task[s].idx)} \in SUBSET Node  BY <3>2
    <3>5. attr' = attr \/ attr' = [attr EXCEPT
            ![<<task[s].node, task[s].block, task[s].ref>>].machine =
               Checked(s) \ {Nth(Checked(s), task[s].idx)}]
      BY <1>5 DEF Verdict
    <3>6. attr' \in [Ref -> Attr]
      BY <3>3, <3>4, <3>5 DEF MemoryOK
    <3> QED  BY <1>5, <3>6 DEF Verdict, MemoryOK
  <2> QED  BY <2>3, <2>4
<1>6. CASE CheckDone(s)
  <2>0. task[s].pc = "check" /\ task[s].node \in Node /\ task[s].block \in BlockID
        /\ task[s].ref # 0
    BY <1>6, <1>a DEF CheckDone, TasksOK, Ready
  <2>1. Checked(s) \in SUBSET Node  BY <2>0, <1>f
  <2>2. [Asking(s, "choose") EXCEPT !.ref = task[s].ref] \in Task
        /\ Ready([Asking(s, "choose") EXCEPT !.ref = task[s].ref])
    BY <2>0, <1>b, ChooseTaskType DEF Asking, Task
  <2>3. TasksOK'
    BY <1>6, <2>0, <2>2, <1>d, StepType DEF CheckDone, TaskPC
  <2>4. /\ msgs' \subseteq Msg
        /\ route' \in [Node -> SUBSET Node] /\ \A m \in Node : m \notin route'[m]
    BY <1>6, <2>0, <2>1, SendType DEF CheckDone, MsgType, MemoryOK
  <2>5. remote' \in [Node -> [BlockID -> 0..Gen]]
    <3>1. 0 \in 0..Gen  BY BoundAssumption
    <3>2. remote' = remote
          \/ remote' = [remote EXCEPT ![task[s].node][task[s].block] = 0]
      BY <1>6 DEF CheckDone
    <3>3. remote \in [Node -> [BlockID -> 0..Gen]]  BY DEF MemoryOK
    <3>4. [remote EXCEPT ![task[s].node][task[s].block] = 0]
            \in [Node -> [BlockID -> 0..Gen]]
      BY <2>0, <3>1, <3>3, EntryType
    <3> QED  BY <3>2, <3>3, <3>4
  <2> QED  BY <1>6, <2>3, <2>4, <2>5 DEF CheckDone, MemoryOK
<1>7. CASE AskRemote(s)
  <2>0. task[s].pc = "remote" /\ task[s].node \in Node /\ task[s].block \in BlockID
    BY <1>7, <1>a DEF AskRemote
  <2>1. [task[s] EXCEPT !.pc = "wait"] \in Task /\ Ready([task[s] EXCEPT !.pc = "wait"])
    BY <2>0, <1>b DEF Task, Ready
  <2>2. /\ msgs' \subseteq Msg
        /\ route' \in [Node -> SUBSET Node] /\ \A m \in Node : m \notin route'[m]
    BY <1>7, <2>0, SendType DEF AskRemote, MsgType
  <2>3. TasksOK'  BY <1>7, <2>1, StepType DEF AskRemote
  <2> QED  BY <1>7, <2>2, <2>3 DEF AskRemote, MemoryOK
<1>8. CASE WaitEnd(s)
  <2> DEFINE g == remote[task[s].node][task[s].block]
  <2>0. task[s].pc = "wait" /\ task[s].node \in Node /\ task[s].block \in BlockID
    BY <1>8, <1>a DEF WaitEnd
  <2>1. g \in 0..Gen  BY <2>0 DEF MemoryOK
  <2>2. g # 0 => [task[s] EXCEPT !.pc = "choose", !.ref = g] \in Task
                 /\ Ready([task[s] EXCEPT !.pc = "choose", !.ref = g])
    BY <2>0, <2>1, <1>b DEF Task, Ready
  <2>3. [task[s] EXCEPT !.pc = "done"] \in Task /\ Ready([task[s] EXCEPT !.pc = "done"])
    BY <2>0, <1>b DEF Task, Ready
  <2>4. TasksOK'  BY <1>8, <2>0, <2>2, <2>3, <1>c, StepType DEF WaitEnd
  <2> QED  BY <1>8, <2>4 DEF WaitEnd, MemoryOK
<1>9. CASE Choose(s)
  <2>0. task[s].pc = "choose" /\ task[s].ref # 0 /\ task[s].node \in Node
    BY <1>9, <1>a DEF Choose, TasksOK, Ready
  <2>1. Checked(s) \in SUBSET Node  BY <2>0, <1>f
  <2>2. TasksOK'  BY <1>9, <2>0, <2>1, <1>e, <1>g, StepType DEF Choose
  <2>3. MemoryOK'  BY <1>9, <2>0 DEF Choose, MemoryOK, Reached
  <2> QED  BY <2>2, <2>3
<1> QED  BY <1>1, <1>2, <1>3, <1>4, <1>5, <1>6, <1>7, <1>8, <1>9


\* A handler that hangs up leaves its parent ready to go on.
LEMMA HangUpType ==
  ASSUME TasksOK, NEW s \in Slot, HangUp(s)
  PROVE  TasksOK'
<1>1. ASSUME NEW t \in Slot, task[t].pc = "copying"
      PROVE  [task[t] EXCEPT !.pc = "next", !.conn = NoSlot] \in Task
             /\ Ready([task[t] EXCEPT !.pc = "next", !.conn = NoSlot])
  <2>1. task[t] \in Task /\ Ready(task[t])  BY DEF TasksOK
  <2> QED  BY <1>1, <2>1 DEF Task, Ready
<1> QED  BY <1>1, IdleType DEF HangUp, TasksOK

\* Loads, deletions and replications.
LEMMA TypeUse ==
  ASSUME TypeOK, NEW s \in Slot,
         \/ Load(s) \/ LoadFails(s) \/ Deliver(s)
         \/ DetailLost(s) \/ UseDelete(s) \/ UseDoDelete(s) \/ EraseLocal(s)
         \/ UseReplica(s) \/ Pick(s)
  PROVE  TypeOK'
<1> USE DEF TypeOK
<1>a. task[s].pc # "idle" => task[s].node \in Node /\ task[s].block \in BlockID
  BY DEF TasksOK, Ready
<1>b. task[s] \in Task /\ task[s].op \in TaskOp /\ task[s].machine \in SUBSET Node
  BY DEF TasksOK, Task, TaskOp
<1>c. ASSUME task[s].pc # "idle"  PROVE Returned(s) \in Task /\ Ready(Returned(s))
  BY <1>a, <1>b, <1>c, IdleType, NewTaskType DEF Returned, TaskPC, TaskOp
<1>d. ASSUME NEW pc \in {"done", "ub"}, task[s].pc # "idle"
      PROVE  [task[s] EXCEPT !.pc = pc] \in Task /\ Ready([task[s] EXCEPT !.pc = pc])
  BY <1>a, <1>b, <1>d DEF Task, Ready
<1>e. 0 \in Content /\ 0 \in 0..Gen  BY BoundAssumption DEF Content
<1>f. ASSUME task[s].pc = "use", Detail(s) # 0
      PROVE  /\ Detail(s) \in 0..Gen /\ DetailRef(s) \in Ref
             /\ attr[DetailRef(s)].machine \in SUBSET Node
  <2>1. Detail(s) \in 0..Gen  BY <1>a, <1>f DEF Detail, MemoryOK
  <2>2. Detail(s) \in 1..Gen  BY <2>1, <1>f, BoundAssumption
  <2>3. DetailRef(s) \in Ref  BY <1>a, <1>f, <2>2 DEF DetailRef, Ref
  <2> QED  BY <2>1, <2>3 DEF MemoryOK, Attr
<1>1. CASE Load(s)
  <2>1. disk[task[s].peer][task[s].block] \in Content
    BY <1>1, <1>a DEF Load, TasksOK, Ready, MemoryOK
  <2>2. ASSUME NEW pc \in {"done", "save"}, NEW v \in Content
        PROVE  [task[s] EXCEPT !.pc = pc, !.data = v] \in Task
               /\ Ready([task[s] EXCEPT !.pc = pc, !.data = v])
    BY <1>1, <1>a, <1>b DEF Load, Task, TasksOK, Ready
  <2>3. TasksOK'  BY <1>1, <2>1, <2>2, StepType DEF Load
  <2> QED  BY <1>1, <2>3 DEF Load, MemoryOK
<1>2. CASE LoadFails(s)
  <2>1. TasksOK'  BY <1>2, <1>d, StepType, HangUpType DEF LoadFails
  <2>2. remote \in [Node -> [BlockID -> 0..Gen]]  BY DEF MemoryOK
  <2>3. remote' \in [Node -> [BlockID -> 0..Gen]]
    BY <1>2, <1>a, <1>e, <2>2, EntryType DEF LoadFails
  <2>4. route' \in [Node -> SUBSET Node] /\ \A m \in Node : m \notin route'[m]
    BY <1>2, <1>a DEF LoadFails, MemoryOK, Reached
  <2> QED  BY <1>2, <2>1, <2>3, <2>4 DEF LoadFails, MemoryOK
<1>3. CASE Deliver(s)
  BY <1>3, IdleType, StepType DEF Deliver, MemoryOK
<1>4. CASE DetailLost(s)
  BY <1>4, <1>d, StepType DEF DetailLost, MemoryOK
<1>5. CASE UseDelete(s)
  <2>0. task[s].pc = "use" /\ task[s].node \in Node /\ task[s].block \in BlockID
    BY <1>5, <1>a DEF UseDelete
  <2>1. NewTask("ask", "dodelete", task[s].node, task[s].block, {}) \in Task
        /\ Ready(NewTask("ask", "dodelete", task[s].node, task[s].block, {}))
    BY <2>0, NewTaskType DEF TaskPC, TaskOp
  <2>2. TasksOK'  BY <1>5, <2>1, IdleType, StepType DEF UseDelete
  <2>3. /\ msgs' \subseteq Msg
        /\ route' \in [Node -> SUBSET Node] /\ \A m \in Node : m \notin route'[m]
    BY <1>5, <2>0, SendType DEF UseDelete, MsgType, MemoryOK
  <2> QED  BY <1>5, <2>2, <2>3 DEF UseDelete, MemoryOK
<1>6. CASE UseDoDelete(s)
  <2>0. /\ task[s].pc = "use" /\ task[s].node \in Node /\ task[s].block \in BlockID
        /\ Detail(s) # 0
    BY <1>6, <1>a DEF UseDoDelete
  <2>1. Asking(s, "erase") \in Task /\ Ready(Asking(s, "erase"))
    BY <2>0, <1>b, NewTaskType DEF Asking, TaskPC
  <2>2. TasksOK'  BY <1>6, <2>1, StepType DEF UseDoDelete
  <2>3. /\ msgs' \subseteq Msg
        /\ route' \in [Node -> SUBSET Node] /\ \A m \in Node : m \notin route'[m]
    BY <1>6, <2>0, SendType DEF UseDoDelete, MsgType
  <2>4. attr' \in [Ref -> Attr]
    BY <1>6, <1>f, <2>0 DEF UseDoDelete, MemoryOK, Attr
  <2> QED  BY <1>6, <2>0, <2>2, <2>3, <2>4 DEF UseDoDelete, MemoryOK
<1>7. CASE EraseLocal(s)
  <2>0. task[s].node \in Node /\ task[s].block \in BlockID
    BY <1>7, <1>a DEF EraseLocal
  <2>1. TasksOK'  BY <1>7, IdleType, StepType DEF EraseLocal
  <2>2. /\ local' \in [Node -> [BlockID -> 0..Gen]]
        /\ remote' \in [Node -> [BlockID -> 0..Gen]]
        /\ disk' \in [Node -> [BlockID -> Content]]
    BY <1>7, <1>e, <2>0, EntryType DEF EraseLocal, Remove, MemoryOK
  <2> QED  BY <1>7, <2>1, <2>2 DEF EraseLocal, MemoryOK
<1>8. CASE UseReplica(s)
  <2>0. /\ task[s].pc = "use" /\ task[s].node \in Node /\ task[s].block \in BlockID
        /\ Detail(s) # 0
    BY <1>8, <1>a DEF UseReplica
  <2> DEFINE t == [task[s] EXCEPT !.pc = "pick", !.machine = {}, !.ref = Detail(s)]
  <2>1. t \in Task /\ Ready(t)
    BY <1>b, <1>f, <2>0 DEF Task, Ready
  <2>2. TasksOK'  BY <1>8, <1>c, <2>0, <2>1, StepType DEF UseReplica
  <2>3. AddAll({}, task[s].machine) \in SUBSET Node  BY <1>b, AddAllType
  <2>4. attr' \in [Ref -> Attr]
    BY <1>8, <1>f, <2>0, <2>3 DEF UseReplica, MemoryOK, Attr
  <2> QED  BY <1>8, <2>2, <2>4 DEF UseReplica, MemoryOK
<1>9. CASE Pick(s)
  <2>0. task[s].pc = "pick" /\ task[s].node \in Node /\ task[s].ref # 0
    BY <1>9, <1>a DEF Pick, TasksOK, Ready
  <2>1. PICK C \in SUBSET (route[task[s].node] \ Held(s)) :
          Step(s, [task[s] EXCEPT !.pc = "next", !.machine = C])
    BY <1>9 DEF Pick
  <2>2. C \in SUBSET Node  BY <2>0, <2>1 DEF MemoryOK
  <2>3. [task[s] EXCEPT !.pc = "next", !.machine = C] \in Task
        /\ Ready([task[s] EXCEPT !.pc = "next", !.machine = C])
    BY <1>a, <1>b, <2>0, <2>2 DEF Task, Ready
  <2>4. TasksOK'  BY <2>1, <2>3, StepType
  <2> QED  BY <1>9, <2>4 DEF Pick, MemoryOK
<1> QED  BY <1>1, <1>2, <1>3, <1>4, <1>5, <1>6, <1>7, <1>8, <1>9

LEMMA TypeReplicate ==
  ASSUME TypeOK, NEW s \in Slot,
         \/ SendCopy(s) \/ CopyRefused(s) \/ SaveCopy(s) \/ SaveCopyFails(s)
         \/ ReplicaAck(s) \/ ReplicaDone(s)
  PROVE  TypeOK'
<1> USE DEF TypeOK
<1>a. task[s].pc # "idle" => task[s].node \in Node /\ task[s].block \in BlockID
  BY DEF TasksOK, Ready
<1>b. task[s] \in Task /\ task[s].op \in TaskOp /\ task[s].machine \in SUBSET Node
  BY DEF TasksOK, Task, TaskOp
<1>f. ASSUME task[s].pc \in {"next", "acked"}
      PROVE  Held(s) \in SUBSET Node
             /\ <<task[s].node, task[s].block, task[s].ref>> \in Ref
  <2>1. task[s].ref \in 1..Gen
    BY <1>b, <1>f, BoundAssumption DEF Task, TasksOK, Ready
  <2>2. <<task[s].node, task[s].block, task[s].ref>> \in Ref
    BY <1>a, <1>f, <2>1 DEF Ref
  <2> QED  BY <2>2 DEF Held, MemoryOK, Attr
<1>1. CASE SendCopy(s)
  <2>0. task[s].pc = "next" /\ task[s].node \in Node /\ task[s].block \in BlockID
    BY <1>1, <1>a DEF SendCopy
  <2>1. PICK m \in task[s].machine, c \in Slot :
          /\ task[c].pc = "idle"
          /\ task' = [task EXCEPT
               ![s] = [task[s] EXCEPT !.pc = "copying", !.peer = m, !.conn = c,
                         !.machine = task[s].machine \ {m}],
               ![c] = [NewTask("load", "copy", m, task[s].block, {})
                         EXCEPT !.peer = task[s].node]]
    BY <1>1 DEF SendCopy
  <2>2. m \in Node  BY <2>1, <1>b
  <2> DEFINE t == [task[s] EXCEPT !.pc = "copying", !.peer = m, !.conn = c,
                    !.machine = task[s].machine \ {m}]
             u == [NewTask("load", "copy", m, task[s].block, {})
                     EXCEPT !.peer = task[s].node]
  <2>3. t \in Task /\ Ready(t)
    BY <1>b, <2>0, <2>2 DEF Task, Ready, TasksOK
  <2>4. u \in Task /\ Ready(u)  BY <2>0, <2>2, LoadTaskType DEF TaskOp
  <2>5. s # c  BY <2>0, <2>1
  <2>6. task' = [task EXCEPT ![s] = t, ![c] = u]  BY <2>1, <2>5
  <2> HIDE DEF t, u
  <2>7. TasksOK'  BY <2>3, <2>4, <2>5, <2>6 DEF TasksOK
  <2> QED  BY <1>1, <2>7 DEF SendCopy, MemoryOK
<1>2. CASE CopyRefused(s)
  <2>0. task[s].pc = "next" /\ task[s].node \in Node  BY <1>2, <1>a DEF CopyRefused
  <2>1. PICK m \in task[s].machine :
          /\ Step(s, [task[s] EXCEPT !.machine = @ \ {m}])
          /\ route' = [route EXCEPT ![task[s].node] = Reached(task[s].node, {m})]
    BY <1>2 DEF CopyRefused
  <2>2. [task[s] EXCEPT !.machine = @ \ {m}] \in Task
        /\ Ready([task[s] EXCEPT !.machine = @ \ {m}])
    BY <1>b, <2>0 DEF Task, Ready, TasksOK
  <2>3. TasksOK'  BY <2>1, <2>2, StepType
  <2>4. route' \in [Node -> SUBSET Node] /\ \A k \in Node : k \notin route'[k]
    BY <2>0, <2>1 DEF MemoryOK, Reached
  <2> QED  BY <1>2, <2>3, <2>4 DEF CopyRefused, MemoryOK
<1>3. CASE SaveCopy(s)
  <2>0. /\ task[s].node \in Node /\ task[s].block \in BlockID
        /\ task[s].data \in Content
    BY <1>3, <1>a, <1>b DEF SaveCopy, Task
  <2>1. ASSUME NEW t \in Slot, task[t].pc = "copying"
        PROVE  [task[t] EXCEPT !.pc = "acked", !.conn = NoSlot] \in Task
               /\ Ready([task[t] EXCEPT !.pc = "acked", !.conn = NoSlot])
    <3>1. task[t] \in Task /\ Ready(task[t])  BY DEF TasksOK
    <3> QED  BY <2>1, <3>1 DEF Task, Ready
  <2>2. TasksOK'  BY <1>3, <2>1, IdleType DEF SaveCopy, TasksOK
  <2>3. disk' \in [Node -> [BlockID -> Content]]
    BY <1>3, <2>0, EntryType DEF SaveCopy, MemoryOK
  <2>4. AddLocal(task[s].node, task[s].block)  BY <1>3 DEF SaveCopy
  <2>5. /\ attr' \in [Ref -> Attr]
        /\ local' \in [Node -> [BlockID -> 0..Gen]]
        /\ remote' \in [Node -> [BlockID -> 0..Gen]]
    BY <2>0, <2>4, AddLocalType
  <2> QED  BY <1>3, <2>2, <2>3, <2>5 DEF SaveCopy, MemoryOK
<1>4. CASE SaveCopyFails(s)
  BY <1>4, HangUpType DEF SaveCopyFails, Fault, MemoryOK
<1>5. CASE ReplicaAck(s)
  <2>0. task[s].pc = "acked" /\ task[s].peer \in Node
    BY <1>5 DEF ReplicaAck, TasksOK, Ready
  <2>1. [task[s] EXCEPT !.pc = "next", !.peer = 0] \in Task
        /\ Ready([task[s] EXCEPT !.pc = "next", !.peer = 0])
    BY <1>b, <2>0 DEF Task, Ready, TasksOK
  <2>2. TasksOK'  BY <1>5, <2>1, StepType DEF ReplicaAck
  <2>3. AddAll(Held(s), {task[s].peer}) \in SUBSET Node
    BY <1>f, <2>0, AddAllType
  <2>4. attr' \in [Ref -> Attr]
    BY <1>5, <1>f, <2>0, <2>3 DEF ReplicaAck, MemoryOK, Attr
  <2> QED  BY <1>5, <2>2, <2>4 DEF ReplicaAck, MemoryOK
<1>6. CASE ReplicaDone(s)
  <2>0. task[s].pc = "next" /\ task[s].node \in Node /\ task[s].block \in BlockID
    BY <1>6, <1>a DEF ReplicaDone
  <2>1. Returned(s) \in Task /\ Ready(Returned(s))
    BY <2>0, IdleType, NewTaskType DEF Returned, TaskPC, TaskOp
  <2>2. TasksOK'  BY <1>6, <2>1, StepType DEF ReplicaDone
  <2>3. /\ msgs' \subseteq Msg
        /\ route' \in [Node -> SUBSET Node] /\ \A m \in Node : m \notin route'[m]
    BY <1>6, <1>f, <2>0, SendType DEF ReplicaDone, MsgType
  <2> QED  BY <1>6, <2>2, <2>3 DEF ReplicaDone, MemoryOK
<1> QED  BY <1>1, <1>2, <1>3, <1>4, <1>5, <1>6


LEMMA TypeHandle ==
  ASSUME TypeOK, Handle
  PROVE  TypeOK'
<1> USE DEF TypeOK
<1>0. ASSUME NEW m \in msgs
      PROVE  m.src \in Node /\ m.dst \in Node /\ m.block \in BlockID
             /\ m.machine \in SUBSET Node
  BY DEF MemoryOK, Msg
<1>1. ASSUME NEW m \in msgs, HandleRequestBlockLocation(m)  PROVE TypeOK'
  <2> DEFINE L == attr[<<m.dst, m.block, local[m.dst][m.block]>>].machine
             ack == Sent(m.dst, {m.src}, "RequestBlockLocationACK", m.block, L)
  <2>1. ASSUME local[m.dst][m.block] # 0  PROVE ack \subseteq Msg
    <3>1. local[m.dst][m.block] \in 1..Gen
      BY <1>0, <2>1, BoundAssumption DEF MemoryOK
    <3>2. L \in SUBSET Node  BY <1>0, <3>1 DEF MemoryOK, Ref, Attr
    <3> HIDE DEF L
    <3> QED  BY <1>0, <3>2 DEF Sent, Msg, MemoryOK
  <2>2. msgs' \subseteq Msg
    BY <1>1, <2>1 DEF HandleRequestBlockLocation, MemoryOK
  <2>3. route' \in [Node -> SUBSET Node] /\ \A k \in Node : k \notin route'[k]
    BY <1>0, <1>1 DEF HandleRequestBlockLocation, MemoryOK, Reached
  <2> QED
    BY <1>1, <2>2, <2>3 DEF HandleRequestBlockLocation, MemoryOK, TasksOK
<1>2. ASSUME NEW m \in msgs, HandleRequestBlockLocationACK(m)  PROVE TypeOK'
  <2> DEFINE n == m.dst
             id == m.block
             g == remote[n][id]
  <2>1. CASE g # 0
    <3>1. attr' = [attr EXCEPT ![<<n, id, g>>].machine = AddAll(@, m.machine)]
          /\ UNCHANGED remote
      BY <1>2, <2>1 DEF HandleRequestBlockLocationACK
    <3>2. <<n, id, g>> \in Ref
      BY <1>0, <2>1, BoundAssumption DEF MemoryOK, Ref
    <3>3. AddAll(attr[<<n, id, g>>].machine, m.machine) \in SUBSET Node
      BY <1>0, <3>2, AddAllType DEF MemoryOK, Attr
    <3>4. attr' \in [Ref -> Attr]  BY <3>1, <3>2, <3>3 DEF MemoryOK, Attr
    <3> QED
      BY <1>2, <3>1, <3>4 DEF HandleRequestBlockLocationACK, MemoryOK, TasksOK
  <2>2. CASE g = 0
    <3>1. PICK h \in Fresh(n, id) :
            /\ attr' = [attr EXCEPT ![<<n, id, h>>] =
                          [NoAttr EXCEPT !.machine = AddAll({}, m.machine)]]
            /\ remote' = [remote EXCEPT ![n] =
                 [i \in BlockID |-> IF i = id THEN h
                                    ELSE IF i \in Kept(n) THEN @[i] ELSE 0]]
      BY <1>2, <2>2 DEF HandleRequestBlockLocationACK
    <3>2. h \in 0..Gen /\ 0 \in 0..Gen
      BY <3>1, BoundAssumption DEF Fresh, Unused
    <3>3. AddAll({}, m.machine) \in SUBSET Node  BY <1>0, AddAllType
    <3>4. [NoAttr EXCEPT !.machine = AddAll({}, m.machine)] \in Attr
      BY <3>3 DEF NoAttr, Attr
    <3>5. attr' \in [Ref -> Attr]  BY <3>1, <3>4 DEF MemoryOK
    <3>6. [i \in BlockID |-> IF i = id THEN h
                             ELSE IF i \in Kept(n) THEN remote[n][i] ELSE 0]
            \in [BlockID -> 0..Gen]
      BY <1>0, <3>2 DEF MemoryOK
    <3>7. remote' \in [Node -> [BlockID -> 0..Gen]]
      BY <1>0, <3>1, <3>6 DEF MemoryOK
    <3> QED
      BY <1>2, <3>5, <3>7 DEF HandleRequestBlockLocationACK, MemoryOK, TasksOK
  <2> QED  BY <2>1, <2>2
<1>3. ASSUME NEW m \in msgs, HandleUpdateReplica(m)  PROVE TypeOK'
  <2>1. ASSUME NEW r \in Ref  PROVE [attr[r] EXCEPT !.machine = m.machine] \in Attr
    <3>1. attr[r] \in Attr  BY DEF MemoryOK
    <3> QED  BY <1>0, <3>1 DEF Attr
  <2>2. attr' \in [Ref -> Attr]
    BY <1>3, <2>1 DEF HandleUpdateReplica, MemoryOK
  <2> QED  BY <1>3, <2>2 DEF HandleUpdateReplica, MemoryOK, TasksOK
<1>4. ASSUME NEW m \in msgs, HandleDeleteBlock(m)  PROVE TypeOK'
  <2>1. 0 \in Content /\ 0 \in 0..Gen  BY BoundAssumption DEF Content
  <2>2. /\ local' \in [Node -> [BlockID -> 0..Gen]]
        /\ remote' \in [Node -> [BlockID -> 0..Gen]]
        /\ disk' \in [Node -> [BlockID -> Content]]
    BY <1>0, <1>4, <2>1, EntryType DEF HandleDeleteBlock, Remove, MemoryOK
  <2> QED  BY <1>4, <2>2 DEF HandleDeleteBlock, MemoryOK, TasksOK
<1>5. ASSUME NEW m \in msgs, NEW s \in Slot, HandleDoReplica(s, m)  PROVE TypeOK'
  <2>1. NewTask("ask", "replica", m.dst, m.block, m.machine) \in Task
        /\ Ready(NewTask("ask", "replica", m.dst, m.block, m.machine))
    BY <1>0, NewTaskType DEF TaskPC, TaskOp
  <2>2. TasksOK'  BY <1>5, <2>1, StepType DEF HandleDoReplica, Begin
  <2> QED  BY <1>5, <2>2 DEF HandleDoReplica, MemoryOK
<1>6. ASSUME NEW m \in msgs, NEW s \in Slot, HandleDoDelete(s, m)  PROVE TypeOK'
  <2>1. NewTask("ask", "dodelete", m.dst, m.block, {}) \in Task
        /\ Ready(NewTask("ask", "dodelete", m.dst, m.block, {}))
    BY <1>0, NewTaskType DEF TaskPC, TaskOp
  <2>2. TasksOK'  BY <1>6, <2>1, StepType DEF HandleDoDelete, Begin
  <2> QED  BY <1>6, <2>2 DEF HandleDoDelete, MemoryOK
<1> QED  BY <1>1, <1>2, <1>3, <1>4, <1>5, <1>6 DEF Handle

LEMMA TypeEnvironment ==
  ASSUME TypeOK, Environment
  PROVE  TypeOK'
<1> USE DEF TypeOK
<1>1. ASSUME NEW n \in Node, Crash(n)  PROVE TypeOK'
  <2>1. 0 \in 0..Gen /\ 0 \in 0..MaxLocal  BY BoundAssumption
  <2>2. PICK T \in SUBSET Writing(n) :
          disk' = [disk EXCEPT ![n] =
                     [id \in BlockID |-> IF id \in T THEN Torn ELSE @[id]]]
    BY <1>1 DEF Crash
  <2>3. [id \in BlockID |-> IF id \in T THEN Torn ELSE disk[n][id]]
          \in [BlockID -> Content]
    BY DEF MemoryOK, Content
  <2>4. disk' \in [Node -> [BlockID -> Content]]
    BY <2>2, <2>3 DEF MemoryOK
  <2>5. /\ local' \in [Node -> [BlockID -> 0..Gen]]
        /\ remote' \in [Node -> [BlockID -> 0..Gen]]
    BY <1>1, <2>1 DEF Crash, MemoryOK
  <2>6. attr' \in [Ref -> Attr]
    BY <1>1 DEF Crash, MemoryOK, NoAttr, Attr
  <2>10. up' \in [Node -> BOOLEAN]  BY <1>1 DEF Crash, MemoryOK
  <2>11. localMax' \in [Node -> 0..MaxLocal]  BY <1>1, <2>1 DEF Crash, MemoryOK
  <2>12. msgs' \subseteq Msg  BY <1>1 DEF Crash, MemoryOK
  <2>13. faults' \in Nat
    <3>1. faults' = faults + 1  BY <1>1 DEF Crash, Fault
    <3> QED  BY <3>1 DEF MemoryOK
  <2>7. MemoryOK'
    BY <1>1, <2>4, <2>5, <2>6, <2>10, <2>11, <2>12, <2>13 DEF Crash, MemoryOK
  <2>8. ASSUME NEW s \in Slot, task[s].pc = "copying"
        PROVE  [task[s] EXCEPT !.pc = "next", !.conn = NoSlot] \in Task
               /\ Ready([task[s] EXCEPT !.pc = "next", !.conn = NoSlot])
    <3>1. task[s] \in Task /\ Ready(task[s])  BY DEF TasksOK
    <3> QED  BY <2>8, <3>1 DEF Task, Ready
  <2>9. TasksOK'  BY <1>1, <2>8, IdleType DEF Crash, TasksOK
  <2> QED  BY <2>7, <2>9
<1>2. ASSUME NEW n \in Node, Restart(n)  PROVE TypeOK'
  <2>1. 0 \in 0..Gen /\ 1 \in 0..Gen /\ 0 \in 0..MaxLocal  BY BoundAssumption
  <2>2. local' \in [Node -> [BlockID -> 0..Gen]]
    BY <1>2, <2>1 DEF Restart, MemoryOK
  <2>3. attr' \in [Ref -> Attr]
    BY <1>2 DEF Restart, MemoryOK, NewAttr, Attr
  <2>4. OwnNumbers(n) \subseteq 0..MaxLocal
    BY BoundAssumption DEF OwnNumbers, BlockID
  <2>5. localMax' \in [Node -> 0..MaxLocal]
    BY <1>2, <2>1, <2>4 DEF Restart, MemoryOK
  <2>6. route' \in [Node -> SUBSET Node] /\ \A m \in Node : m \notin route'[m]
    BY <1>2 DEF Restart, MemoryOK, Joinable
  <2>7. up' \in [Node -> BOOLEAN]  BY <1>2 DEF Restart, MemoryOK
  <2> QED
    BY <1>2, <2>2, <2>3, <2>5, <2>6, <2>7 DEF Restart, MemoryOK, TasksOK
<1>3. ASSUME NEW n \in Node, LoseRoute(n)  PROVE TypeOK'
  BY <1>3 DEF LoseRoute, Fault, MemoryOK, TasksOK
<1> QED  BY <1>1, <1>2, <1>3 DEF Environment

LEMMA TypeStep ==
  ASSUME TypeOK, [Next]_vars
  PROVE  TypeOK'
<1>1. CASE UNCHANGED vars  BY <1>1 DEF vars, TypeOK, MemoryOK, TasksOK
<1>2. CASE Operation  BY <1>2, TypeOperation
<1>3. CASE \E s \in Slot : TaskStep(s)
  BY <1>3, TypeAsk, TypeUse, TypeReplicate DEF TaskStep
<1>4. CASE Handle  BY <1>4, TypeHandle
<1>5. CASE Environment  BY <1>5, TypeEnvironment
<1> QED  BY <1>1, <1>2, <1>3, <1>4, <1>5 DEF Next

\* The type invariant holds for every cluster: no handler ever works on an attr
\* object, a peer or a block that is not there.
THEOREM TypeCorrect == Spec => []TypeOK
BY TypeInit, TypeStep, PTL DEF Spec

-----------------------------------------------------------------------------
(* ReplicaCap.                                                             *)

\* Lists travel: a message carries one that was capped where it was made.
MsgsCapped == \A m \in msgs : Cardinality(m.machine) <= blockReplica
CapInv == ReplicaCap /\ MsgsCapped

LEMMA ListFinite ==
  ASSUME NEW S \in SUBSET Node
  PROVE  IsFiniteSet(S) /\ Cardinality(S) \in Nat
<1>1. IsFiniteSet(S)
  BY NodeAssumption, FS_Subset
<1> QED
  BY <1>1, FS_CardinalityType

\* addMachine for all of a list, in turn, stops at blockReplica.
LEMMA AddAllCapped ==
  ASSUME NEW S \in SUBSET Node, NEW L \in SUBSET Node, Cardinality(S) <= blockReplica
  PROVE  Cardinality(AddAll(S, L)) <= blockReplica
<1> DEFINE M == L \ S
           below(m) == {k \in M : k < m}
           D == {m \in M : Cardinality(S) + Cardinality(below(m)) < blockReplica}
           f == [m \in D |-> Cardinality(below(m))]
<1>1. AddAll(S, L) = S \cup D
  BY DEF AddAll
<1>2. M \in SUBSET Node /\ D \in SUBSET Node /\ \A m : below(m) \in SUBSET Node
  OBVIOUS
<1>3. /\ IsFiniteSet(S) /\ Cardinality(S) \in Nat
      /\ IsFiniteSet(D) /\ Cardinality(D) \in Nat
      /\ \A m : IsFiniteSet(below(m)) /\ Cardinality(below(m)) \in Nat
  BY <1>2, ListFinite
<1>4. blockReplica \in Nat
  BY ReplicaAssumption
<1>5. ASSUME NEW x \in D, NEW y \in D, x < y
      PROVE  Cardinality(below(x)) # Cardinality(below(y))
  <2>1. x \in Nat /\ y \in Nat /\ \A k \in M : k \in Nat
    BY NodeAssumption
  <2>2. below(x) \subseteq below(y)
    <3> SUFFICES ASSUME NEW k \in M, k < x PROVE k < y
      OBVIOUS
    <3>1. k \in Nat /\ x \in Nat /\ y \in Nat
      BY <2>1
    <3> QED
      BY <1>5, <3>1
  <2>3. x \in below(y) /\ x \notin below(x)
    BY <1>5, <2>1
  <2> QED
    BY <1>3, <2>2, <2>3, FS_Subset
<1>6. Cardinality(S) + Cardinality(D) <= blockReplica
  <2> DEFINE room == blockReplica - Cardinality(S)
             T == 0..(room - 1)
  <2>1. room \in Nat /\ room - 1 \in Int
    BY <1>3, <1>4
  <2>2. IsFiniteSet(T) /\ Cardinality(T) = room
    <3> HIDE DEF room
    <3> QED
      BY <2>1, FS_Interval
  <2>3. f \in [D -> T]
    <3>1. ASSUME NEW m \in D PROVE Cardinality(below(m)) \in T
      <4>1. Cardinality(S) + Cardinality(below(m)) < blockReplica
        BY <3>1
      <4> DEFINE c == Cardinality(below(m))
      <4>2. c \in Nat
        BY <1>3
      <4> HIDE DEF c, below
      <4> QED
        BY <1>3, <1>4, <4>1, <4>2 DEF c
    <3> QED
      BY <3>1
  <2>4. ~(room < Cardinality(D))
    <3> SUFFICES ASSUME room < Cardinality(D) PROVE FALSE
      OBVIOUS
    <3>1. PICK x, y \in D : x # y /\ f[x] = f[y]
      <4> HIDE DEF f, T, D, room
      <4> QED
        BY <1>3, <2>2, <2>3, FS_PigeonHole
    <3>2. Cardinality(below(x)) = Cardinality(below(y))
      BY <3>1
    <3>3. x < y \/ y < x
      <4>1. x \in Nat /\ y \in Nat
        BY NodeAssumption
      <4> QED
        BY <3>1, <4>1
    <3> HIDE DEF D, below
    <3> QED
      BY <1>5, <3>2, <3>3
  <2> HIDE DEF D
  <2> QED
    BY <1>3, <1>4, <2>1, <2>4
<1>7. Cardinality(S \cup D) = Cardinality(S) + Cardinality(D) - Cardinality(S \cap D)
  <2> HIDE DEF D
  <2> QED
    BY <1>3, FS_Union
<1>8. S \cap D = {} /\ Cardinality({}) = 0
  BY FS_EmptySet
<1> HIDE DEF D
<1>9. Cardinality(S \cup D) = Cardinality(S) + Cardinality(D)
  <2>1. Cardinality(S \cap D) = 0
    BY <1>8
  <2> QED
    BY <1>3, <1>7, <2>1
<1> QED
  BY <1>1, <1>6, <1>9

-----------------------------------------------------------------------------
(* ReplicaCap.                                                             *)

\* The empty list, one machine, and a list that loses one.
LEMMA SmallLists ==
  /\ Cardinality({}) <= blockReplica
  /\ \A m : Cardinality({m}) <= blockReplica
  /\ \A S \in SUBSET Node, T \in SUBSET Node :
       T \subseteq S /\ Cardinality(S) <= blockReplica => Cardinality(T) <= blockReplica
<1>1. Cardinality({}) = 0 /\ \A m : Cardinality({m}) = 1
  BY FS_EmptySet, FS_Singleton
<1>2. ASSUME NEW S \in SUBSET Node, NEW T \in SUBSET Node,
             T \subseteq S, Cardinality(S) <= blockReplica
      PROVE  Cardinality(T) <= blockReplica
  <2>1. Cardinality(S) \in Nat /\ Cardinality(T) \in Nat /\ IsFiniteSet(S)
    BY ListFinite
  <2>2. Cardinality(T) <= Cardinality(S)
    BY <1>2, <2>1, FS_Subset
  <2> QED
    BY <1>2, <2>1, <2>2, ReplicaAssumption
<1>3. 0 <= blockReplica /\ 1 <= blockReplica
  BY ReplicaAssumption
<1> QED
  BY <1>1, <1>2, <1>3

\* What an attr object lists is a capped list of machines.
LEMMA AttrCapped ==
  ASSUME TypeOK, CapInv, NEW n \in Node, NEW id \in BlockID, NEW g \in 0..Gen, g # 0
  PROVE  /\ <<n, id, g>> \in Ref
         /\ attr[<<n, id, g>>].machine \in SUBSET Node
         /\ Cardinality(attr[<<n, id, g>>].machine) <= blockReplica
<1>1. <<n, id, g>> \in Ref
  BY BoundAssumption DEF Ref
<1> QED
  BY <1>1 DEF TypeOK, MemoryOK, Attr, CapInv, ReplicaCap

\* One object is written; a message is sent.
LEMMA WriteCapped ==
  ASSUME TypeOK, CapInv, NEW r, NEW S, Cardinality(S) <= blockReplica,
         attr' = [attr EXCEPT ![r].machine = S]
  PROVE  ReplicaCap'
<1>1. attr \in [Ref -> Attr]
  BY DEF TypeOK, MemoryOK
<1>2. \A q \in Ref : attr'[q].machine = IF q = r THEN S ELSE attr[q].machine
  BY <1>1 DEF Attr
<1> QED
  BY <1>2 DEF CapInv, ReplicaCap

LEMMA NewCapped ==
  ASSUME TypeOK, CapInv, NEW n, NEW id, AddLocal(n, id)
  PROVE  ReplicaCap'
<1>1. PICK g : attr' = [attr EXCEPT ![<<n, id, g>>] = NewAttr(n)]
  BY DEF AddLocal
<1>2. Cardinality(NewAttr(n).machine) <= blockReplica
  BY SmallLists DEF NewAttr
<1> QED
  BY <1>1, <1>2 DEF TypeOK, MemoryOK, CapInv, ReplicaCap

LEMMA SendCapped ==
  ASSUME CapInv, NEW n, NEW S, NEW type, NEW id, NEW L, Send(n, S, type, id, L),
         Cardinality(L) <= blockReplica
  PROVE  MsgsCapped'
BY DEF CapInv, MsgsCapped, Send, Sent

\* A handler and its attr object.
LEMMA HandlerPlace ==
  ASSUME TypeOK, NEW s \in Slot, task[s].pc # "idle"
  PROVE  /\ task[s].node \in Node /\ task[s].block \in BlockID
         /\ task[s].ref \in 0..Gen /\ task[s].machine \in SUBSET Node
         /\ Detail(s) \in 0..Gen
<1>1. task[s] \in Task /\ Ready(task[s])
  BY DEF TypeOK, TasksOK
<1>2. task[s].node \in Node /\ task[s].block \in BlockID
  BY <1>1 DEF Ready
<1>3. Detail(s) \in 0..Gen
  BY <1>2 DEF Detail, TypeOK, MemoryOK
<1> QED
  BY <1>1, <1>2, <1>3 DEF Task

LEMMA CapTask ==
  ASSUME TypeOK, CapInv, NEW s \in Slot, TaskStep(s)
  PROVE  CapInv'
<1>1. CASE UNCHANGED <<attr, msgs>>
  BY <1>1 DEF CapInv, ReplicaCap, MsgsCapped
<1>2. CASE Verdict(s)
  <2>1. task[s].pc = "verdict" /\ UNCHANGED msgs
    BY <1>2 DEF Verdict
  <2>2. task[s].ref # 0
    BY <2>1 DEF TypeOK, TasksOK, Ready
  <2> DEFINE r == <<task[s].node, task[s].block, task[s].ref>>
  <2>3. Checked(s) = attr[r].machine /\ attr[r].machine \in SUBSET Node
        /\ Cardinality(attr[r].machine) <= blockReplica
    BY <2>1, <2>2, HandlerPlace, AttrCapped DEF Checked
  <2>4. \/ UNCHANGED attr
        \/ \E m : attr' = [attr EXCEPT ![r].machine = Checked(s) \ {m}]
    BY <1>2 DEF Verdict
  <2>5. \A m : Cardinality(Checked(s) \ {m}) <= blockReplica
    BY <2>3, SmallLists
  <2>6. ReplicaCap'
    BY <2>4, <2>5, WriteCapped DEF CapInv, ReplicaCap
  <2> QED
    BY <2>1, <2>6 DEF CapInv, MsgsCapped
<1>3. CASE CheckDone(s)
  <2>1. task[s].pc = "check" /\ UNCHANGED attr
    BY <1>3 DEF CheckDone
  <2>2. task[s].ref # 0
    BY <2>1 DEF TypeOK, TasksOK, Ready
  <2>3. Cardinality(Checked(s)) <= blockReplica
    BY <2>1, <2>2, HandlerPlace, AttrCapped DEF Checked
  <2>4. \/ UNCHANGED msgs
        \/ \E S : Send(task[s].node, S, "DoReplica", task[s].block, Checked(s))
    BY <1>3 DEF CheckDone
  <2>5. MsgsCapped'
    BY <2>3, <2>4, SendCapped DEF CapInv, MsgsCapped
  <2> QED
    BY <2>1, <2>5 DEF CapInv, ReplicaCap
<1>4. CASE AskRemote(s)
  BY <1>4, SmallLists, SendCapped DEF AskRemote, CapInv, ReplicaCap
<1>5. CASE UseDelete(s)
  <2>1. /\ UNCHANGED attr
        /\ \/ UNCHANGED msgs
           \/ \E S : Send(task[s].node, S, "DoDelete", task[s].block, {})
    BY <1>5 DEF UseDelete
  <2>2. MsgsCapped'
    BY <2>1, SmallLists, SendCapped DEF CapInv, MsgsCapped
  <2> QED
    BY <2>1, <2>2 DEF CapInv, ReplicaCap
<1>6. CASE UseDoDelete(s)
  <2>1. MsgsCapped'
    BY <1>6, SmallLists, SendCapped DEF UseDoDelete
  <2>2. attr' = [attr EXCEPT ![DetailRef(s)].state = "Deleting"] /\ attr \in [Ref -> Attr]
    BY <1>6 DEF UseDoDelete, TypeOK, MemoryOK
  <2>3. \A q \in Ref : attr'[q].machine = attr[q].machine
    BY <2>2 DEF Attr
  <2> QED
    BY <2>1, <2>3 DEF CapInv, ReplicaCap
<1>7. CASE UseReplica(s)
  <2>1. task[s].pc = "use" /\ UNCHANGED msgs
    BY <1>7 DEF UseReplica
  <2>2. Cardinality(AddAll({}, task[s].machine)) <= blockReplica
    BY <2>1, HandlerPlace, SmallLists, AddAllCapped
  <2>3. UNCHANGED attr
        \/ attr' = [attr EXCEPT ![DetailRef(s)].machine = AddAll({}, task[s].machine)]
    BY <1>7 DEF UseReplica
  <2>4. ReplicaCap'
    BY <2>2, <2>3, WriteCapped DEF CapInv, ReplicaCap
  <2> QED
    BY <2>1, <2>4 DEF CapInv, MsgsCapped
<1>8. CASE SaveCopy(s)
  BY <1>8, NewCapped DEF SaveCopy, CapInv, MsgsCapped
<1>9. CASE ReplicaAck(s)
  <2>1. task[s].pc = "acked" /\ UNCHANGED msgs
    BY <1>9 DEF ReplicaAck
  <2>2. task[s].ref # 0 /\ task[s].peer \in Node
    BY <2>1 DEF TypeOK, TasksOK, Ready
  <2>3. Held(s) \in SUBSET Node /\ Cardinality(Held(s)) <= blockReplica
    BY <2>1, <2>2, HandlerPlace, AttrCapped DEF Held
  <2>4. Cardinality(AddAll(Held(s), {task[s].peer})) <= blockReplica
    BY <2>2, <2>3, AddAllCapped
  <2>5. ReplicaCap'
    BY <1>9, <2>4, WriteCapped DEF ReplicaAck
  <2> QED
    BY <2>1, <2>5 DEF CapInv, MsgsCapped
<1>10. CASE ReplicaDone(s)
  <2>1. task[s].pc = "next" /\ UNCHANGED attr
    BY <1>10 DEF ReplicaDone
  <2>2. task[s].ref # 0
    BY <2>1 DEF TypeOK, TasksOK, Ready
  <2>3. Cardinality(Held(s)) <= blockReplica
    BY <2>1, <2>2, HandlerPlace, AttrCapped DEF Held
  <2>4. MsgsCapped'
    BY <1>10, <2>3, SendCapped DEF ReplicaDone
  <2> QED
    BY <2>1, <2>4 DEF CapInv, ReplicaCap
<1>11. ASSUME NextPass(s) \/ AskBlock(s) \/ CheckLost(s) \/ CheckAlive(s) \/ WaitEnd(s)
              \/ Choose(s) \/ Load(s) \/ LoadFails(s) \/ Deliver(s) \/ DetailLost(s)
              \/ EraseLocal(s) \/ Pick(s) \/ SendCopy(s) \/ CopyRefused(s)
              \/ SaveCopyFails(s)
       PROVE  UNCHANGED <<attr, msgs>>
  BY <1>11 DEF NextPass, AskBlock, CheckLost, CheckAlive, WaitEnd, Choose, Load,
     LoadFails, Deliver, DetailLost, EraseLocal, Pick, SendCopy, CopyRefused,
     SaveCopyFails
<1> QED
  BY <1>1, <1>2, <1>3, <1>4, <1>5, <1>6, <1>7, <1>8, <1>9, <1>10, <1>11 DEF TaskStep

LEMMA CapHandle ==
  ASSUME TypeOK, CapInv, Handle
  PROVE  CapInv'
<1> PICK m \in msgs :
      \/ HandleRequestBlockLocation(m) \/ HandleRequestBlockLocationACK(m)
      \/ HandleUpdateReplica(m) \/ HandleDeleteBlock(m)
      \/ \E s \in Slot : HandleDoReplica(s, m) \/ HandleDoDelete(s, m)
  BY DEF Handle
<1>1. /\ m.dst \in Node /\ m.block \in BlockID /\ m.machine \in SUBSET Node
      /\ Cardinality(m.machine) <= blockReplica
  BY DEF TypeOK, MemoryOK, Msg, CapInv, MsgsCapped
<1>2. CASE HandleRequestBlockLocation(m)
  <2> DEFINE g == local[m.dst][m.block]
             L == attr[<<m.dst, m.block, g>>].machine
  <2>1. g \in 0..Gen
    BY <1>1 DEF TypeOK, MemoryOK
  <2>2. g # 0 => Cardinality(L) <= blockReplica
    <3> HIDE DEF g
    <3> QED
      BY <1>1, <2>1, AttrCapped
  <2>3. ASSUME NEW k \in msgs', k \notin msgs PROVE g # 0 /\ k.machine = L
    <3> DEFINE ack == Sent(m.dst, {m.src}, "RequestBlockLocationACK", m.block, L)
    <3>1. g # 0 /\ k \in ack
      BY <1>2, <2>3 DEF HandleRequestBlockLocation
    <3>2. \A j \in ack : j.machine = L
      BY DEF Sent
    <3> QED
      BY <3>1, <3>2
  <2>4. MsgsCapped'
    BY <2>2, <2>3 DEF CapInv, MsgsCapped
  <2> QED
    BY <1>2, <2>4 DEF HandleRequestBlockLocation, CapInv, ReplicaCap
<1>3. CASE HandleRequestBlockLocationACK(m)
  <2> DEFINE n == m.dst  id == m.block  g == remote[n][id]
  <2>0. MsgsCapped'
    BY <1>3 DEF HandleRequestBlockLocationACK, CapInv, MsgsCapped
  <2>1. g \in 0..Gen
    BY <1>1 DEF TypeOK, MemoryOK
  <2>2. CASE g # 0
    <3>1. attr' = [attr EXCEPT ![<<n, id, g>>].machine = AddAll(@, m.machine)]
      BY <1>3, <2>2 DEF HandleRequestBlockLocationACK
    <3> HIDE DEF g
    <3>2. <<n, id, g>> \in Ref /\ attr[<<n, id, g>>].machine \in SUBSET Node
          /\ Cardinality(attr[<<n, id, g>>].machine) <= blockReplica
      BY <1>1, <2>1, <2>2, AttrCapped
    <3>3. Cardinality(AddAll(attr[<<n, id, g>>].machine, m.machine)) <= blockReplica
      BY <1>1, <3>2, AddAllCapped
    <3>4. attr' = [attr EXCEPT ![<<n, id, g>>].machine =
                     AddAll(attr[<<n, id, g>>].machine, m.machine)]
      BY <3>1, <3>2 DEF TypeOK, MemoryOK
    <3> QED
      BY <2>0, <3>3, <3>4, WriteCapped DEF CapInv
  <2>3. CASE g = 0
    <3>1. PICK h : attr' = [attr EXCEPT ![<<n, id, h>>] =
                              [NoAttr EXCEPT !.machine = AddAll({}, m.machine)]]
      BY <1>3, <2>3 DEF HandleRequestBlockLocationACK
    <3>2. Cardinality(AddAll({}, m.machine)) <= blockReplica
      BY <1>1, SmallLists, AddAllCapped
    <3>3. [NoAttr EXCEPT !.machine = AddAll({}, m.machine)].machine = AddAll({}, m.machine)
      BY DEF NoAttr
    <3> QED
      BY <2>0, <3>1, <3>2, <3>3 DEF CapInv, ReplicaCap, TypeOK, MemoryOK
  <2> QED
    BY <2>2, <2>3
<1>4. CASE HandleUpdateReplica(m)
  <2>1. MsgsCapped'
    BY <1>4 DEF HandleUpdateReplica, CapInv, MsgsCapped
  <2>2. ASSUME NEW r \in Ref PROVE attr'[r].machine \in {attr[r].machine, m.machine}
    <3>1. attr[r] \in Attr
      BY DEF TypeOK, MemoryOK
    <3>2. [attr[r] EXCEPT !.machine = m.machine].machine = m.machine
      BY <3>1 DEF Attr
    <3> QED
      BY <1>4, <3>2 DEF HandleUpdateReplica
  <2> QED
    BY <1>1, <2>1, <2>2 DEF CapInv, ReplicaCap
<1>5. CASE \/ HandleDeleteBlock(m)
           \/ \E s \in Slot : HandleDoReplica(s, m) \/ HandleDoDelete(s, m)
  <2>1. UNCHANGED attr /\ msgs' \subseteq msgs
    BY <1>5 DEF HandleDeleteBlock, HandleDoReplica, HandleDoDelete
  <2> QED
    BY <2>1 DEF CapInv, ReplicaCap, MsgsCapped
<1> QED
  BY <1>2, <1>3, <1>4, <1>5

LEMMA CapStep ==
  ASSUME TypeOK, CapInv, [Next]_vars
  PROVE  CapInv'
<1>1. CASE Operation
  <2>1. ASSUME NEW n \in Node, Save(n) PROVE CapInv'
    BY <2>1, NewCapped DEF Save, CapInv, MsgsCapped
  <2>2. ASSUME NEW n \in Node,
               SaveFails(n) \/ \E s \in Slot : CheckAllReplica(s, n)
                 \/ \E id \in BlockID : Get(s, n, id) \/ Delete(s, n, id)
        PROVE  CapInv'
    <3>1. UNCHANGED <<attr, msgs>>
      BY <2>2 DEF SaveFails, CheckAllReplica, Get, Delete
    <3> QED
      BY <3>1 DEF CapInv, ReplicaCap, MsgsCapped
  <2> QED
    BY <1>1, <2>1, <2>2 DEF Operation
<1>2. ASSUME NEW s \in Slot, TaskStep(s) PROVE CapInv'
  BY <1>2, CapTask
<1>3. CASE Handle
  BY <1>3, CapHandle
<1>4. CASE Environment
  <2>1. ASSUME NEW n \in Node, Crash(n) PROVE CapInv'
    <3>1. msgs' \subseteq msgs /\ \A r \in Ref : attr'[r] \in {attr[r], NoAttr}
      BY <2>1 DEF Crash
    <3>2. Cardinality(NoAttr.machine) <= blockReplica
      BY SmallLists DEF NoAttr
    <3> QED
      BY <3>1, <3>2 DEF CapInv, ReplicaCap, MsgsCapped
  <2>2. ASSUME NEW n \in Node, Restart(n) PROVE CapInv'
    <3>1. UNCHANGED msgs /\ \A r \in Ref : attr'[r] \in {attr[r], NewAttr(n)}
      BY <2>2 DEF Restart
    <3>2. Cardinality(NewAttr(n).machine) <= blockReplica
      BY SmallLists DEF NewAttr
    <3> QED
      BY <3>1, <3>2 DEF CapInv, ReplicaCap, MsgsCapped
  <2>3. ASSUME NEW n \in Node, LoseRoute(n) PROVE CapInv'
    BY <2>3 DEF LoseRoute, CapInv, ReplicaCap, MsgsCapped
  <2> QED
    BY <1>4, <2>1, <2>2, <2>3 DEF Environment
<1>5. CASE UNCHANGED vars
  BY <1>5 DEF vars, CapInv, ReplicaCap, MsgsCapped
<1> QED
  BY <1>1, <1>2, <1>3, <1>4, <1>5 DEF Next

\* In every cluster and every interleaving of merges, updates and acknowledgements,
\* what blockReplica minus the size of a list says is never negative.
THEOREM CapCorrect == Spec => []ReplicaCap
<1>1. Init => CapInv
  BY SmallLists DEF Init, CapInv, ReplicaCap, MsgsCapped, NoAttr
<1>2. CapInv => ReplicaCap
  BY DEF CapInv
<1> QED
  BY TypeCorrect, <1>1, <1>2, CapStep, PTL DEF Spec

-----------------------------------------------------------------------------
(* The proof of ListingsTruthful.  The inductive invariant says it of all  *)
(* that a list can come from (attr objects, messages, handlers), and that  *)
(* only what was deleted is ever erased.  TasksConnected rests on it.      *)

\* Every machine of list S holds block id, on disks D, unless it is deleted.
HonestList(S, id, D, X) == id \notin X => \A m \in S : D[m][id] # 0

\* What a handler carries: a list, a machine that answered, a block to write.
Honest(t, D, X) ==
  /\ t.pc \notin {"idle", "next", "copying", "acked"} => HonestList(t.machine, t.block, D, X)
  /\ t.pc = "acked" => HonestList({t.peer}, t.block, D, X)
  /\ t.pc = "save" => t.data # 0
  /\ t.pc = "erase" => t.block \in X

AttrsHonest == \A r \in Ref : HonestList(attr[r].machine, r[2], disk, deleted)
MsgsHonest ==
  \A m \in msgs : /\ HonestList(m.machine, m.block, disk, deleted)
                  /\ m.type = "DeleteBlock" => m.block \in deleted
TasksHonest == \A s \in Slot : Honest(task[s], disk, deleted)

\* A handler that serves a copy, and the handler that waits for it.
Serves(c, t) == /\ c.op = "copy" /\ c.pc \in {"load", "save"}
                /\ c.node = t.peer /\ c.block = t.block
Linked == \A s \in Slot :
            task[s].pc = "copying" =>
              task[s].conn \in Slot /\ Serves(task[task[s].conn], task[s])

Lists == AttrsHonest /\ MsgsHonest /\ TasksHonest /\ Linked
ListInv == TypeOK /\ Lists

\* Copies appear and disappear: those of a block that is not deleted stay.
Grows(D, X, E, Y) ==
  X \subseteq Y /\ \A n \in Node, id \in BlockID :
                     id \notin Y /\ D[n][id] # 0 => E[n][id] # 0

\* A list that is honest stays honest while copies stay.
LEMMA ListKept ==
  ASSUME NEW D, NEW X, NEW E, NEW Y, Grows(D, X, E, Y),
         NEW S \in SUBSET Node, NEW id \in BlockID, HonestList(S, id, D, X)
  PROVE  HonestList(S, id, E, Y)
BY DEF Grows, HonestList

LEMMA TaskKept ==
  ASSUME NEW D, NEW X, NEW E, NEW Y, Grows(D, X, E, Y),
         NEW t \in Task, Ready(t), Honest(t, D, X)
  PROVE  Honest(t, E, Y)
<1>1. CASE t.pc = "idle"  BY <1>1 DEF Honest
<1>2. CASE t.pc # "idle"
  <2>1. t.block \in BlockID /\ t.machine \in SUBSET Node
    BY <1>2 DEF Task, Ready
  <2>2. t.pc = "acked" => {t.peer} \in SUBSET Node  BY DEF Ready
  <2>3. t.pc = "erase" => t.block \in Y  BY DEF Honest, Grows
  <2> QED  BY <2>1, <2>2, <2>3, ListKept DEF Honest
<1> QED  BY <1>1, <1>2

\* What nobody touches stays honest while copies stay.
LEMMA AllKept ==
  ASSUME TypeOK, AttrsHonest, MsgsHonest, TasksHonest,
         Grows(disk, deleted, disk', deleted')
  PROVE  /\ \A r \in Ref : HonestList(attr[r].machine, r[2], disk', deleted')
         /\ \A m \in msgs : /\ HonestList(m.machine, m.block, disk', deleted')
                            /\ m.type = "DeleteBlock" => m.block \in deleted'
         /\ \A s \in Slot : Honest(task[s], disk', deleted')
<1>1. ASSUME NEW r \in Ref
      PROVE  HonestList(attr[r].machine, r[2], disk', deleted')
  <2>1. attr[r].machine \in SUBSET Node /\ r[2] \in BlockID
    BY DEF TypeOK, MemoryOK, Attr, Ref
  <2>2. HonestList(attr[r].machine, r[2], disk, deleted)  BY DEF AttrsHonest
  <2> QED  BY <2>1, <2>2, ListKept
<1>2. ASSUME NEW m \in msgs
      PROVE  /\ HonestList(m.machine, m.block, disk', deleted')
             /\ m.type = "DeleteBlock" => m.block \in deleted'
  <2>1. m.machine \in SUBSET Node /\ m.block \in BlockID
    BY DEF TypeOK, MemoryOK, Msg
  <2>2. HonestList(m.machine, m.block, disk, deleted)
        /\ (m.type = "DeleteBlock" => m.block \in deleted)
    BY DEF MsgsHonest
  <2> QED  BY <2>1, <2>2, ListKept DEF Grows
<1>3. ASSUME NEW s \in Slot  PROVE Honest(task[s], disk', deleted')
  <2>1. task[s] \in Task /\ Ready(task[s])  BY DEF TypeOK, TasksOK
  <2>2. Honest(task[s], disk, deleted)  BY DEF TasksHonest
  <2> QED  BY <2>1, <2>2, TaskKept
<1> QED  BY <1>1, <1>2, <1>3

\* A message that carries an honest list leaves the messages honest.
LEMMA SendHonest ==
  ASSUME TypeOK, MsgsHonest, NEW n \in Node, NEW S, NEW id \in BlockID,
         NEW L \in SUBSET Node, NEW type \in MsgType,
         HonestList(L, id, disk, deleted), disk' = disk,
         deleted \subseteq deleted', type = "DeleteBlock" => id \in deleted',
         Send(n, S, type, id, L)
  PROVE  MsgsHonest'
<1>1. ASSUME NEW m \in msgs'
      PROVE  /\ HonestList(m.machine, m.block, disk', deleted')
             /\ m.type = "DeleteBlock" => m.block \in deleted'
  <2>1. CASE m \in msgs  BY <2>1 DEF MsgsHonest, HonestList
  <2>2. CASE m \notin msgs
    <3>1. m.machine = L /\ m.block = id /\ m.type = type
      BY <2>2 DEF Send, Sent
    <3> QED  BY <3>1 DEF HonestList
  <2> QED  BY <2>1, <2>2
<1> QED  BY <1>1 DEF MsgsHonest

\* addMachine adds nothing but what it is given.
LEMMA AddAllSubset ==
  ASSUME NEW S, NEW L
  PROVE  AddAll(S, L) \subseteq S \cup L
BY DEF AddAll

\* A handler that moves without a connection of its own leaves the others'.
LEMMA StepLinked ==
  ASSUME Linked, NEW s \in Slot, NEW t, Step(s, t), t.pc # "copying",
         task \in [Slot -> Task],
         task[s].op # "copy" \/ task[s].pc \notin {"load", "save"}
  PROVE  Linked'
<1>1. task' = [task EXCEPT ![s] = t]  BY DEF Step
<1>2. ASSUME NEW u \in Slot, task'[u].pc = "copying"
      PROVE  task'[u].conn \in Slot /\ Serves(task'[task'[u].conn], task'[u])
  <2>1. u # s /\ task'[u] = task[u]  BY <1>1, <1>2
  <2>2. task[u].conn \in Slot /\ Serves(task[task[u].conn], task[u])
    BY <1>2, <2>1 DEF Linked
  <2>3. task[u].conn # s  BY <2>2 DEF Serves
  <2>4. task'[task[u].conn] = task[task[u].conn]  BY <1>1, <2>2, <2>3
  <2> QED  BY <2>1, <2>2, <2>4
<1> QED  BY <1>2 DEF Linked

\* One handler moves with what is honest, the disks stay.
LEMMA StepHonest ==
  ASSUME TasksHonest, NEW s \in Slot, NEW t, Step(s, t),
         task \in [Slot -> Task], Honest(t, disk, deleted),
         UNCHANGED <<disk, deleted>>
  PROVE  TasksHonest'
BY DEF TasksHonest, Step

LEMMA ListInit == Init => ListInv
<1> SUFFICES ASSUME Init PROVE ListInv
  OBVIOUS
<1>1. TypeOK  BY TypeInit
<1>2. AttrsHonest  BY DEF Init, AttrsHonest, HonestList, NoAttr
<1>3. MsgsHonest  BY DEF Init, MsgsHonest
<1>4. TasksHonest  BY DEF Init, TasksHonest, Honest, Idle, NewTask
<1>5. Linked  BY DEF Init, Linked, Idle, NewTask
<1> QED  BY <1>1, <1>2, <1>3, <1>4, <1>5 DEF ListInv, Lists

\* A handler that only moves on keeps everything as honest as it was.
LEMMA MoveKeeps ==
  ASSUME ListInv, NEW s \in Slot, NEW t, Step(s, t), t.pc # "copying",
         task[s].op # "copy" \/ task[s].pc \notin {"load", "save"},
         Honest(t, disk, deleted), UNCHANGED <<disk, attr, msgs, deleted>>
  PROVE  Lists'
<1>1. task \in [Slot -> Task]  BY DEF ListInv, TypeOK, TasksOK
<1>2. TasksHonest'  BY <1>1, StepHonest DEF ListInv, Lists
<1>3. Linked'  BY <1>1, StepLinked DEF ListInv, Lists
<1>4. AttrsHonest' /\ MsgsHonest'
  BY DEF ListInv, Lists, AttrsHonest, MsgsHonest
<1> QED  BY <1>2, <1>3, <1>4 DEF Lists

\* ... also when it sends an honest list, or writes one to an attr object.
LEMMA SendKeeps ==
  ASSUME ListInv, NEW s \in Slot, NEW t, Step(s, t), t.pc # "copying",
         task[s].op # "copy" \/ task[s].pc \notin {"load", "save"},
         Honest(t, disk, deleted), UNCHANGED <<disk, attr, deleted>>, MsgsHonest'
  PROVE  Lists'
<1>1. task \in [Slot -> Task]  BY DEF ListInv, TypeOK, TasksOK
<1>2. TasksHonest'  BY <1>1, StepHonest DEF ListInv, Lists
<1>3. Linked'  BY <1>1, StepLinked DEF ListInv, Lists
<1>4. AttrsHonest'  BY DEF ListInv, Lists, AttrsHonest
<1> QED  BY <1>2, <1>3, <1>4 DEF Lists

LEMMA WriteKeeps ==
  ASSUME ListInv, NEW s \in Slot, NEW t, Step(s, t), t.pc # "copying",
         task[s].op # "copy" \/ task[s].pc \notin {"load", "save"},
         Honest(t, disk, deleted), UNCHANGED <<disk, msgs, deleted>>,
         NEW r \in Ref, NEW S, HonestList(S, r[2], disk, deleted),
         attr' = [attr EXCEPT ![r].machine = S]
  PROVE  Lists'
<1>1. task \in [Slot -> Task]  BY DEF ListInv, TypeOK, TasksOK
<1>2. TasksHonest'  BY <1>1, StepHonest DEF ListInv, Lists
<1>3. Linked'  BY <1>1, StepLinked DEF ListInv, Lists
<1>4. MsgsHonest'  BY DEF ListInv, Lists, MsgsHonest
<1>5. ASSUME NEW q \in Ref  PROVE HonestList(attr'[q].machine, q[2], disk, deleted)
  <2>1. attr \in [Ref -> Attr]  BY DEF ListInv, TypeOK, MemoryOK
  <2>2. attr'[q].machine = IF q = r THEN S ELSE attr[q].machine
    BY <2>1 DEF Attr
  <2>3. HonestList(attr[q].machine, q[2], disk, deleted)
    BY DEF ListInv, Lists, AttrsHonest
  <2> QED  BY <2>2, <2>3
<1>6. AttrsHonest'  BY <1>5 DEF AttrsHonest
<1> QED  BY <1>2, <1>3, <1>4, <1>6 DEF Lists

\* What the attr object of a handler lists.
LEMMA RefHonest ==
  ASSUME ListInv, NEW n \in Node, NEW id \in BlockID, NEW g \in 0..Gen, g # 0
  PROVE  /\ <<n, id, g>> \in Ref
         /\ attr[<<n, id, g>>].machine \in SUBSET Node
         /\ HonestList(attr[<<n, id, g>>].machine, id, disk, deleted)
<1>1. <<n, id, g>> \in Ref /\ <<n, id, g>>[2] = id  BY BoundAssumption DEF Ref
<1> QED  BY <1>1 DEF ListInv, Lists, AttrsHonest, TypeOK, MemoryOK, Attr

LEMMA HandlerFacts ==
  ASSUME ListInv, NEW s \in Slot, task[s].pc # "idle"
  PROVE  /\ task[s] \in Task /\ Ready(task[s]) /\ task[s].node \in Node
         /\ task[s].block \in BlockID /\ Honest(task[s], disk, deleted)
         /\ task[s].pc \notin {"next", "copying", "acked"} =>
              HonestList(task[s].machine, task[s].block, disk, deleted)
<1>1. task[s] \in Task /\ Ready(task[s])  BY DEF ListInv, TypeOK, TasksOK
<1>2. Honest(task[s], disk, deleted)  BY DEF ListInv, Lists, TasksHonest
<1> QED  BY <1>1, <1>2 DEF Ready, Honest

\* A handler that starts anew is as honest as its list.
LEMMA NewHonest ==
  ASSUME NEW pc \in TaskPC, pc # "erase", NEW op, NEW n, NEW id, NEW S,
         NEW D, NEW X, HonestList(S, id, D, X)
  PROVE  Honest(NewTask(pc, op, n, id, S), D, X)
BY DEF NewTask, Honest, TaskPC

LEMMA IdleHonest ==
  ASSUME NEW D, NEW X
  PROVE  Honest(Idle, D, X)
BY DEF Idle, NewTask, Honest

LEMMA EmptyHonest ==
  ASSUME NEW id, NEW D, NEW X
  PROVE  HonestList({}, id, D, X)
BY DEF HonestList

\* A new entry of a machine that holds the block is honest.
LEMMA AddLocalHonest ==
  ASSUME TypeOK, NEW n \in Node, NEW id \in BlockID, AddLocal(n, id),
         disk'[n][id] # 0,
         \A r \in Ref : HonestList(attr[r].machine, r[2], disk', deleted')
  PROVE  AttrsHonest'
<1>1. PICK g : attr' = [attr EXCEPT ![<<n, id, g>>] = NewAttr(n)]
  BY DEF AddLocal
<1>2. ASSUME NEW r \in Ref  PROVE HonestList(attr'[r].machine, r[2], disk', deleted')
  <2>1. CASE r = <<n, id, g>>
    <3>1. attr'[r].machine = {n} /\ r[2] = id
      BY <1>1, <2>1 DEF NewAttr, TypeOK, MemoryOK
    <3> QED  BY <3>1 DEF HonestList
  <2>2. CASE r # <<n, id, g>>
    BY <1>1, <2>2 DEF TypeOK, MemoryOK
  <2> QED  BY <2>1, <2>2
<1> QED  BY <1>2 DEF AttrsHonest

LEMMA ListOperation ==
  ASSUME ListInv, TypeOK', Operation
  PROVE  Lists'
<1>1. ASSUME NEW n \in Node, Save(n)  PROVE Lists'
  <2> DEFINE id == <<n, localMax[n] + 1>>
  <2>1. id \in BlockID
    BY <1>1 DEF Save, ListInv, TypeOK, MemoryOK, BlockID
  <2>2. gen[id] + 1 # 0  BY <2>1 DEF ListInv, TypeOK, MemoryOK
  <2>3. AddLocal(n, id) /\ disk' = [disk EXCEPT ![n][id] = gen[id] + 1]
        /\ UNCHANGED <<msgs, task, deleted>>
    BY <1>1 DEF Save
  <2> HIDE DEF id
  <2>4. disk'[n][id] # 0 /\ Grows(disk, deleted, disk', deleted')
    BY <2>1, <2>2, <2>3 DEF Grows, ListInv, TypeOK, MemoryOK
  <2>5. /\ \A r \in Ref : HonestList(attr[r].machine, r[2], disk', deleted')
        /\ \A m \in msgs : /\ HonestList(m.machine, m.block, disk', deleted')
                           /\ m.type = "DeleteBlock" => m.block \in deleted'
        /\ \A s \in Slot : Honest(task[s], disk', deleted')
    BY <2>4, AllKept DEF ListInv, Lists
  <2>6. AttrsHonest'  BY <2>1, <2>3, <2>4, <2>5, AddLocalHonest DEF ListInv
  <2> QED
    BY <2>3, <2>5, <2>6 DEF ListInv, Lists, MsgsHonest, TasksHonest, Linked
<1>2. ASSUME NEW n \in Node, SaveFails(n)  PROVE Lists'
  BY <1>2 DEF SaveFails, ListInv, Lists, AttrsHonest, MsgsHonest, TasksHonest, Linked
<1>3. ASSUME NEW n \in Node, NEW s \in Slot, NEW id \in BlockID,
             Get(s, n, id) \/ Delete(s, n, id)
      PROVE  Lists'
  <2>1. PICK op \in TaskOp : Step(s, NewTask("ask", op, n, id, {}))
    BY <1>3 DEF Get, Delete, Begin, TaskOp
  <2>2. Honest(NewTask("ask", op, n, id, {}), disk, deleted)
    BY NewHonest, EmptyHonest DEF TaskPC
  <2>3. NewTask("ask", op, n, id, {}).pc = "ask"  BY DEF NewTask
  <2>4. task[s].pc = "idle" /\ UNCHANGED <<disk, attr, msgs, deleted>>
    BY <1>3 DEF Get, Delete, Begin
  <2> QED  BY <2>1, <2>2, <2>3, <2>4, MoveKeeps
<1>4. ASSUME NEW n \in Node, NEW s \in Slot, CheckAllReplica(s, n)
      PROVE  Lists'
  <2>1. PICK id \in Lowest(Listed(n)) : Begin(s, PassTask(n, id))
    BY <1>4 DEF CheckAllReplica
  <2>2. id \in BlockID /\ local[n][id] \in 0..Gen /\ local[n][id] # 0
    BY <2>1 DEF Lowest, Listed, ListInv, TypeOK, MemoryOK
  <2>3. HonestList(attr[<<n, id, local[n][id]>>].machine, id, disk, deleted)
    BY <2>2, RefHonest
  <2>4. Honest(PassTask(n, id), disk, deleted)
    BY <2>3, NewHonest DEF PassTask, TaskPC
  <2>5. PassTask(n, id).pc = "ask"  BY DEF PassTask, NewTask
  <2>6. task[s].pc = "idle" /\ UNCHANGED <<disk, attr, msgs, deleted>>
    BY <1>4, <2>1 DEF CheckAllReplica, Begin
  <2> QED  BY <2>1, <2>4, <2>5, <2>6, MoveKeeps DEF Begin
<1> QED  BY <1>1, <1>2, <1>3, <1>4 DEF Operation

LEMMA ListAsk ==
  ASSUME ListInv, TypeOK', NEW s \in Slot,
         \/ NextPass(s) \/ AskBlock(s) \/ CheckLost(s) \/ CheckAlive(s) \/ Verdict(s)
         \/ CheckDone(s) \/ AskRemote(s) \/ WaitEnd(s) \/ Choose(s)
  PROVE  Lists'
<1> DEFINE n == task[s].node
           id == task[s].block
<1>a. task[s].pc \in {"pass", "ask", "check", "verdict", "remote", "wait", "choose"}
  BY DEF NextPass, AskBlock, CheckLost, CheckAlive, Verdict, CheckDone, AskRemote,
         WaitEnd, Choose
<1>b. /\ task[s] \in Task /\ Ready(task[s]) /\ n \in Node /\ id \in BlockID
      /\ HonestList(task[s].machine, id, disk, deleted)
  BY <1>a, HandlerFacts
<1>c. ASSUME NEW t, t.machine = task[s].machine, t.block = id,
             t.pc \notin {"acked", "save", "erase"}
      PROVE  Honest(t, disk, deleted)
  BY <1>b, <1>c DEF Honest
<1>d. ASSUME NEW pc \in TaskPC, pc # "erase"
      PROVE  /\ Honest(Asking(s, pc), disk, deleted) /\ Asking(s, pc).pc = pc
             /\ Asking(s, pc).machine = task[s].machine /\ Asking(s, pc).block = id
  BY <1>b, <1>d, NewHonest DEF Asking, NewTask
<1>e. ASSUME NEW m
      PROVE  Honest(Answered(s, m), disk, deleted) /\ Answered(s, m).pc # "copying"
  <2>1. CASE task[s].op = "get"
    <3>1. Answered(s, m) = [Asking(s, "load") EXCEPT !.peer = m]
      BY <2>1 DEF Answered
    <3>2. /\ Answered(s, m).pc = "load" /\ Answered(s, m).machine = task[s].machine
          /\ Answered(s, m).block = id
      BY <3>1 DEF Asking, NewTask
    <3> QED  BY <1>c, <3>2
  <2>2. CASE task[s].op # "get"
    BY <2>2, <1>d DEF Answered, TaskPC
  <2> QED  BY <2>1, <2>2
<1>f. Honest(Returned(s), disk, deleted) /\ Returned(s).pc # "copying"
  BY IdleHonest, NewHonest, EmptyHonest DEF Returned, TaskPC, NewTask, Idle
<1>g. ASSUME NEW pc, pc \notin {"acked", "save", "erase", "copying"}
      PROVE  Honest([task[s] EXCEPT !.pc = pc], disk, deleted)
             /\ [task[s] EXCEPT !.pc = pc].pc # "copying"
  BY <1>b, <1>c, <1>g DEF Task
<1>h. task[s].ref # 0 =>
        /\ <<n, id, task[s].ref>> \in Ref
        /\ Checked(s) \in SUBSET Node /\ HonestList(Checked(s), id, disk, deleted)
  BY <1>b, RefHonest DEF Checked, Task
<1>1. CASE NextPass(s)
  <2>1. ASSUME NEW i \in Listed(n)
        PROVE  Honest(PassTask(n, i), disk, deleted) /\ PassTask(n, i).pc # "copying"
    <3>1. i \in BlockID /\ local[n][i] \in 0..Gen /\ local[n][i] # 0
      BY <1>b, <2>1 DEF Listed, ListInv, TypeOK, MemoryOK
    <3>2. HonestList(attr[<<n, i, local[n][i]>>].machine, i, disk, deleted)
      BY <1>b, <3>1, RefHonest
    <3> QED  BY <3>2, NewHonest DEF PassTask, NewTask, TaskPC
  <2>4. Honest(Idle, disk, deleted) /\ Idle.pc # "copying"
    BY IdleHonest DEF Idle, NewTask
  <2>5. Honest([task[s] EXCEPT !.pc = "ub"], disk, deleted)
        /\ [task[s] EXCEPT !.pc = "ub"].pc # "copying"
    BY <1>g
  <2>2. PICK t : Step(s, t) /\ Honest(t, disk, deleted) /\ t.pc # "copying"
    BY <1>1, <2>1, <2>4, <2>5 DEF NextPass, Lowest
  <2>3. UNCHANGED <<disk, attr, msgs, deleted>>  BY <1>1 DEF NextPass
  <2> QED  BY <1>a, <2>2, <2>3, MoveKeeps
<1>2. CASE AskBlock(s)
  <2> DEFINE g == remote[n][id]
             size == Cardinality(attr[<<n, id, g>>].machine)
             t == [task[s] EXCEPT !.pc = "check", !.ref = g, !.idx = size,
                                  !.short = size < blockReplica]
  <2>1. Step(s, t) \/ Step(s, Answered(s, n)) \/ Step(s, Asking(s, "remote"))
    BY <1>2 DEF AskBlock
  <2>2. Honest(t, disk, deleted) /\ t.pc # "copying"
    <3> HIDE DEF g, size
    <3>1. t.pc = "check" /\ t.machine = task[s].machine /\ t.block = id
      BY <1>b DEF Task
    <3> HIDE DEF t
    <3> QED  BY <3>1, <1>c
  <2>3. Honest(Answered(s, n), disk, deleted) /\ Answered(s, n).pc # "copying"
    BY <1>e
  <2>4. Honest(Asking(s, "remote"), disk, deleted) /\ Asking(s, "remote").pc # "copying"
    BY <1>d DEF TaskPC
  <2>5. UNCHANGED <<disk, attr, msgs, deleted>>  BY <1>2 DEF AskBlock
  <2> HIDE DEF t
  <2> QED  BY <1>a, <2>1, <2>2, <2>3, <2>4, <2>5, MoveKeeps
<1>3. CASE CheckLost(s)
  BY <1>3, <1>a, <1>g, MoveKeeps DEF CheckLost
<1>4. CASE CheckAlive(s)
  <2>1. PICK alive : Step(s, [task[s] EXCEPT !.pc = "verdict", !.alive = alive])
    BY <1>4 DEF CheckAlive
  <2> DEFINE t == [task[s] EXCEPT !.pc = "verdict", !.alive = alive]
  <2>2. Honest(t, disk, deleted) /\ t.pc # "copying"
    BY <1>b, <1>c DEF Task
  <2>3. UNCHANGED <<disk, attr, msgs, deleted>>  BY <1>4 DEF CheckAlive
  <2> HIDE DEF t
  <2>4. Step(s, t)  BY <2>1 DEF t
  <2> QED  BY <1>a, <2>2, <2>3, <2>4, MoveKeeps
<1>5. CASE Verdict(s)
  <2>1. /\ task[s].ref # 0 /\ UNCHANGED <<disk, msgs, deleted>>
    BY <1>5, <1>b DEF Verdict, Ready
  <2>2. ASSUME NEW b
        PROVE  LET t == [task[s] EXCEPT !.pc = "check", !.idx = task[s].idx - 1, !.short = b]
               IN  Honest(t, disk, deleted) /\ t.pc # "copying"
    BY <1>b, <1>c DEF Task
  <2>3. LET t == [task[s] EXCEPT !.pc = "check", !.idx = task[s].idx - 1]
        IN  Honest(t, disk, deleted) /\ t.pc # "copying"
    BY <1>b, <1>c DEF Task
  <2>4. PICK t : Step(s, t) /\ Honest(t, disk, deleted) /\ t.pc # "copying"
    BY <1>5, <1>g, <2>2, <2>3 DEF Verdict
  <2>5. CASE UNCHANGED attr  BY <1>a, <2>1, <2>4, <2>5, MoveKeeps
  <2>6. CASE attr' = [attr EXCEPT ![<<n, id, task[s].ref>>].machine =
                        Checked(s) \ {Nth(Checked(s), task[s].idx)}]
    <3> DEFINE S == Checked(s) \ {Nth(Checked(s), task[s].idx)}
               r == <<n, id, task[s].ref>>
    <3>1. HonestList(S, r[2], disk, deleted) /\ r \in Ref
      BY <1>h, <2>1 DEF HonestList
    <3>2. attr' = [attr EXCEPT ![r].machine = S]  BY <2>6
    <3> HIDE DEF S, r
    <3> QED  BY <1>a, <2>1, <2>4, <3>1, <3>2, WriteKeeps
  <2> QED  BY <1>5, <2>5, <2>6 DEF Verdict
<1>6. CASE CheckDone(s)
  <2>1. task[s].ref # 0 /\ UNCHANGED <<disk, attr, deleted>>
    BY <1>6, <1>b DEF CheckDone, Ready
  <2>2. LET t == [Asking(s, "choose") EXCEPT !.ref = task[s].ref]
        IN  Honest(t, disk, deleted) /\ t.pc # "copying"
    BY <1>c DEF Asking, NewTask
  <2>3. PICK t : Step(s, t) /\ Honest(t, disk, deleted) /\ t.pc # "copying"
    BY <1>6, <1>d, <2>2 DEF CheckDone, TaskPC
  <2>4. MsgsHonest'
    <3>1. CASE UNCHANGED msgs  BY <2>1, <3>1 DEF ListInv, Lists, MsgsHonest
    <3>2. CASE Send(n, {First(Checked(s))}, "DoReplica", id, Checked(s))
      <4>1. /\ n \in Node /\ id \in BlockID /\ "DoReplica" \in MsgType
            /\ Checked(s) \in SUBSET Node
            /\ HonestList(Checked(s), id, disk, deleted)
        BY <1>b, <1>h, <2>1 DEF MsgType
      <4> HIDE DEF n, id
      <4> QED  BY <2>1, <3>2, <4>1, SendHonest DEF ListInv, Lists
    <3> QED  BY <1>6, <3>1, <3>2 DEF CheckDone
  <2> QED  BY <1>a, <2>1, <2>3, <2>4, SendKeeps
<1>7. CASE AskRemote(s)
  <2>1. UNCHANGED <<disk, attr, deleted>> /\ Step(s, [task[s] EXCEPT !.pc = "wait"])
        /\ Send(n, route[n], "RequestBlockLocation", id, {})
    BY <1>7 DEF AskRemote
  <2>2. "RequestBlockLocation" \in MsgType /\ {} \in SUBSET Node  BY DEF MsgType
  <2>3. MsgsHonest'
    <3> HIDE DEF n, id
    <3> QED  BY <1>b, <2>1, <2>2, EmptyHonest, SendHonest DEF ListInv, Lists
  <2> QED  BY <1>a, <1>g, <2>1, <2>3, SendKeeps
<1>8. CASE WaitEnd(s)
  <2>1. ASSUME NEW g
        PROVE  LET t == [task[s] EXCEPT !.pc = "choose", !.ref = g]
               IN  Honest(t, disk, deleted) /\ t.pc # "copying"
    BY <1>b, <1>c DEF Task
  <2>2. PICK t : Step(s, t) /\ Honest(t, disk, deleted) /\ t.pc # "copying"
    BY <1>8, <1>f, <1>g, <2>1 DEF WaitEnd
  <2> QED  BY <1>8, <1>a, <2>2, MoveKeeps DEF WaitEnd
<1>9. CASE Choose(s)
  <2>1. PICK t : Step(s, t) /\ Honest(t, disk, deleted) /\ t.pc # "copying"
    BY <1>9, <1>e, <1>g DEF Choose
  <2> QED  BY <1>9, <1>a, <2>1, MoveKeeps DEF Choose
<1> QED  BY <1>1, <1>2, <1>3, <1>4, <1>5, <1>6, <1>7, <1>8, <1>9

\* A connection closes, or a handler without one ends.
LEMMA HangUpKeeps ==
  ASSUME ListInv, NEW s \in Slot, HangUp(s), UNCHANGED <<disk, attr, msgs, deleted>>
  PROVE  Lists'
<1>1. task \in [Slot -> Task]  BY DEF ListInv, TypeOK, TasksOK
<1>2. ASSUME NEW u \in Slot
      PROVE  /\ Honest(task'[u], disk, deleted)
             /\ task'[u].pc = "copying" => task'[u] = task[u] /\ task[u].conn # s
  <2>1. CASE u = s
    <3>1. task'[u] = Idle  BY <2>1 DEF HangUp
    <3>2. Idle.pc = "idle"  BY DEF Idle, NewTask
    <3> QED  BY <3>1, <3>2, IdleHonest
  <2>2. CASE u # s /\ task[u].pc = "copying" /\ task[u].conn = s
    <3>1. task'[u] = [task[u] EXCEPT !.pc = "next", !.conn = NoSlot]
      BY <2>2 DEF HangUp
    <3>2. task'[u].pc = "next"  BY <1>1, <3>1 DEF Task
    <3> QED  BY <3>2 DEF Honest
  <2>3. CASE u # s /\ ~(task[u].pc = "copying" /\ task[u].conn = s)
    <3>1. task'[u] = task[u]  BY <2>3 DEF HangUp
    <3> QED  BY <2>3, <3>1 DEF ListInv, Lists, TasksHonest
  <2> QED  BY <2>1, <2>2, <2>3
<1>3. TasksHonest'  BY <1>2 DEF TasksHonest
<1>4. ASSUME NEW u \in Slot, task'[u].pc = "copying"
      PROVE  task'[u].conn \in Slot /\ Serves(task'[task'[u].conn], task'[u])
  <2>1. /\ task'[u] = task[u] /\ task[u].conn \in Slot \ {s}
        /\ Serves(task[task[u].conn], task[u])
    BY <1>2, <1>4 DEF ListInv, Lists, Linked
  <2>2. task'[task[u].conn] = task[task[u].conn]
    BY <2>1 DEF Serves, HangUp
  <2> QED  BY <2>1, <2>2
<1>5. Linked'  BY <1>4 DEF Linked
<1>6. AttrsHonest' /\ MsgsHonest'
  BY DEF ListInv, Lists, AttrsHonest, MsgsHonest
<1> QED  BY <1>3, <1>5, <1>6 DEF Lists

\* The copier of a connection goes on with the same block.
LEMMA LoadKeeps ==
  ASSUME ListInv, NEW s \in Slot, Load(s)
  PROVE  Lists'
<1> DEFINE t == [task[s] EXCEPT
                   !.pc = IF task[s].op = "get" THEN "done" ELSE "save",
                   !.data = disk[task[s].peer][task[s].block]]
<1>1. /\ Step(s, t) /\ task[s].pc = "load" /\ UNCHANGED <<disk, attr, msgs, deleted>>
      /\ disk[task[s].peer][task[s].block] # 0
  BY DEF Load, Readable
<1>2. /\ task[s] \in Task /\ HonestList(task[s].machine, task[s].block, disk, deleted)
      /\ task \in [Slot -> Task]
  BY <1>1, HandlerFacts DEF ListInv, TypeOK, TasksOK
<1>3. /\ t.pc = IF task[s].op = "get" THEN "done" ELSE "save"
      /\ t.data # 0 /\ t.machine = task[s].machine /\ t.block = task[s].block
      /\ t.op = task[s].op /\ t.node = task[s].node
  BY <1>1, <1>2 DEF Task
<1> HIDE DEF t
<1>4. Honest(t, disk, deleted)  BY <1>2, <1>3 DEF Honest
<1>5. TasksHonest'  BY <1>1, <1>2, <1>4, StepHonest DEF ListInv, Lists
<1>6. ASSUME NEW u \in Slot, task'[u].pc = "copying"
      PROVE  task'[u].conn \in Slot /\ Serves(task'[task'[u].conn], task'[u])
  <2>1. u # s /\ task'[u] = task[u]  BY <1>1, <1>2, <1>3, <1>6 DEF Step
  <2>2. task[u].conn \in Slot /\ Serves(task[task[u].conn], task[u])
    BY <1>6, <2>1 DEF ListInv, Lists, Linked
  <2>3. CASE task[u].conn = s
    <3>1. task'[s] = t  BY <1>1, <1>2 DEF Step
    <3> QED  BY <1>3, <2>1, <2>2, <2>3, <3>1 DEF Serves
  <2>4. CASE task[u].conn # s
    <3>1. task'[task[u].conn] = task[task[u].conn]  BY <1>1, <2>2, <2>4 DEF Step
    <3> QED  BY <2>1, <2>2, <3>1
  <2> QED  BY <2>3, <2>4
<1>7. Linked'  BY <1>6 DEF Linked
<1>8. AttrsHonest' /\ MsgsHonest'
  BY <1>1 DEF ListInv, Lists, AttrsHonest, MsgsHonest
<1> QED  BY <1>5, <1>7, <1>8 DEF Lists

\* What is not deleted is not erased.
LEMMA RemoveKeeps ==
  ASSUME ListInv, NEW n \in Node, NEW id \in BlockID, id \in deleted,
         Remove(n, id), UNCHANGED deleted
  PROVE  Grows(disk, deleted, disk', deleted')
BY DEF Grows, Remove, ListInv, TypeOK, MemoryOK

LEMMA ListUse ==
  ASSUME ListInv, TypeOK', NEW s \in Slot,
         \/ Load(s) \/ LoadFails(s) \/ Deliver(s) \/ DetailLost(s) \/ UseDelete(s)
         \/ UseDoDelete(s) \/ EraseLocal(s) \/ UseReplica(s) \/ Pick(s)
  PROVE  Lists'
<1> DEFINE n == task[s].node
           id == task[s].block
<1>a. task[s].pc \in {"load", "done", "use", "erase", "pick"}
  BY DEF Load, LoadFails, Deliver, DetailLost, UseDelete, UseDoDelete, EraseLocal,
         UseReplica, Pick
<1>b. /\ task[s] \in Task /\ Ready(task[s]) /\ n \in Node /\ id \in BlockID
      /\ Honest(task[s], disk, deleted)
      /\ HonestList(task[s].machine, id, disk, deleted)
      /\ task \in [Slot -> Task]
  BY <1>a, HandlerFacts DEF ListInv, TypeOK, TasksOK
<1>c. Honest(Idle, disk, deleted) /\ Idle.pc = "idle"
  BY IdleHonest DEF Idle, NewTask
<1>d. ASSUME NEW pc, pc \notin {"acked", "save", "erase", "copying"}
      PROVE  Honest([task[s] EXCEPT !.pc = pc], disk, deleted)
             /\ [task[s] EXCEPT !.pc = pc].pc = pc
  BY <1>b, <1>d DEF Task, Honest
<1>e. Detail(s) # 0 =>
        /\ DetailRef(s) \in Ref /\ DetailRef(s)[2] = id
        /\ attr[DetailRef(s)].machine \in SUBSET Node
        /\ HonestList(attr[DetailRef(s)].machine, id, disk, deleted)
  <2>1. Detail(s) \in 0..Gen  BY <1>b DEF Detail, ListInv, TypeOK, MemoryOK
  <2>2. DetailRef(s)[2] = id  BY DEF DetailRef
  <2> QED  BY <1>b, <2>1, <2>2, RefHonest DEF DetailRef
<1>f. Honest(Returned(s), disk, deleted) /\ Returned(s).pc # "copying"
  BY IdleHonest, NewHonest, EmptyHonest DEF Returned, TaskPC, NewTask, Idle
<1>1. CASE Load(s)  BY <1>1, LoadKeeps
<1>2. CASE LoadFails(s)
  <2>1. UNCHANGED <<disk, attr, msgs, deleted>>  BY <1>2 DEF LoadFails
  <2>2. CASE task[s].op = "get" /\ Step(s, [task[s] EXCEPT !.pc = "done"])
    BY <1>d, <2>1, <2>2, MoveKeeps
  <2>3. CASE HangUp(s)  BY <2>1, <2>3, HangUpKeeps
  <2> QED  BY <1>2, <2>2, <2>3 DEF LoadFails
<1>3. CASE Deliver(s)
  BY <1>3, <1>c, MoveKeeps DEF Deliver
<1>4. CASE DetailLost(s)
  <2>1. Step(s, [task[s] EXCEPT !.pc = "ub"]) /\ task[s].pc = "use"
        /\ UNCHANGED <<disk, attr, msgs, deleted>>
    BY <1>4 DEF DetailLost
  <2> QED  BY <1>d, <2>1, MoveKeeps
<1>5. CASE UseDelete(s)
  <2>1. LET t == NewTask("ask", "dodelete", n, id, {})
        IN  Honest(t, disk, deleted) /\ t.pc # "copying"
    BY NewHonest, EmptyHonest DEF NewTask, TaskPC
  <2>2. PICK t : Step(s, t) /\ Honest(t, disk, deleted) /\ t.pc # "copying"
    BY <1>5, <1>c, <2>1 DEF UseDelete
  <2>3. task[s].pc = "use" /\ UNCHANGED <<disk, attr, deleted>>
    BY <1>5 DEF UseDelete
  <2>4. MsgsHonest'
    <3>1. CASE UNCHANGED msgs  BY <2>3, <3>1 DEF ListInv, Lists, MsgsHonest
    <3>2. CASE Send(n, {First(attr[DetailRef(s)].machine)}, "DoDelete", id, {})
      <4>1. "DoDelete" \in MsgType /\ {} \in SUBSET Node  BY DEF MsgType
      <4> HIDE DEF n, id
      <4> QED  BY <1>b, <2>3, <3>2, <4>1, EmptyHonest, SendHonest DEF ListInv, Lists
    <3> QED  BY <1>5, <3>1, <3>2 DEF UseDelete
  <2> QED  BY <2>2, <2>3, <2>4, SendKeeps
<1>6. CASE UseDoDelete(s)
  <2>1. /\ attr' = [attr EXCEPT ![DetailRef(s)].state = "Deleting"]
        /\ deleted' = deleted \cup {id} /\ disk' = disk /\ Detail(s) # 0
        /\ Send(n, route[n], "DeleteBlock", id, {})
        /\ Step(s, Asking(s, "erase")) /\ task[s].pc = "use"
    BY <1>6 DEF UseDoDelete
  <2>2. Grows(disk, deleted, disk', deleted')  BY <2>1 DEF Grows
  <2>3. /\ \A r \in Ref : HonestList(attr[r].machine, r[2], disk', deleted')
        /\ \A u \in Slot : Honest(task[u], disk', deleted')
    BY <2>2, AllKept DEF ListInv, Lists
  <2>4. AttrsHonest'
    <3>1. ASSUME NEW r \in Ref  PROVE attr'[r].machine = attr[r].machine
      BY <2>1 DEF ListInv, TypeOK, MemoryOK, Attr
    <3> QED  BY <2>3, <3>1 DEF AttrsHonest
  <2>5. MsgsHonest'
    <3>1. "DeleteBlock" \in MsgType /\ {} \in SUBSET Node /\ id \in deleted'
      BY <2>1 DEF MsgType
    <3> HIDE DEF n, id
    <3> QED  BY <1>b, <2>1, <3>1, EmptyHonest, SendHonest DEF ListInv, Lists
  <2>6. /\ Asking(s, "erase").pc = "erase" /\ Asking(s, "erase").block = id
        /\ Asking(s, "erase").machine = task[s].machine
    BY DEF Asking, NewTask
  <2>7. Honest(Asking(s, "erase"), disk', deleted')
    BY <1>b, <2>1, <2>6 DEF Honest, HonestList
  <2>8. TasksHonest'  BY <1>b, <2>1, <2>3, <2>7 DEF TasksHonest, Step
  <2>9. Linked'  BY <1>b, <2>1, <2>6, StepLinked DEF ListInv, Lists
  <2> QED  BY <2>4, <2>5, <2>8, <2>9 DEF Lists
<1>7. CASE EraseLocal(s)
  <2>1. id \in deleted  BY <1>7, <1>b DEF EraseLocal, Honest
  <2>2. Remove(n, id) /\ Step(s, Idle) /\ UNCHANGED <<attr, msgs, deleted>>
        /\ task[s].pc = "erase"
    BY <1>7 DEF EraseLocal
  <2> HIDE DEF n, id
  <2>3. Grows(disk, deleted, disk', deleted')  BY <1>b, <2>1, <2>2, RemoveKeeps
  <2>4. /\ \A r \in Ref : HonestList(attr[r].machine, r[2], disk', deleted')
        /\ \A m \in msgs : /\ HonestList(m.machine, m.block, disk', deleted')
                           /\ m.type = "DeleteBlock" => m.block \in deleted'
        /\ \A u \in Slot : Honest(task[u], disk', deleted')
    BY <2>3, AllKept DEF ListInv, Lists
  <2>5. Honest(Idle, disk', deleted')  BY IdleHonest
  <2>6. TasksHonest'  BY <1>b, <2>2, <2>4, <2>5 DEF TasksHonest, Step
  <2>7. Linked'  BY <1>b, <1>c, <2>2, StepLinked DEF ListInv, Lists
  <2> QED  BY <2>2, <2>4, <2>6, <2>7 DEF Lists, AttrsHonest, MsgsHonest
<1>8. CASE UseReplica(s)
  <2>1. task[s].pc = "use" /\ Detail(s) # 0 /\ UNCHANGED <<disk, msgs, deleted>>
    BY <1>8 DEF UseReplica
  <2>2. CASE Step(s, Returned(s)) /\ UNCHANGED attr
    BY <1>f, <2>1, <2>2, MoveKeeps
  <2>3. CASE /\ attr' = [attr EXCEPT ![DetailRef(s)].machine = AddAll({}, task[s].machine)]
             /\ Step(s, [task[s] EXCEPT !.pc = "pick", !.machine = {}, !.ref = Detail(s)])
    <3> DEFINE t == [task[s] EXCEPT !.pc = "pick", !.machine = {}, !.ref = Detail(s)]
               S == AddAll({}, task[s].machine)
               r == DetailRef(s)
    <3>1. t.pc = "pick" /\ t.machine = {}  BY <1>b DEF Task
    <3>2. S \subseteq task[s].machine  BY AddAllSubset
    <3>3. HonestList(S, r[2], disk, deleted) /\ r \in Ref
      BY <1>b, <1>e, <2>1, <3>2 DEF HonestList
    <3>4. Step(s, t) /\ attr' = [attr EXCEPT ![r].machine = S]  BY <2>3
    <3> HIDE DEF t, S, r
    <3>5. Honest(t, disk, deleted)  BY <3>1 DEF Honest, HonestList
    <3> QED  BY <2>1, <3>1, <3>3, <3>4, <3>5, WriteKeeps
  <2> QED  BY <1>8, <2>2, <2>3 DEF UseReplica
<1>9. CASE Pick(s)
  <2>1. PICK C : Step(s, [task[s] EXCEPT !.pc = "next", !.machine = C])
    BY <1>9 DEF Pick
  <2> DEFINE t == [task[s] EXCEPT !.pc = "next", !.machine = C]
  <2>2. t.pc = "next"  BY <1>b DEF Task
  <2>3. Step(s, t) /\ task[s].pc = "pick" /\ UNCHANGED <<disk, attr, msgs, deleted>>
    BY <1>9, <2>1 DEF Pick
  <2> HIDE DEF t
  <2>4. Honest(t, disk, deleted)  BY <2>2 DEF Honest
  <2> QED  BY <2>2, <2>3, <2>4, MoveKeeps
<1> QED  BY <1>1, <1>2, <1>3, <1>4, <1>5, <1>6, <1>7, <1>8, <1>9

LEMMA ListReplicate ==
  ASSUME ListInv, TypeOK', NEW s \in Slot,
         \/ SendCopy(s) \/ CopyRefused(s) \/ SaveCopy(s) \/ SaveCopyFails(s)
         \/ ReplicaAck(s) \/ ReplicaDone(s)
  PROVE  Lists'
<1> DEFINE n == task[s].node
           id == task[s].block
<1>a. task[s].pc \in {"next", "save", "acked"}
  BY DEF SendCopy, CopyRefused, SaveCopy, SaveCopyFails, ReplicaAck, ReplicaDone
<1>b. /\ task[s] \in Task /\ Ready(task[s]) /\ n \in Node /\ id \in BlockID
      /\ Honest(task[s], disk, deleted) /\ task \in [Slot -> Task]
  BY <1>a, HandlerFacts DEF ListInv, TypeOK, TasksOK
<1>c. task[s].ref # 0 =>
        /\ <<n, id, task[s].ref>> \in Ref
        /\ Held(s) \in SUBSET Node /\ HonestList(Held(s), id, disk, deleted)
  BY <1>b, RefHonest DEF Held, Task
<1>1. CASE SendCopy(s)
  <2>1. PICK m \in task[s].machine, c \in Slot :
          /\ task[c].pc = "idle"
          /\ task' = [task EXCEPT
               ![s] = [task[s] EXCEPT !.pc = "copying", !.peer = m, !.conn = c,
                         !.machine = task[s].machine \ {m}],
               ![c] = [NewTask("load", "copy", m, id, {}) EXCEPT !.peer = n]]
    BY <1>1 DEF SendCopy
  <2> DEFINE t == [task[s] EXCEPT !.pc = "copying", !.peer = m, !.conn = c,
                                  !.machine = task[s].machine \ {m}]
             u == [NewTask("load", "copy", m, id, {}) EXCEPT !.peer = n]
  <2>2. /\ t.pc = "copying" /\ t.peer = m /\ t.conn = c /\ t.block = id
    BY <1>b DEF Task
  <2>3. /\ u.pc = "load" /\ u.op = "copy" /\ u.node = m /\ u.block = id /\ u.machine = {}
    BY DEF NewTask
  <2>4. s # c /\ task' = [task EXCEPT ![s] = t, ![c] = u]  BY <1>a, <2>1
  <2> HIDE DEF t, u
  <2>5. Honest(t, disk, deleted)  BY <2>2 DEF Honest
  <2>6. Honest(u, disk, deleted)  BY <2>3 DEF Honest, HonestList
  <2>7. task'[s] = t /\ task'[c] = u
        /\ \A v \in Slot \ {s, c} : task'[v] = task[v]
    BY <1>b, <2>4
  <2>8. UNCHANGED <<disk, attr, msgs, deleted>>  BY <1>1 DEF SendCopy
  <2>9. TasksHonest'
    BY <2>5, <2>6, <2>7, <2>8 DEF ListInv, Lists, TasksHonest
  <2>10. ASSUME NEW v \in Slot, task'[v].pc = "copying"
         PROVE  task'[v].conn \in Slot /\ Serves(task'[task'[v].conn], task'[v])
    <3>1. CASE v = s  BY <2>2, <2>3, <2>7, <3>1 DEF Serves
    <3>2. CASE v # s
      <4>1. v # c  BY <2>3, <2>7, <2>10
      <4>2. task'[v] = task[v]  BY <2>7, <3>2, <4>1
      <4>3. task[v].conn \in Slot /\ Serves(task[task[v].conn], task[v])
        BY <2>10, <4>2 DEF ListInv, Lists, Linked
      <4>4. task[v].conn # s /\ task[v].conn # c
        BY <1>1, <2>1, <4>3 DEF Serves, SendCopy
      <4>5. task'[task[v].conn] = task[task[v].conn]  BY <2>7, <4>3, <4>4
      <4> QED  BY <4>2, <4>3, <4>5
    <3> QED  BY <3>1, <3>2
  <2>11. Linked'  BY <2>10 DEF Linked
  <2> QED
    BY <2>8, <2>9, <2>11 DEF ListInv, Lists, AttrsHonest, MsgsHonest
<1>2. CASE CopyRefused(s)
  <2>1. PICK m : Step(s, [task[s] EXCEPT !.machine = task[s].machine \ {m}])
    BY <1>2 DEF CopyRefused
  <2> DEFINE t == [task[s] EXCEPT !.machine = task[s].machine \ {m}]
  <2>2. t.pc = "next"  BY <1>b, <1>2 DEF Task, CopyRefused
  <2>3. Step(s, t) /\ task[s].pc = "next" /\ UNCHANGED <<disk, attr, msgs, deleted>>
    BY <1>2, <2>1 DEF CopyRefused
  <2> HIDE DEF t
  <2>4. Honest(t, disk, deleted)  BY <2>2 DEF Honest
  <2> QED  BY <2>2, <2>3, <2>4, MoveKeeps
<1>3. CASE SaveCopy(s)
  <2>1. /\ task[s].pc = "save" /\ disk' = [disk EXCEPT ![n][id] = task[s].data]
        /\ AddLocal(n, id) /\ UNCHANGED <<msgs, deleted>>
    BY <1>3 DEF SaveCopy
  <2>2. task[s].data # 0  BY <1>b, <2>1 DEF Honest
  <2>3. disk'[n][id] # 0 /\ Grows(disk, deleted, disk', deleted')
    BY <1>b, <2>1, <2>2 DEF Grows, ListInv, TypeOK, MemoryOK
  <2>4. /\ \A r \in Ref : HonestList(attr[r].machine, r[2], disk', deleted')
        /\ \A m \in msgs : /\ HonestList(m.machine, m.block, disk', deleted')
                           /\ m.type = "DeleteBlock" => m.block \in deleted'
        /\ \A u \in Slot : Honest(task[u], disk', deleted')
    BY <2>3, AllKept DEF ListInv, Lists
  <2>5. AttrsHonest'
    <3> HIDE DEF n, id
    <3> QED  BY <1>b, <2>1, <2>3, <2>4, AddLocalHonest DEF ListInv
  <2>6. MsgsHonest'  BY <2>1, <2>4 DEF MsgsHonest
  <2>7. ASSUME NEW u \in Slot
        PROVE  /\ Honest(task'[u], disk', deleted')
               /\ task'[u].pc = "copying" =>
                    u # s /\ task'[u] = task[u] /\ task[u].conn # s
    <3>1. CASE u = s
      <4>1. task'[u] = Idle /\ Idle.pc = "idle"
        BY <1>3, <3>1 DEF SaveCopy, Idle, NewTask
      <4> QED  BY <4>1, IdleHonest
    <3>2. CASE u # s /\ task[u].pc = "copying" /\ task[u].conn = s
      <4>1. task'[u] = [task[u] EXCEPT !.pc = "acked", !.conn = NoSlot]
        BY <1>3, <3>2 DEF SaveCopy
      <4>2. /\ task'[u].pc = "acked" /\ task'[u].peer = task[u].peer
            /\ task'[u].block = task[u].block
        BY <1>b, <4>1 DEF Task
      <4>3. task[u].peer = n /\ task[u].block = id
        BY <3>2 DEF ListInv, Lists, Linked, Serves
      <4> QED  BY <2>3, <4>2, <4>3 DEF Honest, HonestList
    <3>3. CASE u # s /\ ~(task[u].pc = "copying" /\ task[u].conn = s)
      <4>1. task'[u] = task[u]  BY <1>3, <3>3 DEF SaveCopy
      <4> QED  BY <2>4, <3>3, <4>1
    <3> QED  BY <3>1, <3>2, <3>3
  <2>8. TasksHonest'  BY <2>7 DEF TasksHonest
  <2>9. ASSUME NEW u \in Slot, task'[u].pc = "copying"
        PROVE  task'[u].conn \in Slot /\ Serves(task'[task'[u].conn], task'[u])
    <3>1. /\ task'[u] = task[u] /\ task[u].conn \in Slot \ {s}
          /\ Serves(task[task[u].conn], task[u])
      BY <2>7, <2>9 DEF ListInv, Lists, Linked
    <3>2. task'[task[u].conn] = task[task[u].conn]
      BY <1>3, <3>1 DEF Serves, SaveCopy
    <3> QED  BY <3>1, <3>2
  <2>10. Linked'  BY <2>9 DEF Linked
  <2> QED  BY <2>5, <2>6, <2>8, <2>10 DEF Lists
<1>4. CASE SaveCopyFails(s)
  BY <1>4, HangUpKeeps DEF SaveCopyFails
<1>5. CASE ReplicaAck(s)
  <2> DEFINE r == <<n, id, task[s].ref>>
             S == AddAll(Held(s), {task[s].peer})
             t == [task[s] EXCEPT !.pc = "next", !.peer = 0]
  <2>1. /\ task[s].pc = "acked" /\ UNCHANGED <<disk, msgs, deleted>>
        /\ attr' = [attr EXCEPT ![r].machine = S] /\ Step(s, t)
    BY <1>5 DEF ReplicaAck
  <2>2. task[s].ref # 0 /\ HonestList({task[s].peer}, id, disk, deleted)
    BY <1>b, <2>1 DEF Ready, Honest
  <2>3. S \subseteq Held(s) \cup {task[s].peer}  BY AddAllSubset
  <2>4. r \in Ref /\ HonestList(S, r[2], disk, deleted)
    BY <1>c, <2>2, <2>3 DEF HonestList
  <2>5. t.pc = "next"  BY <1>b DEF Task
  <2> HIDE DEF r, S, t
  <2>6. Honest(t, disk, deleted)  BY <2>5 DEF Honest
  <2> QED  BY <2>1, <2>4, <2>5, <2>6, WriteKeeps
<1>6. CASE ReplicaDone(s)
  <2>1. /\ Step(s, Returned(s)) /\ task[s].pc = "next" /\ UNCHANGED <<disk, attr, deleted>>
        /\ Send(n, route[n], "UpdateReplica", id, Held(s))
    BY <1>6 DEF ReplicaDone
  <2>2. Honest(Returned(s), disk, deleted) /\ Returned(s).pc # "copying"
    BY IdleHonest, NewHonest, EmptyHonest DEF Returned, TaskPC, NewTask, Idle
  <2>3. task[s].ref # 0 /\ "UpdateReplica" \in MsgType
    BY <1>b, <2>1 DEF Ready, MsgType
  <2>4. MsgsHonest'
    <3> HIDE DEF n, id
    <3> QED  BY <1>b, <1>c, <2>1, <2>3, SendHonest DEF ListInv, Lists
  <2> QED  BY <2>1, <2>2, <2>4, SendKeeps
<1> QED  BY <1>1, <1>2, <1>3, <1>4, <1>5, <1>6

LEMMA ListHandle ==
  ASSUME ListInv, TypeOK', Handle
  PROVE  Lists'
<1>0. ASSUME NEW m \in msgs
      PROVE  /\ m.src \in Node /\ m.dst \in Node /\ m.block \in BlockID
             /\ m.machine \in SUBSET Node
             /\ HonestList(m.machine, m.block, disk, deleted)
             /\ m.type = "DeleteBlock" => m.block \in deleted
  BY DEF ListInv, TypeOK, MemoryOK, Msg, Lists, MsgsHonest
<1>1. ASSUME NEW m \in msgs, HandleRequestBlockLocation(m)  PROVE Lists'
  <2> DEFINE g == local[m.dst][m.block]
             L == attr[<<m.dst, m.block, g>>].machine
  <2>1. g # 0 => HonestList(L, m.block, disk, deleted)
    <3>1. g \in 0..Gen  BY <1>0 DEF ListInv, TypeOK, MemoryOK
    <3> HIDE DEF g
    <3> QED  BY <1>0, <3>1, RefHonest
  <2>2. ASSUME NEW k \in msgs'
        PROVE  /\ HonestList(k.machine, k.block, disk, deleted)
               /\ k.type = "DeleteBlock" => k.block \in deleted
    <3>1. CASE k \in msgs  BY <1>0, <3>1
    <3>2. CASE k \notin msgs
      <4>1. g # 0 /\ k.machine = L /\ k.block = m.block
            /\ k.type = "RequestBlockLocationACK"
        BY <1>1, <3>2 DEF HandleRequestBlockLocation, Sent
      <4> QED  BY <2>1, <4>1
    <3> QED  BY <3>1, <3>2
  <2> QED
    BY <1>1, <2>2
    DEF HandleRequestBlockLocation, ListInv, Lists, AttrsHonest, MsgsHonest,
        TasksHonest, Linked
<1>2. ASSUME NEW m \in msgs, HandleRequestBlockLocationACK(m)  PROVE Lists'
  <2> DEFINE n == m.dst
             id == m.block
             g == remote[n][id]
  <2>1. UNCHANGED <<disk, task, deleted>> /\ msgs' \subseteq msgs
    BY <1>2 DEF HandleRequestBlockLocationACK
  <2>2. ASSUME NEW r \in Ref  PROVE HonestList(attr'[r].machine, r[2], disk, deleted)
    <3>1. HonestList(attr[r].machine, r[2], disk, deleted)
      BY DEF ListInv, Lists, AttrsHonest
    <3>2. CASE attr'[r].machine \subseteq attr[r].machine \cup m.machine /\ r[2] = id
      BY <1>0, <3>1, <3>2 DEF HonestList
    <3>3. CASE attr'[r] = attr[r]  BY <3>1, <3>3
    <3>4. CASE g # 0
      <4>1. attr' = [attr EXCEPT ![<<n, id, g>>].machine =
                       AddAll(attr[<<n, id, g>>].machine, m.machine)]
        BY <1>2, <3>4 DEF HandleRequestBlockLocationACK
      <4>2. CASE r = <<n, id, g>>
        <5>1. attr'[r].machine = AddAll(attr[r].machine, m.machine) /\ r[2] = id
          BY <4>1, <4>2 DEF ListInv, TypeOK, MemoryOK, Attr
        <5> QED  BY <3>2, <5>1, AddAllSubset
      <4>3. CASE r # <<n, id, g>>
        BY <3>3, <4>1, <4>3 DEF ListInv, TypeOK, MemoryOK
      <4> QED  BY <4>2, <4>3
    <3>5. CASE g = 0
      <4>1. PICK h : attr' = [attr EXCEPT ![<<n, id, h>>] =
                                [NoAttr EXCEPT !.machine = AddAll({}, m.machine)]]
        BY <1>2, <3>5 DEF HandleRequestBlockLocationACK
      <4>2. CASE r = <<n, id, h>>
        <5>1. attr'[r].machine = AddAll({}, m.machine) /\ r[2] = id
          BY <4>1, <4>2 DEF ListInv, TypeOK, MemoryOK, NoAttr
        <5>2. AddAll({}, m.machine) \subseteq m.machine  BY AddAllSubset
        <5> QED  BY <3>2, <5>1, <5>2
      <4>3. CASE r # <<n, id, h>>
        BY <3>3, <4>1, <4>3 DEF ListInv, TypeOK, MemoryOK
      <4> QED  BY <4>2, <4>3
    <3> QED  BY <3>4, <3>5
  <2> QED
    BY <2>1, <2>2 DEF ListInv, Lists, AttrsHonest, MsgsHonest, TasksHonest, Linked
<1>3. ASSUME NEW m \in msgs, HandleUpdateReplica(m)  PROVE Lists'
  <2>1. UNCHANGED <<disk, task, deleted>> /\ msgs' \subseteq msgs
    BY <1>3 DEF HandleUpdateReplica
  <2>2. ASSUME NEW r \in Ref  PROVE HonestList(attr'[r].machine, r[2], disk, deleted)
    <3>1. HonestList(attr[r].machine, r[2], disk, deleted)
      BY DEF ListInv, Lists, AttrsHonest
    <3>2. \/ attr'[r] = attr[r]
          \/ attr'[r] = [attr[r] EXCEPT !.machine = m.machine] /\ r[2] = m.block
      BY <1>3 DEF HandleUpdateReplica
    <3>3. attr[r] \in Attr  BY DEF ListInv, TypeOK, MemoryOK
    <3>4. [attr[r] EXCEPT !.machine = m.machine].machine = m.machine
      BY <3>3 DEF Attr
    <3> QED  BY <1>0, <3>1, <3>2, <3>4
  <2> QED
    BY <2>1, <2>2 DEF ListInv, Lists, AttrsHonest, MsgsHonest, TasksHonest, Linked
<1>4. ASSUME NEW m \in msgs, HandleDeleteBlock(m)  PROVE Lists'
  <2>1. /\ Remove(m.dst, m.block) /\ msgs' \subseteq msgs
        /\ UNCHANGED <<attr, task, deleted>> /\ m.type = "DeleteBlock"
    BY <1>4 DEF HandleDeleteBlock, Receive
  <2>2. Grows(disk, deleted, disk', deleted')
    BY <1>0, <2>1, RemoveKeeps
  <2>3. /\ \A r \in Ref : HonestList(attr[r].machine, r[2], disk', deleted')
        /\ \A k \in msgs : /\ HonestList(k.machine, k.block, disk', deleted')
                           /\ k.type = "DeleteBlock" => k.block \in deleted'
        /\ \A u \in Slot : Honest(task[u], disk', deleted')
    BY <2>2, AllKept DEF ListInv, Lists
  <2> QED
    BY <2>1, <2>3 DEF ListInv, Lists, AttrsHonest, MsgsHonest, TasksHonest, Linked
<1>5. ASSUME NEW m \in msgs, NEW s \in Slot, HandleDoReplica(s, m) \/ HandleDoDelete(s, m)
      PROVE  Lists'
  <2>1. UNCHANGED <<disk, attr, deleted>> /\ msgs' \subseteq msgs /\ task[s].pc = "idle"
    BY <1>5 DEF HandleDoReplica, HandleDoDelete, Begin
  <2>2. PICK op, S : /\ Step(s, NewTask("ask", op, m.dst, m.block, S))
                     /\ HonestList(S, m.block, disk, deleted)
    BY <1>0, <1>5, EmptyHonest DEF HandleDoReplica, HandleDoDelete, Begin
  <2>3. Honest(NewTask("ask", op, m.dst, m.block, S), disk, deleted)
    BY <2>2, NewHonest DEF TaskPC
  <2>4. NewTask("ask", op, m.dst, m.block, S).pc = "ask"  BY DEF NewTask
  <2>5. MsgsHonest'  BY <2>1 DEF ListInv, Lists, MsgsHonest
  <2> QED  BY <2>1, <2>2, <2>3, <2>4, <2>5, SendKeeps
<1> QED  BY <1>1, <1>2, <1>3, <1>4, <1>5 DEF Handle

LEMMA ListEnvironment ==
  ASSUME ListInv, TypeOK', Environment
  PROVE  Lists'
<1>1. ASSUME NEW n \in Node, Crash(n)  PROVE Lists'
  <2>1. PICK T \in SUBSET Writing(n) :
          disk' = [disk EXCEPT ![n] =
                     [id \in BlockID |-> IF id \in T THEN Torn ELSE @[id]]]
    BY <1>1 DEF Crash
  <2>2. Grows(disk, deleted, disk', deleted')
    <3>1. deleted' = deleted  BY <1>1 DEF Crash
    <3>2. disk \in [Node -> [BlockID -> Content]]  BY DEF ListInv, TypeOK, MemoryOK
    <3>3. ASSUME NEW k \in Node, NEW id \in BlockID, disk[k][id] # 0
          PROVE  disk'[k][id] # 0
      <4>1. CASE k = n /\ id \in T
        <5>1. disk'[k][id] = Torn  BY <2>1, <3>2, <4>1
        <5> QED  BY <5>1 DEF Torn
      <4>2. CASE ~(k = n /\ id \in T)
        <5>1. disk'[k][id] = disk[k][id]  BY <2>1, <3>2, <4>2
        <5> QED  BY <3>3, <5>1
      <4> QED  BY <4>1, <4>2
    <3> QED  BY <3>1, <3>3 DEF Grows
  <2>3. /\ \A r \in Ref : HonestList(attr[r].machine, r[2], disk', deleted')
        /\ \A k \in msgs : /\ HonestList(k.machine, k.block, disk', deleted')
                           /\ k.type = "DeleteBlock" => k.block \in deleted'
        /\ \A u \in Slot : Honest(task[u], disk', deleted')
    BY <2>2, AllKept DEF ListInv, Lists
  <2>4. AttrsHonest'
    BY <1>1, <2>3, EmptyHonest DEF Crash, AttrsHonest, NoAttr
  <2>5. MsgsHonest'  BY <1>1, <2>3 DEF Crash, MsgsHonest
  <2>6. ASSUME NEW u \in Slot
        PROVE  /\ Honest(task'[u], disk', deleted')
               /\ task'[u].pc = "copying" =>
                    task'[u] = task[u] /\ task[task[u].conn].node # n
    <3>1. CASE task[u].node = n
      <4>1. task'[u] = Idle /\ Idle.pc = "idle"
        BY <1>1, <3>1 DEF Crash, Idle, NewTask
      <4> QED  BY <4>1, IdleHonest
    <3>2. CASE task[u].node # n /\ task[u].pc = "copying" /\ task[task[u].conn].node = n
      <4>1. task'[u] = [task[u] EXCEPT !.pc = "next", !.conn = NoSlot]
        BY <1>1, <3>2 DEF Crash
      <4>2. task'[u].pc = "next"
        BY <4>1 DEF ListInv, TypeOK, TasksOK, Task
      <4> QED  BY <4>2 DEF Honest
    <3>3. CASE task[u].node # n
               /\ ~(task[u].pc = "copying" /\ task[task[u].conn].node = n)
      <4>1. task'[u] = task[u]  BY <1>1, <3>3 DEF Crash
      <4> QED  BY <2>3, <3>3, <4>1
    <3> QED  BY <3>1, <3>2, <3>3
  <2>7. TasksHonest'  BY <2>6 DEF TasksHonest
  <2>8. ASSUME NEW u \in Slot, task'[u].pc = "copying"
        PROVE  task'[u].conn \in Slot /\ Serves(task'[task'[u].conn], task'[u])
    <3>1. /\ task'[u] = task[u] /\ task[u].conn \in Slot
          /\ task[task[u].conn].node # n /\ Serves(task[task[u].conn], task[u])
      BY <2>6, <2>8 DEF ListInv, Lists, Linked
    <3>2. task'[task[u].conn] = task[task[u].conn]
      BY <1>1, <3>1 DEF Serves, Crash
    <3> QED  BY <3>1, <3>2
  <2>9. Linked'  BY <2>8 DEF Linked
  <2> QED  BY <2>4, <2>5, <2>7, <2>9 DEF Lists
<1>2. ASSUME NEW n \in Node, Restart(n)  PROVE Lists'
  <2>1. UNCHANGED <<disk, msgs, task, deleted>>  BY <1>2 DEF Restart
  <2>2. ASSUME NEW r \in Ref  PROVE HonestList(attr'[r].machine, r[2], disk, deleted)
    <3>1. CASE r[1] = n /\ r[3] = 1 /\ disk[n][r[2]] # 0
      <4>1. attr'[r].machine = {n}  BY <1>2, <3>1 DEF Restart, NewAttr
      <4> QED  BY <3>1, <4>1 DEF HonestList
    <3>2. CASE ~(r[1] = n /\ r[3] = 1 /\ disk[n][r[2]] # 0)
      <4>1. attr'[r] = attr[r]  BY <1>2, <3>2 DEF Restart
      <4> QED  BY <4>1 DEF ListInv, Lists, AttrsHonest
    <3> QED  BY <3>1, <3>2
  <2> QED
    BY <2>1, <2>2 DEF ListInv, Lists, AttrsHonest, MsgsHonest, TasksHonest, Linked
<1>3. ASSUME NEW n \in Node, LoseRoute(n)  PROVE Lists'
  BY <1>3 DEF LoseRoute, ListInv, Lists, AttrsHonest, MsgsHonest, TasksHonest, Linked
<1> QED  BY <1>1, <1>2, <1>3 DEF Environment

LEMMA ListStep ==
  ASSUME ListInv, [Next]_vars
  PROVE  ListInv'
<1>0. TypeOK'  BY TypeStep DEF ListInv
<1>1. CASE UNCHANGED vars
  BY <1>0, <1>1
  DEF vars, ListInv, Lists, AttrsHonest, MsgsHonest, TasksHonest, Linked
<1>2. CASE Operation  BY <1>0, <1>2, ListOperation DEF ListInv
<1>3. CASE \E s \in Slot : TaskStep(s)
  BY <1>0, <1>3, ListAsk, ListUse, ListReplicate DEF TaskStep, ListInv
<1>4. CASE Handle  BY <1>0, <1>4, ListHandle DEF ListInv
<1>5. CASE Environment  BY <1>0, <1>5, ListEnvironment DEF ListInv
<1> QED  BY <1>1, <1>2, <1>3, <1>4, <1>5 DEF Next

LEMMA ListCorrect == Spec => []ListInv
BY ListInit, ListStep, PTL DEF Spec

\* In every cluster, for every number of machines, replicas, handlers and
\* faults, a machine that is listed for a block that was not deleted holds it.
THEOREM ListingsCorrect == Spec => []ListingsTruthful
<1>1. ListInv => ListingsTruthful
  <2> SUFFICES ASSUME ListInv PROVE ListingsTruthful
    OBVIOUS
  <2>1. ASSUME NEW n \in Node, NEW id \in BlockID, NEW g \in 1..Gen, id \notin deleted
        PROVE  \A m \in attr[<<n, id, g>>].machine : Holds(m, id)
    <3>1. HonestList(attr[<<n, id, g>>].machine, id, disk, deleted)
      BY RefHonest, BoundAssumption
    <3> QED  BY <2>1, <3>1 DEF HonestList, Holds
  <2>2. ASSUME NEW m \in msgs, m.block \notin deleted
        PROVE  \A k \in m.machine : Holds(k, m.block)
    BY <2>2 DEF ListInv, Lists, MsgsHonest, HonestList, Holds
  <2>3. ASSUME NEW s \in Slot, task[s].pc = "acked", task[s].block \notin deleted
        PROVE  Holds(task[s].peer, task[s].block)
    BY <2>3 DEF ListInv, Lists, TasksHonest, Honest, HonestList, Holds
  <2> QED  BY <2>1, <2>2, <2>3 DEF ListingsTruthful
<1> QED  BY <1>1, ListCorrect, PTL

-----------------------------------------------------------------------------
(* TasksConnected.                                                         *)

\* What a handler may become by a step of its own.
Follows(old, t) ==
  t.pc # "idle" =>
    /\ t.node = old.node /\ old.pc # "done"
    /\ t.op = "get" => old.op = "get" /\ t.block = old.block /\ t.data \in {0, old.data}
    /\ t.pc = "done" => t.op = "get"

\* The record changes of the handlers' steps.
LEMMA UpdateFollows ==
  ASSUME NEW old \in Task, old.pc # "done"
  PROVE  /\ \A p : p # "done" => Follows(old, [old EXCEPT !.pc = p])
         /\ old.op = "get" => Follows(old, [old EXCEPT !.pc = "done"])
         /\ \A g, i, b : Follows(old, [old EXCEPT !.pc = "check", !.ref = g, !.idx = i,
                                                  !.short = b])
         /\ \A b : Follows(old, [old EXCEPT !.pc = "verdict", !.alive = b])
         /\ \A i : Follows(old, [old EXCEPT !.pc = "check", !.idx = i])
         /\ \A i, b : Follows(old, [old EXCEPT !.pc = "check", !.idx = i, !.short = b])
         /\ \A g : Follows(old, [old EXCEPT !.pc = "choose", !.ref = g])
         /\ \A g : Follows(old, [old EXCEPT !.pc = "pick", !.machine = {}, !.ref = g])
         /\ \A C : Follows(old, [old EXCEPT !.pc = "next", !.machine = C])
         /\ \A C : Follows(old, [old EXCEPT !.machine = C])
         /\ Follows(old, [old EXCEPT !.pc = "next", !.peer = 0])
<1> USE DEF Follows, Task
<1>1. \A p : p # "done" => Follows(old, [old EXCEPT !.pc = p])
  OBVIOUS
<1>2. old.op = "get" => Follows(old, [old EXCEPT !.pc = "done"])
  OBVIOUS
<1>3. \A g, i, b : Follows(old, [old EXCEPT !.pc = "check", !.ref = g, !.idx = i,
                                             !.short = b])
  OBVIOUS
<1>4. \A b : Follows(old, [old EXCEPT !.pc = "verdict", !.alive = b])
  OBVIOUS
<1>5. \A i : Follows(old, [old EXCEPT !.pc = "check", !.idx = i])
  OBVIOUS
<1>6. \A i, b : Follows(old, [old EXCEPT !.pc = "check", !.idx = i, !.short = b])
  OBVIOUS
<1>7. \A g : Follows(old, [old EXCEPT !.pc = "choose", !.ref = g])
  OBVIOUS
<1>8. \A g : Follows(old, [old EXCEPT !.pc = "pick", !.machine = {}, !.ref = g])
  OBVIOUS
<1>9. \A C : Follows(old, [old EXCEPT !.pc = "next", !.machine = C])
  OBVIOUS
<1>10. \A C : Follows(old, [old EXCEPT !.machine = C])
  OBVIOUS
<1>11. Follows(old, [old EXCEPT !.pc = "next", !.peer = 0])
  OBVIOUS
<1> QED
  BY <1>1, <1>2, <1>3, <1>4, <1>5, <1>6, <1>7, <1>8, <1>9, <1>10, <1>11

\* ... and the handlers they start anew.
LEMMA AnewFollows ==
  ASSUME NEW u \in Slot, task[u].pc # "done"
  PROVE  /\ Follows(task[u], Idle) /\ Follows(task[u], Returned(u))
         /\ \A pc : pc # "done" => Follows(task[u], Asking(u, pc))
         /\ \A m : Follows(task[u], Answered(u, m))
         /\ \A g : Follows(task[u], [Asking(u, "choose") EXCEPT !.ref = g])
         /\ \A id : Follows(task[u], PassTask(task[u].node, id))
         /\ Follows(task[u], NewTask("ask", "dodelete", task[u].node, task[u].block, {}))
<1> USE DEF Follows, NewTask
<1>1. Follows(task[u], Idle) /\ Follows(task[u], Returned(u))
  BY DEF Idle, Returned
<1>2. \A pc : pc # "done" => Follows(task[u], Asking(u, pc))
  BY DEF Asking
<1>3. \A m : Follows(task[u], [Asking(u, "load") EXCEPT !.peer = m])
  BY DEF Asking
<1>4. \A m : Follows(task[u], Answered(u, m))
  BY <1>2, <1>3 DEF Answered
<1>5. \A g : Follows(task[u], [Asking(u, "choose") EXCEPT !.ref = g])
  BY DEF Asking
<1>6. \A id : Follows(task[u], PassTask(task[u].node, id))
  BY DEF PassTask
<1> QED
  BY <1>1, <1>2, <1>4, <1>5, <1>6

\* A handler that moves alone.
Moves(u) == \E t : Step(u, t) /\ Follows(task[u], t)

LEMMA AskMoves ==
  ASSUME TypeOK, NEW u \in Slot,
         \/ NextPass(u) \/ AskBlock(u) \/ CheckLost(u) \/ CheckAlive(u) \/ Verdict(u)
         \/ CheckDone(u) \/ AskRemote(u) \/ WaitEnd(u) \/ Choose(u)
  PROVE  Moves(u)
<1>1. task[u] \in Task /\ task[u].pc # "done"
  BY DEF TypeOK, TasksOK, NextPass, AskBlock, CheckLost, CheckAlive, Verdict, CheckDone,
     AskRemote, WaitEnd, Choose
<1>2. /\ \A p : p # "done" => Follows(task[u], [task[u] EXCEPT !.pc = p])
      /\ task[u].op = "get" => Follows(task[u], [task[u] EXCEPT !.pc = "done"])
      /\ \A g, i, b : Follows(task[u], [task[u] EXCEPT !.pc = "check", !.ref = g, !.idx = i,
                                                       !.short = b])
      /\ \A b : Follows(task[u], [task[u] EXCEPT !.pc = "verdict", !.alive = b])
      /\ \A i : Follows(task[u], [task[u] EXCEPT !.pc = "check", !.idx = i])
      /\ \A i, b : Follows(task[u], [task[u] EXCEPT !.pc = "check", !.idx = i, !.short = b])
      /\ \A g : Follows(task[u], [task[u] EXCEPT !.pc = "choose", !.ref = g])
  BY <1>1, UpdateFollows
<1>3. /\ Follows(task[u], Idle) /\ Follows(task[u], Returned(u))
      /\ \A pc : pc # "done" => Follows(task[u], Asking(u, pc))
      /\ \A m : Follows(task[u], Answered(u, m))
      /\ \A g : Follows(task[u], [Asking(u, "choose") EXCEPT !.ref = g])
      /\ \A id : Follows(task[u], PassTask(task[u].node, id))
  BY <1>1, AnewFollows
<1> USE <1>2, <1>3 DEF Moves
<1>4. CASE NextPass(u)
  BY <1>4 DEF NextPass
<1>5. CASE AskBlock(u)
  BY <1>5 DEF AskBlock
<1>6. CASE CheckLost(u)
  BY <1>6 DEF CheckLost
<1>7. CASE CheckAlive(u)
  BY <1>7 DEF CheckAlive
<1>8. CASE Verdict(u)
  BY <1>8 DEF Verdict
<1>9. CASE CheckDone(u)
  BY <1>9 DEF CheckDone
<1>10. CASE AskRemote(u)
  BY <1>10 DEF AskRemote
<1>11. CASE WaitEnd(u)
  BY <1>11 DEF WaitEnd
<1>12. CASE Choose(u)
  BY <1>12 DEF Choose
<1> QED
  BY <1>4, <1>5, <1>6, <1>7, <1>8, <1>9, <1>10, <1>11, <1>12

LEMMA UseMoves ==
  ASSUME TypeOK, NEW u \in Slot,
         \/ Deliver(u) \/ DetailLost(u) \/ UseDelete(u) \/ UseDoDelete(u)
         \/ EraseLocal(u) \/ UseReplica(u) \/ Pick(u) \/ CopyRefused(u)
         \/ ReplicaAck(u) \/ ReplicaDone(u) \/ (LoadFails(u) /\ ~HangUp(u))
  PROVE  Moves(u)
<1>0. CASE Deliver(u)
  BY <1>0 DEF Deliver, Moves, Follows, Idle, NewTask
<1> SUFFICES ASSUME ~Deliver(u) PROVE Moves(u)
  BY <1>0
<1>1. task[u] \in Task /\ task[u].pc # "done"
  BY DEF TypeOK, TasksOK, DetailLost, UseDelete, UseDoDelete, EraseLocal, UseReplica, Pick,
     CopyRefused, ReplicaAck, ReplicaDone, LoadFails
<1>2. /\ \A p : p # "done" => Follows(task[u], [task[u] EXCEPT !.pc = p])
      /\ task[u].op = "get" => Follows(task[u], [task[u] EXCEPT !.pc = "done"])
      /\ \A g : Follows(task[u], [task[u] EXCEPT !.pc = "pick", !.machine = {}, !.ref = g])
      /\ \A C : Follows(task[u], [task[u] EXCEPT !.pc = "next", !.machine = C])
      /\ \A C : Follows(task[u], [task[u] EXCEPT !.machine = C])
      /\ Follows(task[u], [task[u] EXCEPT !.pc = "next", !.peer = 0])
  BY <1>1, UpdateFollows
<1>3. /\ Follows(task[u], Idle) /\ Follows(task[u], Returned(u))
      /\ \A pc : pc # "done" => Follows(task[u], Asking(u, pc))
      /\ Follows(task[u], NewTask("ask", "dodelete", task[u].node, task[u].block, {}))
  BY <1>1, AnewFollows
<1> USE <1>2, <1>3 DEF Moves
<1>4. CASE DetailLost(u)
  BY <1>4 DEF DetailLost
<1>5. CASE UseDelete(u)
  BY <1>5 DEF UseDelete
<1>6. CASE UseDoDelete(u)
  BY <1>6 DEF UseDoDelete
<1>7. CASE EraseLocal(u)
  BY <1>7 DEF EraseLocal
<1>8. CASE UseReplica(u)
  BY <1>8 DEF UseReplica
<1>9. CASE Pick(u)
  BY <1>9 DEF Pick
<1>10. CASE CopyRefused(u)
  BY <1>10 DEF CopyRefused
<1>11. CASE ReplicaAck(u)
  BY <1>11 DEF ReplicaAck
<1>12. CASE ReplicaDone(u)
  BY <1>12 DEF ReplicaDone
<1>13. CASE LoadFails(u) /\ ~HangUp(u)
  BY <1>13 DEF LoadFails
<1> QED
  BY <1>4, <1>5, <1>6, <1>7, <1>8, <1>9, <1>10, <1>11, <1>12, <1>13

\* Only a handler that runs takes a step.
LEMMA StepAwake ==
  ASSUME NEW u \in Slot, TaskStep(u)
  PROVE  task[u].pc # "idle"
BY DEF TaskStep, NextPass, AskBlock, CheckLost, CheckAlive, Verdict, CheckDone, AskRemote,
   WaitEnd, Choose, Load, LoadFails, Deliver, DetailLost, UseDelete, UseDoDelete,
   EraseLocal, UseReplica, Pick, SendCopy, CopyRefused, SaveCopy, SaveCopyFails,
   ReplicaAck, ReplicaDone

\* A handler runs where a process runs.
Running == \A s \in Slot : task[s].pc # "idle" => up[task[s].node]

LEMMA StepRunning ==
  ASSUME TypeOK, Running, NEW u \in Slot, NEW t, Step(u, t), UNCHANGED up,
         t.pc # "idle" => up[t.node]
  PROVE  Running'
BY DEF TypeOK, TasksOK, Running, Step

LEMMA HangUpRunning ==
  ASSUME TypeOK, Running, NEW u \in Slot, HangUp(u), UNCHANGED up
  PROVE  Running'
<1> SUFFICES ASSUME NEW s \in Slot, task'[s].pc # "idle" PROVE up[task'[s].node]
  BY DEF Running
<1>1. task[s] \in Task /\ Idle.pc = "idle"
  BY DEF TypeOK, TasksOK, Idle, NewTask
<1>2. [task[s] EXCEPT !.pc = "next", !.conn = NoSlot].node = task[s].node
  BY <1>1 DEF Task
<1>3. task'[s].node = task[s].node /\ task[s].pc # "idle"
  BY <1>1, <1>2 DEF HangUp
<1> QED
  BY <1>3 DEF Running

LEMMA TaskRunning ==
  ASSUME TypeOK, Running, NEW u \in Slot, TaskStep(u)
  PROVE  Running'
<1>1. UNCHANGED up
  BY DEF TaskStep, NextPass, AskBlock, CheckLost, CheckAlive, Verdict, CheckDone, AskRemote,
     WaitEnd, Choose, Load, LoadFails, Deliver, DetailLost, UseDelete, UseDoDelete,
     EraseLocal, UseReplica, Pick, SendCopy, CopyRefused, SaveCopy, SaveCopyFails,
     ReplicaAck, ReplicaDone
<1>2. task \in [Slot -> Task] /\ task[u] \in Task
  BY DEF TypeOK, TasksOK
<1>3. CASE Moves(u)
  <2>1. PICK t : Step(u, t) /\ Follows(task[u], t)
    BY <1>3 DEF Moves
  <2>2. t.pc # "idle" => task[u].pc # "idle" /\ t.node = task[u].node
    BY <2>1, StepAwake DEF Follows
  <2> QED
    BY <1>1, <2>1, <2>2, StepRunning DEF Running
<1>4. CASE HangUp(u)
  BY <1>1, <1>4, HangUpRunning
<1>5. CASE Load(u)
  <2> DEFINE t == [task[u] EXCEPT !.pc = IF task[u].op = "get" THEN "done" ELSE "save",
                                  !.data = disk[task[u].peer][task[u].block]]
  <2>1. Step(u, t) /\ task[u].pc = "load"
    BY <1>5 DEF Load
  <2>2. t.node = task[u].node
    BY <1>2 DEF Task
  <2> HIDE DEF t
  <2> QED
    BY <1>1, <2>1, <2>2, StepRunning DEF Running
<1>6. CASE SendCopy(u)
  <2>1. PICK m \in task[u].machine, c \in Slot :
          /\ up[m] /\ task[u].pc = "next"
          /\ task' = [task EXCEPT
               ![u] = [task[u] EXCEPT !.pc = "copying", !.peer = m, !.conn = c,
                         !.machine = task[u].machine \ {m}],
               ![c] = [NewTask("load", "copy", m, task[u].block, {})
                         EXCEPT !.peer = task[u].node]]
    BY <1>6 DEF SendCopy
  <2>2. [task[u] EXCEPT !.pc = "copying", !.peer = m, !.conn = c,
                        !.machine = task[u].machine \ {m}].node = task[u].node
    BY <1>2 DEF Task
  <2>3. [NewTask("load", "copy", m, task[u].block, {})
           EXCEPT !.peer = task[u].node].node = m
    BY DEF NewTask
  <2>4. ASSUME NEW s \in Slot, task'[s].pc # "idle" PROVE up[task'[s].node]
    <3>1. CASE s = c
      BY <1>2, <2>1, <2>3, <3>1
    <3>2. CASE s # c /\ s = u
      BY <1>2, <2>1, <2>2, <3>2 DEF Running
    <3>3. CASE s # c /\ s # u
      BY <1>2, <2>1, <2>4, <3>3 DEF Running
    <3> QED
      BY <3>1, <3>2, <3>3
  <2> QED
    BY <1>1, <2>4 DEF Running
<1>7. CASE SaveCopy(u)
  <2>1. ASSUME NEW s \in Slot, task'[s].pc # "idle" PROVE up[task'[s].node]
    <3>1. task[s] \in Task /\ Idle.pc = "idle"
      BY <1>2 DEF Idle, NewTask
    <3>2. [task[s] EXCEPT !.pc = "acked", !.conn = NoSlot].node = task[s].node
      BY <3>1 DEF Task
    <3>3. task'[s].node = task[s].node /\ task[s].pc # "idle"
      BY <1>7, <2>1, <3>1, <3>2 DEF SaveCopy
    <3> QED
      BY <3>3 DEF Running
  <2> QED
    BY <1>1, <2>1 DEF Running
<1>8. Moves(u) \/ HangUp(u) \/ Load(u) \/ SendCopy(u) \/ SaveCopy(u)
  BY AskMoves, UseMoves DEF TaskStep, SaveCopyFails
<1> QED
  BY <1>3, <1>4, <1>5, <1>6, <1>7, <1>8

LEMMA RunStep ==
  ASSUME TypeOK, Running, [Next]_vars
  PROVE  Running'
<1>0. task \in [Slot -> Task] /\ up \in [Node -> BOOLEAN]
  BY DEF TypeOK, TasksOK, MemoryOK
<1>1. CASE Operation
  <2>1. ASSUME NEW n \in Node, Save(n) \/ SaveFails(n) PROVE Running'
    BY <2>1 DEF Save, SaveFails, Running
  <2>2. ASSUME NEW n \in Node, NEW s \in Slot,
               \/ CheckAllReplica(s, n)
               \/ \E id \in BlockID : Get(s, n, id) \/ Delete(s, n, id)
        PROVE  Running'
    <3>1. UNCHANGED up /\ up[n] /\ \E t : Step(s, t) /\ t.node = n
      <4>1. /\ \A id, pc, op, S : NewTask(pc, op, n, id, S).node = n
            /\ \A id : PassTask(n, id).node = n
        BY DEF PassTask, NewTask
      <4>2. CASE CheckAllReplica(s, n)
        BY <4>1, <4>2 DEF CheckAllReplica, Begin
      <4>3. CASE \E id \in BlockID : Get(s, n, id) \/ Delete(s, n, id)
        BY <4>1, <4>3 DEF Get, Delete, Begin
      <4> QED
        BY <2>2, <4>2, <4>3
    <3> QED
      BY <3>1, StepRunning
  <2> QED
    BY <1>1, <2>1, <2>2 DEF Operation
<1>2. ASSUME NEW s \in Slot, TaskStep(s) PROVE Running'
  BY <1>2, TaskRunning
<1>3. CASE Handle
  <2>1. PICK m \in msgs :
          \/ HandleRequestBlockLocation(m) \/ HandleRequestBlockLocationACK(m)
          \/ HandleUpdateReplica(m) \/ HandleDeleteBlock(m)
          \/ \E s \in Slot : HandleDoReplica(s, m) \/ HandleDoDelete(s, m)
    BY <1>3 DEF Handle
  <2>2. UNCHANGED up /\ (UNCHANGED task \/ \E s \in Slot : \E t : Step(s, t) /\ up[t.node])
    <3>1. CASE \/ HandleRequestBlockLocation(m) \/ HandleRequestBlockLocationACK(m)
               \/ HandleUpdateReplica(m) \/ HandleDeleteBlock(m)
      BY <3>1 DEF HandleRequestBlockLocation, HandleRequestBlockLocationACK,
         HandleUpdateReplica, HandleDeleteBlock
    <3>2. ASSUME NEW s \in Slot, HandleDoReplica(s, m) \/ HandleDoDelete(s, m)
          PROVE  UNCHANGED up /\ \E t : Step(s, t) /\ up[t.node]
      <4>1. \A op, S : NewTask("ask", op, m.dst, m.block, S).node = m.dst
        BY DEF NewTask
      <4> QED
        BY <3>2, <4>1 DEF HandleDoReplica, HandleDoDelete, Begin, Receive
    <3> QED
      BY <2>1, <3>1, <3>2
  <2>3. CASE UNCHANGED task
    BY <2>2, <2>3 DEF Running
  <2>4. CASE \E s \in Slot : \E t : Step(s, t) /\ up[t.node]
    BY <2>2, <2>4, StepRunning
  <2> QED
    BY <2>2, <2>3, <2>4
<1>4. CASE Environment
  <2>1. ASSUME NEW n \in Node, Crash(n) PROVE Running'
    <3> SUFFICES ASSUME NEW s \in Slot, task'[s].pc # "idle" PROVE up'[task'[s].node]
      BY DEF Running
    <3>1. task[s] \in Task /\ Idle.pc = "idle"
      BY <1>0 DEF Idle, NewTask
    <3>2. [task[s] EXCEPT !.pc = "next", !.conn = NoSlot].node = task[s].node
      BY <3>1 DEF Task
    <3>3. task'[s].node = task[s].node /\ task[s].node # n /\ task[s].pc # "idle"
      BY <2>1, <3>1, <3>2 DEF Crash
    <3>4. task[s].node \in Node
      BY <3>3 DEF TypeOK, TasksOK, Ready
    <3> QED
      BY <1>0, <2>1, <3>3, <3>4 DEF Crash, Running
  <2>2. ASSUME NEW n \in Node, Restart(n) PROVE Running'
    BY <1>0, <2>2 DEF Restart, Running, TypeOK, TasksOK, Ready
  <2>3. ASSUME NEW n \in Node, LoseRoute(n) PROVE Running'
    BY <2>3 DEF LoseRoute, Running
  <2> QED
    BY <1>4, <2>1, <2>2, <2>3 DEF Environment
<1>5. CASE UNCHANGED vars
  BY <1>5 DEF vars, Running
<1> QED
  BY <1>1, <1>2, <1>3, <1>4, <1>5 DEF Next

\* In every cluster, through all crashes and hang-ups, handlers run where a process
\* runs, and a replication that waits for its peer waits for a handler there that still
\* has the copy to make.
THEOREM ConnectedCorrect == Spec => []TasksConnected
<1>1. Init => Running
  BY DEF Init, Running, Idle, NewTask
<1>2. ListInv /\ Running => TasksConnected
  BY DEF ListInv, Lists, Linked, Serves, Running, TasksConnected
<1>3. TypeOK /\ Running /\ [Next]_vars => Running'
  BY RunStep
<1> QED
  BY TypeCorrect, ListCorrect, <1>1, <1>2, <1>3, PTL DEF Spec

(***************************************************************************)
(* All copies of a block are copies of the same block.  What has to be     *)
(* added to make it inductive is that a copy about to be written is one of *)
(* them, and that a running machine never counts below the number of a     *)
(* live block of its own, so that a new block cannot take the name of      *)
(* another.                                                                *)
(***************************************************************************)

\* What a handler is about to write is the block, or what a crash left of it.
SavesAgree ==
  \A s \in Slot :
    task[s].pc = "save" /\ task[s].block \notin deleted
      => task[s].data \in {Torn, gen[task[s].block]}

\* newLocalID is past every live block of the machine.
Numbered ==
  \A id \in BlockID :
    up[id[1]] /\ id \notin deleted /\ gen[id] > 0 => id[2] <= localMax[id[1]]

CopyInv == ListInv /\ CopiesAgree /\ SavesAgree /\ Numbered

LEMMA CopyInit == Init => CopyInv
<1> SUFFICES ASSUME Init PROVE CopyInv
  OBVIOUS
<1>1. ListInv  BY ListInit
<1>2. CopiesAgree  BY DEF Init, CopiesAgree
<1>3. SavesAgree  BY DEF Init, SavesAgree, Idle, NewTask
<1>4. Numbered  BY DEF Init, Numbered
<1> QED  BY <1>1, <1>2, <1>3, <1>4 DEF CopyInv

\* A handler that saves next was about to save the same before.
SameSave(s) ==
  /\ task[s].pc = "save"
  /\ task'[s].data = task[s].data /\ task'[s].block = task[s].block

LEMMA StepSaves ==
  ASSUME TypeOK, NEW u \in Slot, NEW t, Step(u, t), t.pc # "save",
         NEW s \in Slot, task'[s].pc = "save"
  PROVE  SameSave(s)
BY DEF TypeOK, TasksOK, Step, SameSave

LEMMA HangUpSaves ==
  ASSUME TypeOK, NEW u \in Slot, HangUp(u), NEW s \in Slot, task'[s].pc = "save"
  PROVE  SameSave(s)
<1>1. task[s] \in Task  BY DEF TypeOK, TasksOK
<1>2. Idle.pc = "idle"  BY DEF Idle, NewTask
<1>3. [task[s] EXCEPT !.pc = "next", !.conn = NoSlot].pc = "next"  BY <1>1 DEF Task
<1>4. task'[s] = task[s]  BY <1>2, <1>3 DEF HangUp
<1> QED  BY <1>4 DEF SameSave

\* No handler but one that loads comes to save something else.
LEMMA PhaseFacts ==
  ASSUME TypeOK, NEW u \in Slot
  PROVE  /\ Idle.pc = "idle" /\ Returned(u).pc \in {"idle", "pass"}
         /\ \A pc : Asking(u, pc).pc = pc
         /\ \A m : Answered(u, m).pc \in {"load", "use"}
         /\ \A n, id : PassTask(n, id).pc = "ask"
         /\ \A pc, op, n, id, S : NewTask(pc, op, n, id, S).pc = pc
<1>1. \A pc, op, n, id, S : NewTask(pc, op, n, id, S).pc = pc  BY DEF NewTask
<1>2. \A pc : Asking(u, pc).pc = pc  BY <1>1 DEF Asking
<1>3. ASSUME NEW m  PROVE Answered(u, m).pc \in {"load", "use"}
  <2>1. [Asking(u, "load") EXCEPT !.peer = m].pc = "load"  BY DEF Asking, NewTask
  <2> QED  BY <1>2, <2>1 DEF Answered
<1> QED  BY <1>1, <1>2, <1>3 DEF Idle, Returned, PassTask

LEMMA AskSaves ==
  ASSUME TypeOK, NEW u \in Slot, NEW s \in Slot, task'[s].pc = "save",
         \/ NextPass(u) \/ AskBlock(u) \/ CheckLost(u) \/ CheckAlive(u) \/ Verdict(u)
         \/ CheckDone(u) \/ AskRemote(u) \/ WaitEnd(u) \/ Choose(u)
  PROVE  SameSave(s)
<1>0. /\ Idle.pc = "idle" /\ Returned(u).pc \in {"idle", "pass"}
      /\ \A pc : Asking(u, pc).pc = pc
      /\ \A m : Answered(u, m).pc \in {"load", "use"}
      /\ \A n, id : PassTask(n, id).pc = "ask"
  BY PhaseFacts
<1>1. task[u] \in Task  BY DEF TypeOK, TasksOK
<1>2. \A pc : [task[u] EXCEPT !.pc = pc].pc = pc  BY <1>1 DEF Task
<1>3. \A g, i, b : [task[u] EXCEPT !.pc = "check", !.ref = g, !.idx = i, !.short = b].pc = "check"
  BY <1>1 DEF Task
<1>4. \A b : [task[u] EXCEPT !.pc = "verdict", !.alive = b].pc = "verdict"
  BY <1>1 DEF Task
<1>5. \A i : [task[u] EXCEPT !.pc = "check", !.idx = i].pc = "check"  BY <1>1 DEF Task
<1>6. \A i, b : [task[u] EXCEPT !.pc = "check", !.idx = i, !.short = b].pc = "check"
  BY <1>1 DEF Task
<1>7. \A g : [task[u] EXCEPT !.pc = "choose", !.ref = g].pc = "choose"  BY <1>1 DEF Task
<1>8. \A g : [Asking(u, "choose") EXCEPT !.ref = g].pc = "choose"
  BY DEF Asking, NewTask
<1>9. PICK t : Step(u, t) /\ t.pc # "save"
  <2>0. /\ [task[u] EXCEPT !.pc = "ub"].pc # "save"
        /\ [task[u] EXCEPT !.pc = "done"].pc # "save"
    BY <1>2
  <2>1. CASE NextPass(u)
    <3>1. \/ Step(u, [task[u] EXCEPT !.pc = "ub"]) \/ Step(u, Idle)
          \/ \E i : Step(u, PassTask(task[u].node, i))
      BY <2>1 DEF NextPass
    <3> QED  BY <1>0, <2>0, <3>1
  <2>2. CASE AskBlock(u)
    <3> DEFINE n == task[u].node
               id == task[u].block
               g == remote[n][id]
               size == Cardinality(attr[<<n, id, g>>].machine)
               t == [task[u] EXCEPT !.pc = "check", !.ref = g, !.idx = size,
                                    !.short = size < blockReplica]
    <3>1. Step(u, t) \/ Step(u, Answered(u, n)) \/ Step(u, Asking(u, "remote"))
      BY <2>2 DEF AskBlock
    <3>2. t.pc # "save"
      <4> HIDE DEF g, size
      <4> QED  BY <1>1 DEF Task
    <3> HIDE DEF t
    <3> QED  BY <3>1, <3>2, <1>0
  <2>3. CASE CheckLost(u)  BY <2>3, <1>2 DEF CheckLost
  <2>4. CASE CheckAlive(u)  BY <2>4, <1>4 DEF CheckAlive
  <2>5. CASE Verdict(u)  BY <2>5, <1>2, <1>5, <1>6 DEF Verdict
  <2>6. CASE CheckDone(u)
    <3>1. \/ Step(u, Asking(u, "remote"))
          \/ Step(u, [Asking(u, "choose") EXCEPT !.ref = task[u].ref])
      BY <2>6 DEF CheckDone
    <3>2. [Asking(u, "choose") EXCEPT !.ref = task[u].ref].pc # "save"  BY <1>8
    <3>3. Asking(u, "remote").pc # "save"  BY <1>0
    <3> QED  BY <3>1, <3>2, <3>3
  <2>7. CASE AskRemote(u)  BY <2>7, <1>2 DEF AskRemote
  <2>8. CASE WaitEnd(u)
    <3>1. \/ \E g : Step(u, [task[u] EXCEPT !.pc = "choose", !.ref = g])
          \/ Step(u, [task[u] EXCEPT !.pc = "done"]) \/ Step(u, Returned(u))
      BY <2>8 DEF WaitEnd
    <3>2. Returned(u).pc # "save"  BY <1>0
    <3> QED  BY <1>7, <2>0, <3>1, <3>2
  <2>9. CASE Choose(u)
    <3>1. \/ Step(u, [task[u] EXCEPT !.pc = "ub"])
          \/ \E m : Step(u, Answered(u, m))
      BY <2>9 DEF Choose
    <3>2. \A m : Answered(u, m).pc # "save"  BY <1>0
    <3> QED  BY <2>0, <3>1, <3>2
  <2> QED  BY <2>1, <2>2, <2>3, <2>4, <2>5, <2>6, <2>7, <2>8, <2>9
<1> QED  BY <1>9, StepSaves

LEMMA UseSaves ==
  ASSUME ListInv, NEW u \in Slot, NEW s \in Slot, task'[s].pc = "save",
         \/ LoadFails(u) \/ Deliver(u) \/ DetailLost(u) \/ UseDelete(u)
         \/ UseDoDelete(u) \/ EraseLocal(u) \/ UseReplica(u) \/ Pick(u)
         \/ SendCopy(u) \/ CopyRefused(u) \/ SaveCopy(u) \/ SaveCopyFails(u)
         \/ ReplicaAck(u) \/ ReplicaDone(u)
  PROVE  SameSave(s)
<1>0. TypeOK  BY DEF ListInv
<1>1. task[u] \in Task  BY <1>0 DEF TypeOK, TasksOK
<1>2. \A pc : [task[u] EXCEPT !.pc = pc].pc = pc  BY <1>1 DEF Task
<1>3. \A g : [task[u] EXCEPT !.pc = "pick", !.machine = {}, !.ref = g].pc = "pick"
  BY <1>1 DEF Task
<1>4. \A C : [task[u] EXCEPT !.pc = "next", !.machine = C].pc = "next"  BY <1>1 DEF Task
<1>5. \A C : [task[u] EXCEPT !.machine = C].pc = task[u].pc  BY <1>1 DEF Task
<1>6. [task[u] EXCEPT !.pc = "next", !.peer = 0].pc = "next"  BY <1>1 DEF Task
<1>7. CASE SendCopy(u)
  <2>1. PICK m \in task[u].machine, c \in Slot :
          task' = [task EXCEPT
               ![u] = [task[u] EXCEPT !.pc = "copying", !.peer = m, !.conn = c,
                         !.machine = task[u].machine \ {m}],
               ![c] = [NewTask("load", "copy", m, task[u].block, {})
                         EXCEPT !.peer = task[u].node]]
    BY <1>7 DEF SendCopy
  <2>2. [task[u] EXCEPT !.pc = "copying", !.peer = m, !.conn = c,
                        !.machine = task[u].machine \ {m}].pc = "copying"
    BY <1>1 DEF Task
  <2>3. [NewTask("load", "copy", m, task[u].block, {})
           EXCEPT !.peer = task[u].node].pc = "load"
    BY DEF NewTask
  <2>4. task'[s] = task[s]  BY <1>0, <2>1, <2>2, <2>3 DEF TypeOK, TasksOK
  <2> QED  BY <2>4 DEF SameSave
<1>8. CASE SaveCopy(u)
  <2>1. task[s] \in Task  BY <1>0 DEF TypeOK, TasksOK
  <2>2. [task[s] EXCEPT !.pc = "acked", !.conn = NoSlot].pc = "acked"  BY <2>1 DEF Task
  <2>3. task'[s] = task[s]  BY <1>8, <2>2, <1>0, PhaseFacts DEF SaveCopy
  <2> QED  BY <2>3 DEF SameSave
<1>9. CASE HangUp(u)  BY <1>0, <1>9, HangUpSaves
<1>10. ASSUME ~SendCopy(u), ~SaveCopy(u), ~HangUp(u)
       PROVE  \E t : Step(u, t) /\ t.pc # "save"
  <2>1. CASE LoadFails(u)  BY <2>1, <1>2, <1>10 DEF LoadFails
  <2>2. CASE Deliver(u)  BY <2>2, <1>0, PhaseFacts DEF Deliver
  <2>3. CASE DetailLost(u)  BY <2>3, <1>2 DEF DetailLost
  <2>4. CASE UseDelete(u)  BY <2>4, <1>0, PhaseFacts DEF UseDelete
  <2>5. CASE UseDoDelete(u)  BY <2>5, <1>0, PhaseFacts DEF UseDoDelete
  <2>6. CASE EraseLocal(u)  BY <2>6, <1>0, PhaseFacts DEF EraseLocal
  <2>7. CASE UseReplica(u)  BY <2>7, <1>3, <1>0, PhaseFacts DEF UseReplica
  <2>8. CASE Pick(u)  BY <2>8, <1>4 DEF Pick
  <2>9. CASE CopyRefused(u)  BY <2>9, <1>5 DEF CopyRefused
  <2>10. CASE SaveCopyFails(u)  BY <2>10, <1>10 DEF SaveCopyFails
  <2>11. CASE ReplicaAck(u)  BY <2>11, <1>6 DEF ReplicaAck
  <2>12. CASE ReplicaDone(u)  BY <2>12, <1>0, PhaseFacts DEF ReplicaDone
  <2> QED
    BY <1>10, <2>1, <2>2, <2>3, <2>4, <2>5, <2>6, <2>7, <2>8, <2>9, <2>10, <2>11, <2>12
<1> QED  BY <1>0, <1>7, <1>8, <1>9, <1>10, StepSaves

\* What is not deleted stays where it is, and so does every number.
LEMMA CopyFrame ==
  ASSUME CopyInv, UNCHANGED <<gen, up, localMax>>, deleted \subseteq deleted',
         \A n \in Node, id \in BlockID : id \notin deleted' => disk'[n][id] = disk[n][id],
         \A s \in Slot : task'[s].pc = "save" => SameSave(s)
  PROVE  CopiesAgree' /\ SavesAgree' /\ Numbered'
<1>1. \A id \in BlockID : id[1] \in Node  BY NodeAssumption DEF BlockID
<1>2. CopiesAgree'  BY <1>1 DEF CopyInv, CopiesAgree, Holds
<1>3. SavesAgree'  BY DEF CopyInv, SavesAgree, SameSave
<1>4. Numbered'  BY DEF CopyInv, Numbered
<1> QED  BY <1>2, <1>3, <1>4

LEMMA BlockParts == \A id \in BlockID : id[1] \in Node /\ id[2] \in Nat
<1>1. ASSUME NEW id \in BlockID  PROVE id[1] \in Node /\ id[2] \in Nat
  <2>1. id[1] \in Uploader /\ id[2] \in 1..MaxLocal  BY DEF BlockID
  <2>2. id[1] \in Node  BY <2>1, NodeAssumption
  <2>3. id[2] \in Nat  BY <2>1, BoundAssumption
  <2> QED  BY <2>2, <2>3
<1> QED  BY <1>1

\* A new block: its id is new, or its deletion was accepted.
LEMMA CopySave ==
  ASSUME CopyInv, NEW n \in Node, Save(n)
  PROVE  CopiesAgree' /\ SavesAgree' /\ Numbered'
<1> DEFINE new == <<n, localMax[n] + 1>>
<1>0. /\ up[n] /\ n \in Uploader /\ localMax[n] < MaxLocal /\ localMax[n] \in 0..MaxLocal
  BY DEF Save, CopyInv, ListInv, TypeOK, MemoryOK
<1>1. /\ up[n] /\ new \in BlockID /\ new[1] = n /\ new[2] = localMax[n] + 1
      /\ localMax[n] \in Nat
  <2>1. localMax[n] + 1 \in 1..MaxLocal /\ localMax[n] \in Nat
    BY <1>0, BoundAssumption
  <2>2. new \in BlockID  BY <1>0, <2>1 DEF BlockID
  <2> QED  BY <1>0, <2>1, <2>2
<1>2. /\ disk' = [disk EXCEPT ![n][new] = gen[new] + 1]
      /\ gen' = [gen EXCEPT ![new] = gen[new] + 1]
      /\ localMax' = [localMax EXCEPT ![n] = localMax[n] + 1]
      /\ UNCHANGED <<up, task, deleted>>
  BY DEF Save
<1>3. new[2] = localMax[new[1]] + 1 /\ up[new[1]]  BY <1>1
<1> HIDE DEF new
<1>4. /\ gen[new] \in Nat /\ disk \in [Node -> [BlockID -> Content]]
      /\ gen \in [BlockID -> Nat] /\ localMax \in [Node -> 0..MaxLocal]
      /\ task \in [Slot -> Task]
  BY <1>1 DEF CopyInv, ListInv, TypeOK, MemoryOK, TasksOK
<1>5. new \notin deleted => gen[new] = 0
  <2>1. new \notin deleted /\ gen[new] > 0 => new[2] <= localMax[new[1]]
    BY <1>1, <1>3 DEF CopyInv, Numbered
  <2> QED  BY <1>1, <1>3, <1>4, <2>1
<1>6. CopiesAgree'
  <2>1. ASSUME NEW id \in BlockID, id \notin deleted', NEW k \in Node
        PROVE  disk'[k][id] \in {0, Torn, gen'[id]}
    <3>1. disk[k][id] \in {0, Torn, gen[id]}  BY <1>2, <2>1 DEF CopyInv, CopiesAgree
    <3>2. CASE id = new
      <4>1. gen'[id] = gen[id] + 1 /\ gen[id] = 0  BY <1>1, <1>2, <1>4, <1>5, <2>1, <3>2
      <4>2. disk'[k][id] = disk[k][id] \/ disk'[k][id] = gen[id] + 1
        BY <1>2, <1>4, <3>2
      <4> QED  BY <3>1, <4>1, <4>2
    <3>3. CASE id # new
      <4>1. disk'[k][id] = disk[k][id] /\ gen'[id] = gen[id]  BY <1>2, <1>4, <3>3
      <4> QED  BY <3>1, <4>1
    <3> QED  BY <3>2, <3>3
  <2>2. ASSUME NEW id \in BlockID, id \notin deleted', gen'[id] > 0
        PROVE  disk'[id[1]][id] # 0
    <3>1. id[1] \in Node  BY NodeAssumption DEF BlockID
    <3>2. CASE id = new
      <4>1. disk'[n][new] = gen[new] + 1  BY <1>1, <1>2, <1>4
      <4> QED  BY <1>1, <1>4, <3>2, <4>1
    <3>3. CASE id # new
      <4>1. disk'[id[1]][id] = disk[id[1]][id] /\ gen'[id] = gen[id]
        BY <1>2, <1>4, <3>1, <3>3
      <4> QED  BY <1>2, <2>2, <4>1 DEF CopyInv, CopiesAgree, Holds
    <3> QED  BY <3>2, <3>3
  <2> QED  BY <2>1, <2>2 DEF CopiesAgree, Holds
<1>7. SavesAgree'
  <2>1. ASSUME NEW s \in Slot, task[s].pc = "save", task[s].block \notin deleted
        PROVE  task[s].data \in {Torn, gen'[task[s].block]}
    <3>1. task[s].data \in {Torn, gen[task[s].block]} /\ task[s].data # 0
      BY <2>1 DEF CopyInv, SavesAgree, ListInv, Lists, TasksHonest, Honest
    <3>2. CASE task[s].block = new
      <4>1. task[s].data = Torn  BY <1>5, <2>1, <3>1, <3>2
      <4> QED  BY <4>1
    <3>3. CASE task[s].block # new
      <4>1. task[s].block \in BlockID  BY <2>1 DEF CopyInv, ListInv, TypeOK, TasksOK, Ready
      <4>2. gen'[task[s].block] = gen[task[s].block]  BY <1>2, <1>4, <3>3, <4>1
      <4> QED  BY <3>1, <4>2
    <3> QED  BY <3>2, <3>3
  <2> QED  BY <1>2, <2>1 DEF SavesAgree
<1>8. Numbered'
  <2>1. ASSUME NEW id \in BlockID, up'[id[1]], id \notin deleted', gen'[id] > 0
        PROVE  id[2] <= localMax'[id[1]]
    <3>1. id[1] \in Node /\ id[2] \in Nat  BY BlockParts
    <3>2. localMax[id[1]] \in Nat /\ localMax[id[1]] <= localMax'[id[1]]
      BY <1>1, <1>2, <1>4, <3>1
    <3>3. localMax'[id[1]] \in Nat  BY <1>1, <1>2, <1>4, <3>1
    <3>4. CASE id = new
      <4>1. localMax'[id[1]] = localMax[id[1]] + 1  BY <1>1, <1>2, <1>4, <3>4
      <4> QED  BY <1>3, <3>2, <3>4, <4>1
    <3>5. CASE id # new
      <4>1. gen'[id] = gen[id]  BY <1>2, <1>4, <3>5
      <4>2. id[2] <= localMax[id[1]]  BY <1>2, <2>1, <4>1 DEF CopyInv, Numbered
      <4> QED  BY <3>1, <3>2, <3>3, <4>2
    <3> QED  BY <3>4, <3>5
  <2> QED  BY <2>1 DEF Numbered
<1> QED  BY <1>6, <1>7, <1>8

LEMMA CopyTask ==
  ASSUME CopyInv, NEW u \in Slot, TaskStep(u)
  PROVE  CopiesAgree' /\ SavesAgree' /\ Numbered'
<1>1. CASE Load(u)
  <2> DEFINE id == task[u].block
             t == [task[u] EXCEPT
                     !.pc = IF task[u].op = "get" THEN "done" ELSE "save",
                     !.data = disk[task[u].peer][id]]
  <2>1. /\ Step(u, t) /\ task[u].pc = "load" /\ disk[task[u].peer][id] # 0
        /\ UNCHANGED <<disk, gen, up, localMax, deleted>>
    BY <1>1 DEF Load, Readable
  <2>2. /\ task[u] \in Task /\ task[u].peer \in Node /\ id \in BlockID
        /\ task \in [Slot -> Task]
    BY <2>1 DEF CopyInv, ListInv, TypeOK, TasksOK, Ready
  <2>3. t.data = disk[task[u].peer][id] /\ t.block = id  BY <2>2 DEF Task
  <2> HIDE DEF t
  <2>4. id \notin deleted => t.data \in {Torn, gen[id]}
    BY <2>1, <2>2, <2>3 DEF CopyInv, CopiesAgree
  <2>5. SavesAgree'
    BY <2>1, <2>2, <2>3, <2>4 DEF CopyInv, SavesAgree, Step
  <2> QED
    BY <2>1, <2>5 DEF CopyInv, CopiesAgree, Holds, Numbered
<1>2. CASE SaveCopy(u)
  <2> DEFINE id == task[u].block
             n == task[u].node
  <2>1. /\ task[u].pc = "save" /\ disk' = [disk EXCEPT ![n][id] = task[u].data]
        /\ UNCHANGED <<gen, up, localMax, deleted>>
    BY <1>2 DEF SaveCopy
  <2>2. /\ n \in Node /\ id \in BlockID /\ task[u].data # 0
        /\ disk \in [Node -> [BlockID -> Content]]
    BY <2>1 DEF CopyInv, ListInv, TypeOK, MemoryOK, TasksOK, Ready, Lists,
                TasksHonest, Honest
  <2>3. id \notin deleted => task[u].data \in {Torn, gen[id]}
    BY <2>1 DEF CopyInv, SavesAgree
  <2> HIDE DEF n, id
  <2>4. ASSUME NEW k \in Node, NEW i \in BlockID, i \notin deleted
        PROVE  /\ disk'[k][i] \in {0, Torn, gen[i]}
               /\ disk[k][i] # 0 => disk'[k][i] # 0
    <3>1. disk[k][i] \in {0, Torn, gen[i]}  BY <2>4 DEF CopyInv, CopiesAgree
    <3>2. disk'[k][i] = IF k = n /\ i = id THEN task[u].data ELSE disk[k][i]
      BY <2>1, <2>2
    <3> QED  BY <2>2, <2>3, <2>4, <3>1, <3>2
  <2>5. CopiesAgree'
    <3>1. \A i \in BlockID : i[1] \in Node  BY NodeAssumption DEF BlockID
    <3> QED  BY <2>1, <2>4, <3>1 DEF CopyInv, CopiesAgree, Holds
  <2>6. \A s \in Slot : task'[s].pc = "save" => SameSave(s)
    BY <1>2, UseSaves DEF CopyInv
  <2>7. SavesAgree'  BY <2>1, <2>6 DEF CopyInv, SavesAgree, SameSave
  <2> QED  BY <2>1, <2>5, <2>7 DEF CopyInv, Numbered
<1>3. CASE ~Load(u) /\ ~SaveCopy(u)
  <2>1. \A s \in Slot : task'[s].pc = "save" => SameSave(s)
    BY <1>3, AskSaves, UseSaves DEF CopyInv, ListInv, TaskStep
  <2>2. UNCHANGED <<gen, up, localMax>> /\ deleted \subseteq deleted'
    BY <1>3
    DEF TaskStep, NextPass, AskBlock, CheckLost, CheckAlive, Verdict, CheckDone,
        AskRemote, WaitEnd, Choose, LoadFails, Deliver, DetailLost, UseDelete,
        UseDoDelete, EraseLocal, UseReplica, Pick, SendCopy, CopyRefused,
        SaveCopyFails, ReplicaAck, ReplicaDone
  <2>3. \A n \in Node, id \in BlockID : id \notin deleted' => disk'[n][id] = disk[n][id]
    <3>1. CASE EraseLocal(u)
      <4>1. task[u].block \in deleted
        BY <3>1 DEF EraseLocal, CopyInv, ListInv, Lists, TasksHonest, Honest
      <4> QED
        BY <2>2, <3>1, <4>1 DEF EraseLocal, Remove, CopyInv, ListInv, TypeOK, MemoryOK
    <3>2. CASE ~EraseLocal(u)
      BY <1>3, <3>2
      DEF TaskStep, NextPass, AskBlock, CheckLost, CheckAlive, Verdict, CheckDone,
          AskRemote, WaitEnd, Choose, LoadFails, Deliver, DetailLost, UseDelete,
          UseDoDelete, UseReplica, Pick, SendCopy, CopyRefused,
          SaveCopyFails, ReplicaAck, ReplicaDone
    <3> QED  BY <3>1, <3>2
  <2> QED  BY <2>1, <2>2, <2>3, CopyFrame
<1> QED  BY <1>1, <1>2, <1>3

LEMMA CopyOperation ==
  ASSUME CopyInv, Operation
  PROVE  CopiesAgree' /\ SavesAgree' /\ Numbered'
<1>1. CASE \E n \in Node : Save(n)  BY <1>1, CopySave
<1>2. ASSUME NEW n \in Node, SaveFails(n)
      PROVE  CopiesAgree' /\ SavesAgree' /\ Numbered'
  <2>1. /\ localMax' = [localMax EXCEPT ![n] = localMax[n] + 1]
        /\ UNCHANGED <<up, disk, task, gen, deleted>>
    BY <1>2 DEF SaveFails
  <2>2. ASSUME NEW id \in BlockID, up[id[1]], id \notin deleted, gen[id] > 0
        PROVE  id[2] <= localMax'[id[1]]
    <3>1. id[1] \in Node /\ id[2] \in Nat  BY BlockParts
    <3>2. id[2] <= localMax[id[1]]  BY <2>2 DEF CopyInv, Numbered
    <3>3. localMax \in [Node -> 0..MaxLocal]  BY DEF CopyInv, ListInv, TypeOK, MemoryOK
    <3>4. localMax[id[1]] \in Nat  BY <3>1, <3>3, BoundAssumption
    <3>5. localMax'[id[1]] \in {localMax[id[1]], localMax[id[1]] + 1}
      BY <2>1, <3>1, <3>3
    <3> QED  BY <3>1, <3>2, <3>4, <3>5
  <2>3. Numbered'  BY <2>1, <2>2 DEF Numbered
  <2> QED
    BY <2>1, <2>3 DEF CopyInv, CopiesAgree, Holds, SavesAgree
<1>3. ASSUME NEW n \in Node, NEW s \in Slot,
             CheckAllReplica(s, n) \/ \E id \in BlockID : Get(s, n, id) \/ Delete(s, n, id)
      PROVE  CopiesAgree' /\ SavesAgree' /\ Numbered'
  <2>0. TypeOK  BY DEF CopyInv, ListInv
  <2>1. PICK t : Step(s, t) /\ t.pc # "save"
    BY <1>3, <2>0, PhaseFacts DEF CheckAllReplica, Get, Delete, Begin
  <2>2. \A u \in Slot : task'[u].pc = "save" => SameSave(u)
    BY <2>0, <2>1, StepSaves
  <2>3. UNCHANGED <<gen, up, localMax, disk, deleted>>
    BY <1>3 DEF CheckAllReplica, Get, Delete
  <2> QED  BY <2>2, <2>3, CopyFrame
<1> QED  BY <1>1, <1>2, <1>3 DEF Operation

LEMMA CopyHandle ==
  ASSUME CopyInv, Handle
  PROVE  CopiesAgree' /\ SavesAgree' /\ Numbered'
<1>0. TypeOK  BY DEF CopyInv, ListInv
<1>1. PICK m \in msgs :
        \/ HandleRequestBlockLocation(m) \/ HandleRequestBlockLocationACK(m)
        \/ HandleUpdateReplica(m) \/ HandleDeleteBlock(m)
        \/ \E s \in Slot : HandleDoReplica(s, m) \/ HandleDoDelete(s, m)
  BY DEF Handle
<1>2. UNCHANGED <<gen, up, localMax, deleted>>
  BY <1>1
  DEF HandleRequestBlockLocation, HandleRequestBlockLocationACK, HandleUpdateReplica,
      HandleDeleteBlock, HandleDoReplica, HandleDoDelete
<1>3. \A n \in Node, id \in BlockID : id \notin deleted => disk'[n][id] = disk[n][id]
  <2>1. CASE HandleDeleteBlock(m)
    <3>1. m.block \in deleted
      BY <2>1 DEF HandleDeleteBlock, Receive, CopyInv, ListInv, Lists, MsgsHonest
    <3> QED
      BY <2>1, <3>1, <1>0 DEF HandleDeleteBlock, Remove, TypeOK, MemoryOK
  <2>2. CASE ~HandleDeleteBlock(m)
    BY <1>1, <2>2
    DEF HandleRequestBlockLocation, HandleRequestBlockLocationACK, HandleUpdateReplica,
        HandleDoReplica, HandleDoDelete
  <2> QED  BY <2>1, <2>2
<1>4. \A u \in Slot : task'[u].pc = "save" => SameSave(u)
  <2>1. CASE task' = task  BY <2>1 DEF SameSave
  <2>2. ASSUME NEW s \in Slot, HandleDoReplica(s, m) \/ HandleDoDelete(s, m)
        PROVE  \A u \in Slot : task'[u].pc = "save" => SameSave(u)
    <3>1. PICK t : Step(s, t) /\ t.pc # "save"
      BY <2>2, <1>0, PhaseFacts DEF HandleDoReplica, HandleDoDelete, Begin
    <3> QED  BY <1>0, <3>1, StepSaves
  <2>3. CASE ~\E s \in Slot : HandleDoReplica(s, m) \/ HandleDoDelete(s, m)
    BY <1>1, <2>1, <2>3
    DEF HandleRequestBlockLocation, HandleRequestBlockLocationACK, HandleUpdateReplica,
        HandleDeleteBlock
  <2> QED  BY <2>2, <2>3
<1> QED  BY <1>2, <1>3, <1>4, CopyFrame

\* A crash tears files, and only files that were not there.
LEMMA CopyCrash ==
  ASSUME CopyInv, NEW n \in Node, Crash(n)
  PROVE  CopiesAgree' /\ SavesAgree' /\ Numbered'
<1>0. /\ up \in [Node -> BOOLEAN] /\ localMax \in [Node -> 0..MaxLocal]
      /\ disk \in [Node -> [BlockID -> Content]]
  BY DEF CopyInv, ListInv, TypeOK, MemoryOK
<1>1. PICK T \in SUBSET Writing(n) :
        disk' = [disk EXCEPT ![n] =
                   [id \in BlockID |-> IF id \in T THEN Torn ELSE disk[n][id]]]
  BY DEF Crash
<1>2. /\ up' = [up EXCEPT ![n] = FALSE] /\ localMax' = [localMax EXCEPT ![n] = 0]
      /\ UNCHANGED <<gen, deleted>>
  BY DEF Crash
<1>3. ASSUME NEW k \in Node, NEW id \in BlockID
      PROVE  disk'[k][id] = disk[k][id] \/ (disk'[k][id] = Torn /\ disk[k][id] = 0)
  <2>1. CASE k = n /\ id \in T
    BY <1>0, <1>1, <2>1 DEF Writing
  <2>2. CASE ~(k = n /\ id \in T)  BY <1>0, <1>1, <2>2
  <2> QED  BY <2>1, <2>2
<1>4. CopiesAgree'
  <2>1. ASSUME NEW id \in BlockID, id \notin deleted
        PROVE  /\ \A k \in Node : disk'[k][id] \in {0, Torn, gen[id]}
               /\ gen[id] > 0 => disk'[id[1]][id] # 0
    <3>1. /\ \A k \in Node : disk[k][id] \in {0, Torn, gen[id]}
          /\ gen[id] > 0 => disk[id[1]][id] # 0
      BY <2>1 DEF CopyInv, CopiesAgree, Holds
    <3>2. id[1] \in Node /\ Torn # 0  BY BlockParts DEF Torn
    <3> QED  BY <1>3, <3>1, <3>2
  <2> QED  BY <1>2, <2>1 DEF CopiesAgree, Holds
<1>5. SavesAgree'
  <2>1. ASSUME NEW s \in Slot, task'[s].pc = "save"  PROVE task'[s] = task[s]
    <3>1. Idle.pc = "idle"  BY DEF Idle, NewTask
    <3>2. task[s] \in Task  BY DEF CopyInv, ListInv, TypeOK, TasksOK
    <3>3. [task[s] EXCEPT !.pc = "next", !.conn = NoSlot].pc = "next"  BY <3>2 DEF Task
    <3> QED  BY <2>1, <3>1, <3>3 DEF Crash
  <2> QED  BY <1>2, <2>1 DEF CopyInv, SavesAgree
<1>6. Numbered'
  <2>1. ASSUME NEW id \in BlockID, up'[id[1]], id \notin deleted, gen[id] > 0
        PROVE  id[2] <= localMax'[id[1]]
    <3>1. id[1] \in Node  BY BlockParts
    <3>2. id[1] # n  BY <1>0, <1>2, <2>1
    <3>3. up[id[1]] /\ localMax'[id[1]] = localMax[id[1]]
      BY <1>0, <1>2, <2>1, <3>1, <3>2
    <3> QED  BY <2>1, <3>3 DEF CopyInv, Numbered
  <2> QED  BY <1>2, <2>1 DEF Numbered
<1> QED  BY <1>4, <1>5, <1>6

\* A restart counts on from the highest number it finds, live ones included.
LEMMA CopyRestart ==
  ASSUME CopyInv, NEW n \in Node, Restart(n)
  PROVE  CopiesAgree' /\ SavesAgree' /\ Numbered'
<1>0. up \in [Node -> BOOLEAN] /\ localMax \in [Node -> 0..MaxLocal]
  BY DEF CopyInv, ListInv, TypeOK, MemoryOK
<1>1. PICK k \in {0} \cup OwnNumbers(n) :
        /\ \A j \in OwnNumbers(n) : j <= k
        /\ localMax' = [localMax EXCEPT ![n] = k]
  BY DEF Restart
<1>2. up' = [up EXCEPT ![n] = TRUE] /\ UNCHANGED <<disk, task, gen, deleted>>
  BY DEF Restart
<1>3. ASSUME NEW id \in BlockID, up'[id[1]], id \notin deleted, gen[id] > 0
      PROVE  id[2] <= localMax'[id[1]]
  <2>1. id[1] \in Node  BY BlockParts
  <2>2. CASE id[1] = n
    <3>1. disk[n][id] # 0  BY <1>3, <2>2 DEF CopyInv, CopiesAgree, Holds
    <3>2. id[2] \in OwnNumbers(n)  BY <2>2, <3>1 DEF OwnNumbers
    <3> QED  BY <1>0, <1>1, <2>1, <2>2, <3>2
  <2>3. CASE id[1] # n
    <3>1. up[id[1]] /\ localMax'[id[1]] = localMax[id[1]]
      BY <1>0, <1>1, <1>2, <1>3, <2>1, <2>3
    <3> QED  BY <1>3, <3>1 DEF CopyInv, Numbered
  <2> QED  BY <2>2, <2>3
<1>4. Numbered'  BY <1>2, <1>3 DEF Numbered
<1> QED  BY <1>2, <1>4 DEF CopyInv, CopiesAgree, Holds, SavesAgree

LEMMA CopyStep ==
  ASSUME CopyInv, [Next]_vars
  PROVE  CopyInv'
<1>0. ListInv'  BY ListStep DEF CopyInv
<1> SUFFICES CopiesAgree' /\ SavesAgree' /\ Numbered'
  BY <1>0 DEF CopyInv
<1>1. CASE UNCHANGED vars
  BY <1>1 DEF vars, CopyInv, CopiesAgree, Holds, SavesAgree, Numbered
<1>2. CASE Operation  BY <1>2, CopyOperation
<1>3. CASE \E s \in Slot : TaskStep(s)  BY <1>3, CopyTask
<1>4. CASE Handle  BY <1>4, CopyHandle
<1>5. CASE Environment
  <2>1. ASSUME NEW n \in Node, LoseRoute(n)
        PROVE  CopiesAgree' /\ SavesAgree' /\ Numbered'
    BY <2>1 DEF LoseRoute, CopyInv, CopiesAgree, Holds, SavesAgree, Numbered
  <2> QED  BY <1>5, <2>1, CopyCrash, CopyRestart DEF Environment
<1> QED  BY <1>1, <1>2, <1>3, <1>4, <1>5 DEF Next

LEMMA CopyCorrect == Spec => []CopyInv
BY CopyInit, CopyStep, PTL DEF Spec

\* In every cluster, whatever crashes and restarts, every whole copy of a block
\* that was not deleted is that block, and its owner keeps a file of it.
THEOREM CopiesCorrect == Spec => []CopiesAgree
<1>1. CopyInv => CopiesAgree  BY DEF CopyInv
<1> QED  BY <1>1, CopyCorrect, PTL

-----------------------------------------------------------------------------
(***************************************************************************)
(* The block layer is the store of blocks of module BlockRegister.  A read *)
(* answers when a get comes to "done", with nothing or with what a disk    *)
(* holds; that is the block by CopiesAgree, and one of its id's earlier    *)
(* blocks when the deletion was accepted.  A new block has a free id by    *)
(* Numbered.                                                               *)
(***************************************************************************)

\* Every block an id ever had, or the rest of one.
Blocks(id) == {Torn} \cup 0..gen[id]

\* What is on a disk, and what is about to be.
Bounded ==
  /\ \A n \in Node, id \in BlockID : disk[n][id] \in Blocks(id)
  /\ \A s \in Slot : task[s].pc = "save" => task[s].data \in Blocks(task[s].block)

\* Only a block that was saved is read, and nothing comes before the answer.
Asks(t) ==
  /\ t.pc # "idle" /\ t.op = "get" => gen[t.block] > 0 /\ (t.pc # "done" => t.data = 0)
  /\ t.pc = "done" => t.op = "get"
Asked == \A s \in Slot : Asks(task[s])

RegInv == Bounded /\ Asked

\* The blocks of an id only become more.
MoreBlocks == \A id \in BlockID : gen[id] \in Nat /\ gen'[id] \in Nat /\ gen[id] <= gen'[id]

LEMMA GenMore ==
  ASSUME TypeOK, [Next]_vars
  PROVE  MoreBlocks
<1>1. gen \in [BlockID -> Nat]
  BY DEF TypeOK, MemoryOK
<1>2. UNCHANGED gen \/ \E n \in Node : Save(n)
  <2>1. CASE Operation
    BY <2>1 DEF Operation, SaveFails, CheckAllReplica, Get, Delete
  <2>2. ASSUME NEW s \in Slot, TaskStep(s) PROVE UNCHANGED gen
    BY <2>2 DEF TaskStep, NextPass, AskBlock, CheckLost, CheckAlive, Verdict, CheckDone,
       AskRemote, WaitEnd, Choose, Load, LoadFails, Deliver, DetailLost, UseDelete,
       UseDoDelete, EraseLocal, UseReplica, Pick, SendCopy, CopyRefused, SaveCopy,
       SaveCopyFails, ReplicaAck, ReplicaDone
  <2>3. CASE Handle
    BY <2>3 DEF Handle, HandleRequestBlockLocation, HandleRequestBlockLocationACK,
       HandleUpdateReplica, HandleDeleteBlock, HandleDoReplica, HandleDoDelete
  <2>4. CASE Environment
    BY <2>4 DEF Environment, Crash, Restart, LoseRoute
  <2> QED
    BY <2>1, <2>2, <2>3, <2>4 DEF Next, vars
<1>3. ASSUME NEW n \in Node, Save(n), NEW id \in BlockID
      PROVE  gen'[id] \in {gen[id], gen[id] + 1}
  BY <1>1, <1>3 DEF Save
<1> QED
  BY <1>1, <1>2, <1>3 DEF MoreBlocks

-----------------------------------------------------------------------------
(* Bounded.                                                                *)

LEMMA BoundFrame ==
  ASSUME TypeOK, Bounded, MoreBlocks,
         \A n \in Node, id \in BlockID :
           disk'[n][id] = disk[n][id] \/ disk'[n][id] \in Blocks(id)',
         \A s \in Slot : task'[s].pc = "save" => SameSave(s)
  PROVE  Bounded'
<1>1. \A id \in BlockID : Blocks(id) \subseteq Blocks(id)' /\ 0 \in Blocks(id)
  BY DEF Blocks, MoreBlocks
<1>2. \A s \in Slot : task[s].pc = "save" => task[s].block \in BlockID
  BY DEF TypeOK, TasksOK, Ready
<1>3. \A n \in Node, id \in BlockID : disk'[n][id] \in Blocks(id)'
  BY <1>1 DEF Bounded
<1>4. ASSUME NEW s \in Slot, task'[s].pc = "save"
      PROVE  (task[s].data \in Blocks(task[s].block))'
  <2>1. /\ task[s].data \in Blocks(task[s].block) /\ task[s].block \in BlockID
        /\ task'[s].data = task[s].data /\ task'[s].block = task[s].block
    BY <1>2, <1>4 DEF Bounded, SameSave
  <2> QED
    BY <2>1 DEF Blocks, MoreBlocks
<1> QED
  BY <1>3, <1>4 DEF Bounded

LEMMA BoundStep ==
  ASSUME CopyInv, Bounded, [Next]_vars
  PROVE  Bounded'
<1>0. TypeOK /\ MoreBlocks
  BY GenMore DEF CopyInv, ListInv
<1>1. /\ disk \in [Node -> [BlockID -> Content]] /\ task \in [Slot -> Task]
      /\ localMax \in [Node -> 0..MaxLocal] /\ gen \in [BlockID -> Nat]
      /\ \A id \in BlockID : 0 \in Blocks(id)' /\ Torn \in Blocks(id)'
                            /\ Blocks(id) \subseteq Blocks(id)'
  BY <1>0 DEF TypeOK, MemoryOK, TasksOK, Blocks, MoreBlocks
<1> DEFINE DiskFine ==
             \A n \in Node, id \in BlockID :
               disk'[n][id] = disk[n][id] \/ disk'[n][id] \in Blocks(id)'
           SameSaves == \A s \in Slot : task'[s].pc = "save" => SameSave(s)
<1>2. ASSUME NEW n, NEW id, Remove(n, id) PROVE DiskFine
  BY <1>1, <1>2 DEF Remove
<1>3. ASSUME NEW u \in Slot, Load(u) PROVE Bounded'
  <2> DEFINE id == task[u].block
             v == disk[task[u].peer][id]
             t == [task[u] EXCEPT !.pc = IF task[u].op = "get" THEN "done" ELSE "save",
                                  !.data = v]
  <2>1. /\ Step(u, t) /\ task[u].pc = "load"
        /\ UNCHANGED <<disk, gen>>
    BY <1>3 DEF Load
  <2>2. /\ task[u] \in Task /\ task[u].peer \in Node /\ id \in BlockID
    BY <1>0, <2>1 DEF TypeOK, TasksOK, Ready
  <2>3. t.data = v /\ t.block = id /\ v \in Blocks(id)
    BY <2>2 DEF Task, Bounded
  <2> HIDE DEF t, v, id
  <2>4. \A s \in Slot : task'[s] = IF s = u THEN t ELSE task[s]
    BY <1>1, <2>1 DEF Step
  <2> QED
    BY <2>1, <2>3, <2>4 DEF Bounded, Blocks
<1>4. ASSUME NEW u \in Slot, SaveCopy(u) PROVE DiskFine /\ SameSaves
  <2>1. /\ task[u].pc = "save"
        /\ disk' = [disk EXCEPT ![task[u].node][task[u].block] = task[u].data]
    BY <1>4 DEF SaveCopy
  <2>2. task[u].data \in Blocks(task[u].block)
    BY <2>1 DEF Bounded
  <2>3. DiskFine
    BY <1>1, <2>1, <2>2
  <2> QED
    BY <1>4, <2>3, UseSaves DEF CopyInv
<1>5. ASSUME NEW u \in Slot, TaskStep(u), ~Load(u), ~SaveCopy(u) PROVE DiskFine /\ SameSaves
  <2>1. SameSaves
    BY <1>0, <1>5, AskSaves, UseSaves DEF CopyInv, TaskStep
  <2>2. CASE EraseLocal(u)
    BY <1>2, <2>1, <2>2 DEF EraseLocal
  <2>3. CASE ~EraseLocal(u)
    <3>1. UNCHANGED disk
      BY <1>5, <2>3 DEF TaskStep, NextPass, AskBlock, CheckLost, CheckAlive, Verdict,
         CheckDone, AskRemote, WaitEnd, Choose, LoadFails, Deliver, DetailLost, UseDelete,
         UseDoDelete, UseReplica, Pick, SendCopy, CopyRefused, SaveCopyFails, ReplicaAck,
         ReplicaDone
    <3> QED
      BY <2>1, <3>1
  <2> QED
    BY <2>2, <2>3
<1>6. CASE Operation
  <2>1. ASSUME NEW n \in Node, Save(n) PROVE DiskFine /\ SameSaves
    <3> DEFINE new == <<n, localMax[n] + 1>>
    <3>1. /\ disk' = [disk EXCEPT ![n][new] = gen[new] + 1] /\ UNCHANGED task
          /\ gen' = [gen EXCEPT ![new] = gen[new] + 1]
      BY <2>1 DEF Save
    <3> HIDE DEF new
    <3>2. ASSUME NEW k \in Node, NEW id \in BlockID
          PROVE  disk'[k][id] = disk[k][id] \/ disk'[k][id] \in Blocks(id)'
      <4>1. disk'[k][id] = disk[k][id] \/ (id = new /\ disk'[k][id] = gen[new] + 1)
        BY <1>1, <3>1
      <4>2. id = new => gen'[id] = gen[new] + 1 /\ gen[new] \in Nat
        BY <1>1, <3>1
      <4> QED
        BY <4>1, <4>2 DEF Blocks
    <3> QED
      BY <3>1, <3>2 DEF SameSave
  <2>2. ASSUME NEW n \in Node, SaveFails(n) PROVE DiskFine /\ SameSaves
    BY <2>2 DEF SaveFails, SameSave
  <2>3. ASSUME NEW n \in Node, NEW s \in Slot,
               \/ CheckAllReplica(s, n)
               \/ \E id \in BlockID : Get(s, n, id) \/ Delete(s, n, id)
        PROVE  DiskFine /\ SameSaves
    <3>1. PICK t : Step(s, t) /\ t.pc # "save"
      BY <1>0, <2>3, PhaseFacts DEF CheckAllReplica, Get, Delete, Begin
    <3>2. UNCHANGED disk
      BY <2>3 DEF CheckAllReplica, Get, Delete
    <3> QED
      BY <1>0, <3>1, <3>2, StepSaves
  <2> QED
    BY <1>0, <1>6, <2>1, <2>2, <2>3, BoundFrame DEF Operation
<1>7. CASE Handle
  <2>1. PICK m \in msgs :
          \/ HandleRequestBlockLocation(m) \/ HandleRequestBlockLocationACK(m)
          \/ HandleUpdateReplica(m) \/ HandleDeleteBlock(m)
          \/ \E s \in Slot : HandleDoReplica(s, m) \/ HandleDoDelete(s, m)
    BY <1>7 DEF Handle
  <2>2. DiskFine
    <3>1. CASE HandleDeleteBlock(m)
      BY <1>2, <3>1 DEF HandleDeleteBlock
    <3>2. CASE ~HandleDeleteBlock(m)
      BY <2>1, <3>2 DEF HandleRequestBlockLocation, HandleRequestBlockLocationACK,
         HandleUpdateReplica, HandleDoReplica, HandleDoDelete
    <3> QED
      BY <3>1, <3>2
  <2>3. CASE \E s \in Slot : HandleDoReplica(s, m) \/ HandleDoDelete(s, m)
    <3>1. PICK s \in Slot : \E t : Step(s, t) /\ t.pc # "save"
      BY <1>0, <2>3, PhaseFacts DEF HandleDoReplica, HandleDoDelete, Begin
    <3> QED
      BY <1>0, <2>2, <3>1, StepSaves, BoundFrame
  <2>4. CASE UNCHANGED task
    BY <1>0, <2>2, <2>4, BoundFrame DEF SameSave
  <2> QED
    BY <2>1, <2>3, <2>4 DEF HandleRequestBlockLocation, HandleRequestBlockLocationACK,
       HandleUpdateReplica, HandleDeleteBlock
<1>8. CASE Environment
  <2>1. ASSUME NEW n \in Node, Crash(n) PROVE DiskFine /\ SameSaves
    <3>1. DiskFine
      <4>1. PICK T \in SUBSET Writing(n) :
              disk' = [disk EXCEPT ![n] =
                         [id \in BlockID |-> IF id \in T THEN Torn ELSE @[id]]]
        BY <2>1 DEF Crash
      <4> QED
        BY <1>1, <4>1
    <3>2. ASSUME NEW s \in Slot, task'[s].pc = "save" PROVE SameSave(s)
      <4>1. Idle.pc = "idle" /\ task[s] \in Task
        BY <1>1 DEF Idle, NewTask
      <4>2. [task[s] EXCEPT !.pc = "next", !.conn = NoSlot].pc = "next"
        BY <4>1 DEF Task
      <4>3. task'[s] = task[s]
        BY <2>1, <3>2, <4>1, <4>2 DEF Crash
      <4> QED
        BY <3>2, <4>3 DEF SameSave
    <3> QED
      BY <3>1, <3>2
  <2>2. ASSUME NEW n \in Node, Restart(n) \/ LoseRoute(n) PROVE DiskFine /\ SameSaves
    BY <2>2 DEF Restart, LoseRoute, SameSave
  <2> QED
    BY <1>0, <1>8, <2>1, <2>2, BoundFrame DEF Environment
<1>9. CASE UNCHANGED vars
  BY <1>0, <1>9, BoundFrame DEF vars, SameSave
<1> QED
  BY <1>0, <1>3, <1>4, <1>5, <1>6, <1>7, <1>8, <1>9, BoundFrame DEF Next

-----------------------------------------------------------------------------
(* Asked.                                                                  *)

\* A handler that neither starts to ask for a block to read nor answers: it stays
\* as it is, ends, does something else, or goes on with what it asks for.
Quiet(s) ==
  \/ task'[s] = task[s]
  \/ /\ task'[s].pc # "done"
     /\ task'[s].pc # "idle" /\ task'[s].op = "get" =>
          /\ task[s].pc \notin {"idle", "done"} /\ task[s].op = "get"
          /\ task'[s].block = task[s].block /\ task'[s].data = task[s].data

LEMMA QuietAsked ==
  ASSUME TypeOK, Asked, MoreBlocks, \A s \in Slot : Quiet(s)
  PROVE  Asked'
<1> SUFFICES ASSUME NEW s \in Slot PROVE Asks(task[s])'
  BY DEF Asked
<1>1. Asks(task[s]) /\ (task[s].pc # "idle" => task[s].block \in BlockID)
  BY DEF Asked, TypeOK, TasksOK, Ready
<1>2. ASSUME task[s].pc # "idle", gen[task[s].block] > 0 PROVE gen'[task[s].block] > 0
  BY <1>1, <1>2 DEF MoreBlocks
<1>3. CASE task'[s] = task[s]
  BY <1>1, <1>2, <1>3 DEF Asks
<1>4. CASE task'[s] # task[s]
  BY <1>1, <1>2, <1>4 DEF Asks, Quiet
<1> QED
  BY <1>3, <1>4

\* A handler for something else that starts alone, or one that ends.
LEMMA StartQuiet ==
  ASSUME TypeOK, NEW u \in Slot, NEW t, Step(u, t), t.pc # "done",
         t.pc = "idle" \/ t.op # "get"
  PROVE  \A s \in Slot : Quiet(s)
BY DEF TypeOK, TasksOK, Step, Quiet

\* What a task makes of others when it hangs up, sends or saves.
LEMMA OthersQuiet ==
  ASSUME TypeOK, NEW u \in Slot, HangUp(u) \/ SendCopy(u) \/ SaveCopy(u)
  PROVE  \A s \in Slot : Quiet(s)
<1> SUFFICES ASSUME NEW s \in Slot PROVE Quiet(s)
  OBVIOUS
<1>1. /\ task \in [Slot -> Task] /\ task[s] \in Task /\ task[u] \in Task
      /\ Idle.pc = "idle"
  BY DEF TypeOK, TasksOK, Idle, NewTask
<1> DEFINE Freed(p) == [task[s] EXCEPT !.pc = p, !.conn = NoSlot]
<1>2. \A p : /\ Freed(p).pc = p /\ Freed(p).op = task[s].op
             /\ Freed(p).block = task[s].block /\ Freed(p).data = task[s].data
  BY <1>1 DEF Task
<1> HIDE DEF Freed
<1>3. CASE HangUp(u) \/ SaveCopy(u)
  <2>1. \/ task'[s] = task[s] \/ task'[s] = Idle
        \/ task[s].pc = "copying" /\ task'[s] \in {Freed("next"), Freed("acked")}
    BY <1>3 DEF HangUp, SaveCopy, Freed
  <2> QED
    BY <1>1, <1>2, <2>1 DEF Quiet
<1>4. CASE SendCopy(u)
  <2>1. PICK m \in task[u].machine, c \in Slot :
          /\ task[u].pc = "next"
          /\ task' = [task EXCEPT
               ![u] = [task[u] EXCEPT !.pc = "copying", !.peer = m, !.conn = c,
                         !.machine = task[u].machine \ {m}],
               ![c] = [NewTask("load", "copy", m, task[u].block, {})
                         EXCEPT !.peer = task[u].node]]
    BY <1>4 DEF SendCopy
  <2> DEFINE t == [task[u] EXCEPT !.pc = "copying", !.peer = m, !.conn = c,
                                  !.machine = task[u].machine \ {m}]
             k == [NewTask("load", "copy", m, task[u].block, {})
                     EXCEPT !.peer = task[u].node]
  <2>2. /\ t.pc = "copying" /\ t.op = task[u].op
        /\ t.block = task[u].block /\ t.data = task[u].data
    BY <1>1 DEF Task
  <2>3. k.pc = "load" /\ k.op = "copy"
    BY DEF NewTask
  <2>4. task'[s] = task[s] \/ (s = u /\ task'[s] = t) \/ task'[s] = k
    <3> HIDE DEF t, k
    <3> QED
      BY <1>1, <2>1 DEF t, k
  <2> HIDE DEF t, k
  <2> QED
    BY <2>1, <2>2, <2>3, <2>4 DEF Quiet
<1> QED
  BY <1>3, <1>4

\* The same of a crash.
LEMMA CrashQuiet ==
  ASSUME TypeOK, NEW n \in Node, Crash(n)
  PROVE  \A s \in Slot : Quiet(s)
<1> SUFFICES ASSUME NEW s \in Slot PROVE Quiet(s)
  OBVIOUS
<1>1. task[s] \in Task /\ Idle.pc = "idle"
  BY DEF TypeOK, TasksOK, Idle, NewTask
<1> DEFINE t == [task[s] EXCEPT !.pc = "next", !.conn = NoSlot]
<1>2. /\ t.pc = "next" /\ t.op = task[s].op
      /\ t.block = task[s].block /\ t.data = task[s].data
  BY <1>1 DEF Task
<1>3. task'[s] = task[s] \/ task'[s] = Idle \/ (task[s].pc = "copying" /\ task'[s] = t)
  BY DEF Crash
<1> HIDE DEF t
<1> QED
  BY <1>1, <1>2, <1>3 DEF Quiet

\* The operations and handlers other than a get.
LEMMA CallQuiet ==
  ASSUME TypeOK, Operation \/ Handle,
         ~ \E s \in Slot, n \in Node, id \in BlockID : Get(s, n, id)
  PROVE  \A s \in Slot : Quiet(s)
<1>1. /\ \A n, id, op, S : /\ NewTask("ask", op, n, id, S).pc = "ask"
                           /\ NewTask("ask", op, n, id, S).op = op
      /\ \A n, id : PassTask(n, id).pc = "ask" /\ PassTask(n, id).op = "pass"
  BY DEF PassTask, NewTask
<1>2. ASSUME UNCHANGED task PROVE \A s \in Slot : Quiet(s)
  BY <1>2 DEF Quiet
<1>3. CASE Operation
  <2>1. ASSUME NEW n \in Node, Save(n) \/ SaveFails(n) PROVE UNCHANGED task
    BY <2>1 DEF Save, SaveFails
  <2>2. ASSUME NEW n \in Node, NEW s \in Slot,
               CheckAllReplica(s, n) \/ \E id \in BlockID : Delete(s, n, id)
        PROVE  \E t : Step(s, t) /\ t.pc # "done" /\ t.op # "get"
    BY <1>1, <2>2 DEF CheckAllReplica, Delete, Begin
  <2> QED
    BY <1>2, <1>3, <2>1, <2>2, StartQuiet DEF Operation
<1>4. CASE Handle
  <2>1. PICK m \in msgs :
          \/ HandleRequestBlockLocation(m) \/ HandleRequestBlockLocationACK(m)
          \/ HandleUpdateReplica(m) \/ HandleDeleteBlock(m)
          \/ \E s \in Slot : HandleDoReplica(s, m) \/ HandleDoDelete(s, m)
    BY <1>4 DEF Handle
  <2>2. ASSUME NEW s \in Slot, HandleDoReplica(s, m) \/ HandleDoDelete(s, m)
        PROVE  \E t : Step(s, t) /\ t.pc # "done" /\ t.op # "get"
    BY <1>1, <2>2 DEF HandleDoReplica, HandleDoDelete, Begin
  <2>3. UNCHANGED task \/ \E s \in Slot : HandleDoReplica(s, m) \/ HandleDoDelete(s, m)
    BY <2>1 DEF HandleRequestBlockLocation, HandleRequestBlockLocationACK,
       HandleUpdateReplica, HandleDeleteBlock
  <2> QED
    BY <1>2, <2>2, <2>3, StartQuiet
<1> QED
  BY <1>3, <1>4

LEMMA AskedStep ==
  ASSUME TypeOK, Asked, [Next]_vars
  PROVE  Asked'
<1>0. MoreBlocks /\ task \in [Slot -> Task]
  BY GenMore DEF TypeOK, TasksOK
<1>1. ASSUME \A s \in Slot : Quiet(s) PROVE Asked'
  BY <1>0, <1>1, QuietAsked
<1>2. ASSUME NEW u \in Slot, NEW n \in Node, NEW id \in BlockID, Get(u, n, id)
      PROVE  Asked'
  <2> DEFINE t == NewTask("ask", "get", n, id, {})
  <2>1. Step(u, t) /\ gen[id] > 0 /\ UNCHANGED gen
    BY <1>2 DEF Get, Begin
  <2>2. t.pc = "ask" /\ t.block = id /\ t.data = 0
    BY DEF NewTask
  <2> HIDE DEF t
  <2> QED
    BY <1>0, <2>1, <2>2 DEF Asked, Asks, Step
<1>3. ASSUME NEW u \in Slot, TaskStep(u) PROVE Asked'
  <2>1. task[u].pc # "idle" /\ UNCHANGED gen
    BY <1>3, StepAwake DEF TaskStep, NextPass, AskBlock, CheckLost, CheckAlive, Verdict,
       CheckDone, AskRemote, WaitEnd, Choose, Load, LoadFails, Deliver, DetailLost,
       UseDelete, UseDoDelete, EraseLocal, UseReplica, Pick, SendCopy, CopyRefused,
       SaveCopy, SaveCopyFails, ReplicaAck, ReplicaDone
  <2>2. CASE Moves(u)
    <3>1. PICK t : Step(u, t) /\ Follows(task[u], t)
      BY <2>2 DEF Moves
    <3>2. ASSUME NEW s \in Slot PROVE task'[s] = IF s = u THEN t ELSE task[s]
      BY <1>0, <3>1 DEF Step
    <3>3. Asks(t)
      BY <2>1, <3>1 DEF Follows, Asked, Asks
    <3> QED
      BY <2>1, <3>2, <3>3 DEF Asked, Asks
  <2>3. CASE HangUp(u) \/ SendCopy(u) \/ SaveCopy(u)
    BY <1>1, <2>3, OthersQuiet
  <2>4. CASE Load(u)
    <3> DEFINE t == [task[u] EXCEPT
                       !.pc = IF task[u].op = "get" THEN "done" ELSE "save",
                       !.data = disk[task[u].peer][task[u].block]]
    <3>1. Step(u, t)
      BY <2>4 DEF Load
    <3>2. /\ t.op = task[u].op /\ t.block = task[u].block
          /\ t.pc = IF task[u].op = "get" THEN "done" ELSE "save"
      BY <1>0 DEF Task
    <3> HIDE DEF t
    <3>3. ASSUME NEW s \in Slot PROVE task'[s] = IF s = u THEN t ELSE task[s]
      BY <1>0, <3>1 DEF Step
    <3>4. Asks(t)
      BY <2>1, <3>2 DEF Asked, Asks
    <3> QED
      BY <2>1, <3>3, <3>4 DEF Asked, Asks
  <2> QED
    BY <1>3, <2>2, <2>3, <2>4, AskMoves, UseMoves DEF TaskStep, SaveCopyFails
<1>4. CASE Environment
  <2>1. ASSUME NEW n \in Node, Restart(n) \/ LoseRoute(n) PROVE \A s \in Slot : Quiet(s)
    BY <2>1 DEF Restart, LoseRoute, Quiet
  <2> QED
    BY <1>1, <1>4, <2>1, CrashQuiet DEF Environment
<1>5. CASE UNCHANGED vars
  BY <1>1, <1>5 DEF vars, Quiet
<1> QED
  BY <1>1, <1>2, <1>3, <1>4, <1>5, CallQuiet DEF Next

-----------------------------------------------------------------------------
(* The refinement.                                                         *)

\* What the slots' readers were given (the instance of BlockRegister).
Given == [s \in Slot |-> IF task[s].pc = "done" THEN task[s].data ELSE -2]

LEMMA RegisterParts ==
  /\ \A b : Register!SaveBlock(b) <=>
       /\ gen[b] = 0 \/ b \in deleted
       /\ gen' = [gen EXCEPT ![b] = @ + 1]
       /\ UNCHANGED <<deleted, Given>>
  /\ \A b : Register!AcceptDelete(b) <=>
       deleted' = deleted \cup {b} /\ UNCHANGED <<gen, Given>>
  /\ \A r, b : Register!Read(r, b) <=>
       /\ Given[r] = -2 /\ gen[b] > 0
       /\ \E v \in {0, gen[b], Torn} \cup (IF b \in deleted THEN 0..gen[b] ELSE {}) :
            Given' = [Given EXCEPT ![r] = v]
       /\ UNCHANGED <<gen, deleted>>
  /\ \A R : Register!Take(R) <=>
       /\ Given' = [r \in Slot |-> IF r \in R THEN -2 ELSE Given[r]]
       /\ UNCHANGED <<gen, deleted>>
BY DEF Register!SaveBlock, Register!AcceptDelete, Register!Read, Register!Take,
   Register!Answers, Register!None, Given

\* A step that answers nobody leaves each reader what it has, or takes it.
LEMMA SilentTakes ==
  ASSUME UNCHANGED <<gen, deleted>>,
         \A s \in Slot : task'[s].pc = "done" =>
           task[s].pc = "done" /\ task'[s].data = task[s].data
  PROVE  Register!RNext
<1>1. PICK R \in SUBSET Slot : R = {s \in Slot : task'[s].pc # "done"}
  OBVIOUS
<1>2. Given' = [s \in Slot |-> IF s \in R THEN -2 ELSE Given[s]]
  BY <1>1 DEF Given
<1>3. Register!Take(R)
  BY <1>2, RegisterParts
<1> QED
  BY <1>3 DEF Register!RNext

LEMMA QuietTakes ==
  ASSUME UNCHANGED <<gen, deleted>>, \A s \in Slot : Quiet(s)
  PROVE  Register!RNext
BY SilentTakes DEF Quiet

\* A get that answers reads.
LEMMA AnswerReads ==
  ASSUME TypeOK, UNCHANGED <<gen, deleted>>, NEW u \in Slot, NEW t, Step(u, t),
         task[u].pc # "done", t.pc = "done", NEW b \in BlockID, gen[b] > 0,
         t.data \in {0, gen[b], Torn} \cup (IF b \in deleted THEN 0..gen[b] ELSE {})
  PROVE  Register!RNext
<1>1. task \in [Slot -> Task]
  BY DEF TypeOK, TasksOK
<1>2. ASSUME NEW s \in Slot PROVE task'[s] = IF s = u THEN t ELSE task[s]
  BY <1>1 DEF Step
<1>3. Given[u] = -2 /\ Given' = [Given EXCEPT ![u] = t.data]
  BY <1>2 DEF Given
<1>4. Register!Read(u, b)
  BY <1>3, RegisterParts
<1> QED
  BY <1>4 DEF Register!RNext

LEMMA SaveMaps ==
  ASSUME CopyInv, NEW n \in Node, Save(n)
  PROVE  Register!RNext
<1> DEFINE new == <<n, localMax[n] + 1>>
<1>1. /\ up[n] /\ n \in Uploader /\ localMax[n] < MaxLocal /\ localMax[n] \in 0..MaxLocal
      /\ gen' = [gen EXCEPT ![new] = @ + 1] /\ UNCHANGED <<task, deleted>>
  BY DEF Save, CopyInv, ListInv, TypeOK, MemoryOK
<1>2. localMax[n] \in Nat /\ localMax[n] + 1 \in 1..MaxLocal
  BY <1>1, BoundAssumption
<1>3. new \in BlockID
  BY <1>1, <1>2 DEF BlockID
<1>4. gen[new] \in Nat
  BY <1>3 DEF CopyInv, ListInv, TypeOK, MemoryOK
<1>5. gen[new] = 0 \/ new \in deleted
  <2>1. gen[new] > 0 /\ new \notin deleted => new[2] <= localMax[new[1]]
    BY <1>1, <1>3 DEF CopyInv, Numbered
  <2>2. new[1] = n /\ new[2] = localMax[n] + 1
    OBVIOUS
  <2> HIDE DEF new
  <2> QED
    BY <1>2, <1>4, <2>1, <2>2
<1>6. Register!SaveBlock(new)
  BY <1>1, <1>5, RegisterParts DEF Given
<1> QED
  BY <1>3, <1>6 DEF Register!RNext

LEMMA TaskMaps ==
  ASSUME CopyInv, RegInv, NEW u \in Slot, TaskStep(u)
  PROVE  Register!RNext
<1>0. TypeOK /\ Bounded /\ Asks(task[u])
  BY DEF CopyInv, ListInv, RegInv, Asked
<1>1. task \in [Slot -> Task] /\ task[u] \in Task /\ gen \in [BlockID -> Nat]
  BY <1>0 DEF TypeOK, MemoryOK, TasksOK
<1>2. task[u].pc # "idle" /\ task[u].block \in BlockID
  BY <1>0, StepAwake DEF TypeOK, TasksOK, Ready
<1>3. UNCHANGED gen
  BY DEF TaskStep, NextPass, AskBlock, CheckLost, CheckAlive, Verdict,
     CheckDone, AskRemote, WaitEnd, Choose, Load, LoadFails, Deliver, DetailLost,
     UseDelete, UseDoDelete, EraseLocal, UseReplica, Pick, SendCopy, CopyRefused,
     SaveCopy, SaveCopyFails, ReplicaAck, ReplicaDone
<1>4. UseDoDelete(u) \/ UNCHANGED deleted
  BY DEF TaskStep, NextPass, AskBlock, CheckLost, CheckAlive, Verdict,
     CheckDone, AskRemote, WaitEnd, Choose, Load, LoadFails, Deliver, DetailLost,
     UseDelete, EraseLocal, UseReplica, Pick, SendCopy, CopyRefused,
     SaveCopy, SaveCopyFails, ReplicaAck, ReplicaDone
<1>5. CASE UseDoDelete(u)
  <2>1. /\ task[u].pc = "use" /\ deleted' = deleted \cup {task[u].block}
        /\ Step(u, Asking(u, "erase")) /\ Asking(u, "erase").pc = "erase"
    BY <1>0, <1>5, PhaseFacts DEF UseDoDelete
  <2>2. UNCHANGED Given
    BY <1>1, <2>1 DEF Given, Step
  <2>3. Register!AcceptDelete(task[u].block)
    BY <1>3, <2>1, <2>2, RegisterParts
  <2> QED
    BY <1>2, <2>3 DEF Register!RNext
<1>6. CASE Moves(u) /\ ~UseDoDelete(u)
  <2>1. PICK t : Step(u, t) /\ Follows(task[u], t)
    BY <1>6 DEF Moves
  <2>2. ASSUME NEW s \in Slot PROVE task'[s] = IF s = u THEN t ELSE task[s]
    BY <1>1, <2>1 DEF Step
  <2>3. CASE t.pc # "done"
    BY <1>3, <1>4, <1>6, <2>2, <2>3, SilentTakes
  <2>4. CASE t.pc = "done"
    <3>1. task[u].pc # "done" /\ gen[task[u].block] > 0 /\ t.data = 0
      BY <1>0, <1>2, <2>1, <2>4 DEF Follows, Asks
    <3> QED
      BY <1>0, <1>2, <1>3, <1>4, <1>6, <2>1, <2>4, <3>1, AnswerReads
  <2> QED
    BY <2>3, <2>4
<1>7. CASE (HangUp(u) \/ SendCopy(u) \/ SaveCopy(u)) /\ ~UseDoDelete(u)
  BY <1>0, <1>3, <1>4, <1>7, OthersQuiet, QuietTakes
<1>8. CASE Load(u) /\ ~UseDoDelete(u)
  <2> DEFINE b == task[u].block
             v == disk[task[u].peer][b]
             t == [task[u] EXCEPT !.pc = IF task[u].op = "get" THEN "done" ELSE "save",
                                  !.data = v]
  <2>1. Step(u, t) /\ task[u].pc = "load"
    BY <1>8 DEF Load
  <2>2. t.pc = (IF task[u].op = "get" THEN "done" ELSE "save") /\ t.data = v
    BY <1>1 DEF Task
  <2>3. task[u].peer \in Node
    BY <1>0, <2>1 DEF TypeOK, TasksOK, Ready
  <2>4. v \in Blocks(b) /\ (b \notin deleted => v \in {0, Torn, gen[b]})
    BY <1>0, <1>2, <2>3 DEF Bounded, CopyInv, CopiesAgree
  <2> HIDE DEF t, v
  <2>5. ASSUME NEW s \in Slot PROVE task'[s] = IF s = u THEN t ELSE task[s]
    BY <1>1, <2>1 DEF Step
  <2>6. CASE task[u].op = "get"
    <3>1. gen[b] > 0 /\ t.pc = "done"
      BY <1>0, <2>1, <2>2, <2>6 DEF Asks
    <3>2. v \in {0, gen[b], Torn} \cup (IF b \in deleted THEN 0..gen[b] ELSE {})
      BY <2>4 DEF Blocks
    <3> QED
      BY <1>0, <1>2, <1>3, <1>4, <1>8, <2>1, <2>2, <3>1, <3>2, AnswerReads
  <2>7. CASE task[u].op # "get"
    BY <1>3, <1>4, <1>8, <2>2, <2>5, <2>7, SilentTakes
  <2> QED
    BY <2>6, <2>7
<1> QED
  BY <1>0, <1>5, <1>6, <1>7, <1>8, AskMoves, UseMoves DEF TaskStep, SaveCopyFails

LEMMA RegisterStep ==
  ASSUME CopyInv, RegInv, [Next]_vars
  PROVE  [Register!RNext]_(Register!rvars)
<1>0. TypeOK /\ task \in [Slot -> Task]
  BY DEF CopyInv, ListInv, TypeOK, TasksOK
<1> SUFFICES Register!RNext \/ UNCHANGED <<gen, deleted, Given>>
  BY DEF Register!rvars, Given
<1>1. CASE \E n \in Node : Save(n)
  BY <1>1, SaveMaps
<1>2. CASE \E s \in Slot, n \in Node, id \in BlockID : Get(s, n, id)
  <2>1. PICK s \in Slot, n \in Node, id \in BlockID : Get(s, n, id)
    BY <1>2
  <2>2. /\ UNCHANGED <<gen, deleted>> /\ Step(s, NewTask("ask", "get", n, id, {}))
        /\ NewTask("ask", "get", n, id, {}).pc = "ask"
    BY <2>1 DEF Get, Begin, NewTask
  <2> QED
    BY <1>0, <2>2, SilentTakes DEF Step
<1>3. CASE (Operation \/ Handle) /\ ~(\E n \in Node : Save(n))
           /\ ~(\E s \in Slot, n \in Node, id \in BlockID : Get(s, n, id))
  <2>1. UNCHANGED <<gen, deleted>>
    <3>1. CASE Operation
      BY <1>3, <3>1 DEF Operation, SaveFails, CheckAllReplica, Delete
    <3>2. CASE Handle
      BY <3>2 DEF Handle, HandleRequestBlockLocation, HandleRequestBlockLocationACK,
         HandleUpdateReplica, HandleDeleteBlock, HandleDoReplica, HandleDoDelete
    <3> QED
      BY <1>3, <3>1, <3>2
  <2> QED
    BY <1>0, <1>3, <2>1, CallQuiet, QuietTakes
<1>4. ASSUME NEW s \in Slot, TaskStep(s) PROVE Register!RNext
  BY <1>4, TaskMaps
<1>5. CASE Environment
  <2>1. ASSUME NEW n \in Node, Crash(n) PROVE Register!RNext
    <3>1. UNCHANGED <<gen, deleted>>
      BY <2>1 DEF Crash
    <3> QED
      BY <1>0, <2>1, <3>1, CrashQuiet, QuietTakes
  <2>2. ASSUME NEW n \in Node, Restart(n) \/ LoseRoute(n)
        PROVE  UNCHANGED <<gen, deleted, Given>>
    BY <2>2 DEF Restart, LoseRoute, Given
  <2> QED
    BY <1>5, <2>1, <2>2 DEF Environment
<1>6. CASE UNCHANGED vars
  BY <1>6 DEF vars, Given
<1> QED
  BY <1>1, <1>2, <1>3, <1>4, <1>5, <1>6 DEF Next

\* In every cluster, whatever crashes, is lost or is copied where, a read gives the
\* block that was saved, the rest a crash left of it, or nothing, until the deletion of
\* the block is accepted, and a new block never gets the id of a live one.
THEOREM RegisterCorrect == Spec => ImplementsRegister
<1>1. Init => Register!RInit
  BY DEF Init, Register!RInit, Register!None, Idle, NewTask
<1>2. Init => RegInv
  BY DEF Init, RegInv, Bounded, Asked, Asks, Blocks, Idle, NewTask
<1>3. CopyInv /\ RegInv /\ [Next]_vars => RegInv'
  BY BoundStep, AskedStep DEF RegInv, CopyInv, ListInv
<1>4. CopyInv /\ RegInv /\ [Next]_vars => [Register!RNext]_(Register!rvars)
  BY RegisterStep
<1> QED
  BY CopyCorrect, <1>1, <1>2, <1>3, <1>4, PTL DEF Spec, ImplementsRegister, Register!RSpec
=============================================================================
