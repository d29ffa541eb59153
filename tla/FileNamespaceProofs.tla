------------------------- MODULE FileNamespaceProofs -------------------------
(***************************************************************************)
(* Theorems about the namespace for every set of machines, names, requests *)
(* and bounds: its types; that names stay in directories (Rooted); that a  *)
(* file is whole as long as it is not removed (ListedWhole); that what is  *)
(* removed or abandoned leaves nothing behind (Released); and that the     *)
(* machines agree on a name unless one of the known causes keeps them from *)
(* it (AgreeUnlessConflict).  Each rests on the types; the last two on     *)
(* WholeInv, the invariant of the third.                                   *)
(***************************************************************************)
EXTENDS FileNamespace, TLAPS

-----------------------------------------------------------------------------
(* Bags and functions.                                                     *)

LEMMA BagPlus ==
  ASSUME NEW B, IsABag(B), NEW S
  PROVE  /\ IsABag(B (+) SetToBag(S))
         /\ DOMAIN (B (+) SetToBag(S)) = DOMAIN B \cup S
         /\ \A x \in DOMAIN B \ S : (B (+) SetToBag(S))[x] = B[x]
         /\ \A x \in S \ DOMAIN B : (B (+) SetToBag(S))[x] = 1
BY DEF IsABag, SetToBag, (+)

LEMMA BagMinus ==
  ASSUME NEW B, IsABag(B), NEW m \in DOMAIN B
  PROVE  /\ IsABag(B (-) SetToBag({m}))
         /\ DOMAIN (B (-) SetToBag({m})) \subseteq DOMAIN B
         /\ DOMAIN B \ {m} \subseteq DOMAIN (B (-) SetToBag({m}))
         /\ B[m] = 1 => m \notin DOMAIN (B (-) SetToBag({m}))
         /\ \A x \in DOMAIN B \ {m} : (B (-) SetToBag({m}))[x] = B[x]
BY DEF IsABag, SetToBag, (-)

LEMMA Put ==
  ASSUME NEW A, NEW B, NEW f \in [A -> B], NEW a \in A, NEW v \in B
  PROVE  /\ [f EXCEPT ![a] = v] \in [A -> B] /\ [f EXCEPT ![a] = v][a] = v
         /\ \A x \in A \ {a} : [f EXCEPT ![a] = v][x] = f[x]
OBVIOUS

\* The same for a function of functions.
LEMMA PutIn ==
  ASSUME NEW A, NEW B, NEW C, NEW f \in [A -> [B -> C]], NEW a \in A, NEW b, NEW v \in C
  PROVE  /\ [f EXCEPT ![a][b] = v] \in [A -> [B -> C]]
         /\ \A x \in A \ {a} : [f EXCEPT ![a][b] = v][x] = f[x]
         /\ b \in B => [f EXCEPT ![a][b] = v][a][b] = v
         /\ \A y \in B \ {b} : [f EXCEPT ![a][b] = v][a][y] = f[a][y]
<1>1. [f[a] EXCEPT ![b] = v] \in [B -> C]
  OBVIOUS
<1>2. [f EXCEPT ![a][b] = v] = [f EXCEPT ![a] = [f[a] EXCEPT ![b] = v]]
  OBVIOUS
<1> QED
  BY <1>1, <1>2, Put

-----------------------------------------------------------------------------
(* The types.                                                              *)

\* Broadcasts are for machines that run.
NetOK == IsABag(net) /\ \A m \in BagToSet(net) : m \in Msg /\ m.to \in up

\* What is removed has a meta block.
Proper == {t \in Request : t.pc \in {"rm", "load"} => t.id # 0}

TypeInv ==
  /\ FileTypeOK /\ NetOK
  /\ \A n \in Node \ up : orphan[n] = {}
  /\ task \in [Slot -> Proper \cup {Idle}]

MetaID == Absent..MaxBlocks
Tree == [Path -> MetaID]

\* What a handler is given, by where it is.
LEMMA AtTask ==
  ASSUME TypeInv, NEW s \in Slot, task[s].pc # "idle"
  PROVE  /\ task[s] \in Proper /\ task[s] # Idle
         /\ task[s].n \in up /\ task[s].n \in Node /\ task[s].p \in Path
         /\ task[s].id \in 0..MaxBlocks /\ task[s].data \subseteq 0..MaxBlocks
         /\ task[s].todo \subseteq BlockId
BY DEF TypeInv, FileTypeOK, Idle, Proper, Request

\* A step of one handler, or none.
LEMMA TaskType ==
  ASSUME TypeInv, NEW s \in Slot, NEW t \in Proper \cup {Idle}, t # Idle => t.n \in up',
         task' = [task EXCEPT ![s] = t], up \subseteq up'
  PROVE  /\ task' \in [Slot -> Proper \cup {Idle}]
         /\ \A x \in Slot : task'[x] # Idle => task'[x].n \in up'
         /\ task'[s] = t /\ \A x \in Slot \ {s} : task'[x] = task[x]
BY DEF TypeInv, FileTypeOK

\* A request that goes on.
LEMMA RequestAt ==
  ASSUME NEW t \in Proper, NEW x \in {"data", "add", "tell", "rm", "load", "clean"},
         x = "load" => t.pc = "rm", x # "rm"
  PROVE  [t EXCEPT !.pc = x] \in Proper /\ [t EXCEPT !.pc = x].n = t.n
BY DEF Proper, Request

LEMMA BroadcastType ==
  ASSUME TypeInv, NEW n, NEW cmd \in {"newfile", "newdir", "rmfile"}, NEW p \in Path,
         NEW id \in 0..MaxBlocks, NEW C, Broadcast(n, cmd, p, id, C), up' = up
  PROVE  NetOK'
<1>1. PICK R \in SUBSET (up \ {n}) :
        net' = net (+) SetToBag([to : R, cmd : {cmd}, path : {p}, id : {id}])
  BY DEF Broadcast
<1> DEFINE S == [to : R, cmd : {cmd}, path : {p}, id : {id}]
<1>2. \A m \in S : m \in Msg /\ m.to \in up
  BY DEF Msg, TypeInv, FileTypeOK
<1> HIDE DEF S
<1>3. IsABag(net') /\ DOMAIN net' = DOMAIN net \cup S
  BY <1>1, BagPlus DEF TypeInv, NetOK, S
<1> QED
  BY <1>2, <1>3 DEF TypeInv, NetOK, BagToSet

\* A directory after a name is entered or removed.
LEMMA TreeType ==
  ASSUME TypeInv, NEW n \in up, NEW p \in Path, NEW id \in MetaID,
         tree' = [tree EXCEPT ![n][p] = id], up' = up
  PROVE  /\ tree' \in [Node -> Tree]
         /\ \A x \in Node \ up' : tree'[x] = NoTree
         /\ \A x \in Node \ {n} : tree'[x] = tree[x]
         /\ tree'[n][p] = id /\ \A q \in Path \ {p} : tree'[n][q] = tree[n][q]
BY PutIn DEF TypeInv, FileTypeOK, Tree, MetaID

LEMMA RemoveType ==
  ASSUME TypeInv, NEW n \in up, NEW p \in Path, Remove(n, p), up' = up
  PROVE  /\ tree' \in [Node -> Tree] /\ orphan' \in [Node -> SUBSET Path]
         /\ \A x \in Node \ up' : tree'[x] = NoTree /\ orphan'[x] = {}
         /\ \A x \in Node \ {n} : tree'[x] = tree[x] /\ orphan'[x] = orphan[x]
         /\ orphan'[n] \subseteq orphan[n] /\ orphan[n] \ {p} \subseteq orphan'[n]
         /\ tree[n][p] > 0 => tree'[n][p] = Absent
         /\ ~(tree[n][p] > 0) => tree' = tree /\ orphan' = orphan
         /\ \A q \in Path \ {p} : tree'[n][q] = tree[n][q]
<1>1. CASE tree[n][p] > 0
  <2>1. /\ tree' = [tree EXCEPT ![n][p] = Absent]
        /\ orphan' = [orphan EXCEPT ![n] = @ \ {p}]
    BY <1>1 DEF Remove
  <2>2. Absent \in MetaID
    BY NamespaceBounds DEF Absent, MetaID
  <2>3. /\ tree' \in [Node -> Tree]
        /\ \A x \in Node \ up' : tree'[x] = NoTree
        /\ \A x \in Node \ {n} : tree'[x] = tree[x]
        /\ tree'[n][p] = Absent /\ \A q \in Path \ {p} : tree'[n][q] = tree[n][q]
    BY <2>1, <2>2, TreeType
  <2> QED
    BY <1>1, <2>1, <2>3 DEF TypeInv, FileTypeOK
<1>2. CASE ~(tree[n][p] > 0)
  BY <1>2 DEF Remove, TypeInv, FileTypeOK, Tree, MetaID
<1> QED
  BY <1>1, <1>2

LEMMA TypeInit == Init => TypeInv
<1> SUFFICES ASSUME Init  PROVE TypeInv
  OBVIOUS
<1>1. 0 \in 0..MaxBlocks /\ Absent \in MetaID
  BY NamespaceBounds DEF Absent, MetaID
<1>2. NoTree \in Tree /\ tree = [n \in Node |-> NoTree] /\ snap = tree
  BY <1>1 DEF Init, NoTree, Tree, MetaID
<1>3. NetOK
  BY DEF Init, NetOK, IsABag, EmptyBag, SetToBag, BagToSet
<1>4. meta \in [BlockId -> [path : Path \cup {Root}, data : SUBSET (0..MaxBlocks)]]
  BY DEF Init, NoMeta
<1> QED
  BY <1>1, <1>2, <1>3, <1>4 DEF Init, TypeInv, FileTypeOK, Tree, MetaID, NetOK

LEMMA TypeUpload ==
  ASSUME TypeInv, NEW s \in Slot,
         \/ \E n \in up, p \in Path : UpFileMeta(s, n, p)
         \/ UpFileData(s) \/ UpFileEnd(s) \/ AddFile(s) \/ TellNewFile(s) \/ HangUp(s)
  PROVE  TypeInv'
<1> DEFINE t == task[s]
<1> USE NamespaceBounds
<1>0. 0 \in 0..MaxBlocks /\ Idle \in Proper \cup {Idle}
  OBVIOUS
<1>1. ASSUME NEW n \in up, NEW p \in Path, UpFileMeta(s, n, p)
      PROVE  TypeInv'
  <2> DEFINE u == [pc |-> "data", n |-> n, p |-> p, id |-> 0, data |-> {}, todo |-> {}]
  <2>1. u \in Proper /\ u.n \in up /\ task' = [task EXCEPT ![s] = u]
        /\ UNCHANGED <<up, tree, orphan, snap, net, blocks>>
    BY <1>0, <1>1 DEF UpFileMeta, Request1, Proper, Request, TypeInv, FileTypeOK
  <2> HIDE DEF u
  <2>2. /\ task' \in [Slot -> Proper \cup {Idle}]
        /\ \A x \in Slot : task'[x] # Idle => task'[x].n \in up'
    BY <2>1, TaskType
  <2> QED
    BY <2>1, <2>2 DEF TypeInv, FileTypeOK, NetOK, Proper, blocks
<1>2. CASE UpFileData(s)
  <2>1. t.pc # "idle" /\ UNCHANGED <<up, tree, orphan, snap, net, meta>>
    BY <1>2 DEF UpFileData, At
  <2>2. PICK b \in 0..MaxBlocks : /\ task' = [task EXCEPT ![s] = [t EXCEPT !.data = @ \cup {b}]]
                                  /\ made' \in 0..MaxBlocks /\ stored' \subseteq 1..made'
    <3>1. CASE made < MaxBlocks /\ made' = made + 1 /\ stored' = stored \cup {made'}
               /\ Step(s, [task[s] EXCEPT !.data = @ \cup {made'}])
      <4>1. made' \in 0..MaxBlocks /\ stored' \subseteq 1..made'
        BY <3>1 DEF TypeInv, FileTypeOK
      <4>2. task' = [task EXCEPT ![s] = [t EXCEPT !.data = @ \cup {made'}]]
        BY <3>1 DEF Step
      <4> QED
        BY <4>1, <4>2
    <3>2. CASE Step(s, [task[s] EXCEPT !.data = @ \cup {0}]) /\ UNCHANGED <<stored, made>>
      BY <1>0, <3>2 DEF Step, TypeInv, FileTypeOK
    <3> QED
      BY <1>2, <3>1, <3>2 DEF UpFileData
  <2> DEFINE u == [t EXCEPT !.data = @ \cup {b}]
  <2>3. u \in Proper /\ u.n \in up
    <3>1. t \in Proper /\ t.n \in up /\ t.data \cup {b} \in SUBSET (0..MaxBlocks)
      BY <2>1, AtTask
    <3> HIDE DEF t
    <3> QED
      BY <3>1 DEF Proper, Request
  <2> HIDE DEF u
  <2>4. /\ task' \in [Slot -> Proper \cup {Idle}]
        /\ \A x \in Slot : task'[x] # Idle => task'[x].n \in up'
    BY <2>1, <2>2, <2>3, TaskType DEF u
  <2> QED
    BY <2>1, <2>2, <2>4 DEF TypeInv, FileTypeOK, NetOK, Proper
<1>3. CASE UpFileEnd(s)
  <2>1. t.pc # "idle" /\ UNCHANGED <<up, tree, orphan, snap, net>>
    BY <1>3 DEF UpFileEnd, At
  <2>2. /\ made' \in 0..MaxBlocks /\ stored' \subseteq 1..made'
        /\ meta' \in [BlockId -> [path : Path \cup {Root}, data : SUBSET (0..MaxBlocks)]]
    <3>1. CASE made < MaxBlocks /\ made' = made + 1 /\ stored' = stored \cup {made'}
               /\ meta' = [meta EXCEPT ![made'] = [path |-> t.p, data |-> t.data]]
      <4> DEFINE r == [path |-> t.p, data |-> t.data]
      <4>1. r \in [path : Path \cup {Root}, data : SUBSET (0..MaxBlocks)]
        BY <2>1, AtTask
      <4> HIDE DEF r
      <4>2. meta' = [meta EXCEPT ![made'] = r]
        BY <3>1 DEF r
      <4>3. made' \in 0..MaxBlocks /\ stored' \subseteq 1..made'
        <5>1. made \in 0..MaxBlocks /\ stored \subseteq 1..made
          BY DEF TypeInv, FileTypeOK
        <5> QED
          BY <3>1, <5>1
      <4>4. meta \in [BlockId -> [path : Path \cup {Root}, data : SUBSET (0..MaxBlocks)]]
        BY DEF TypeInv, FileTypeOK
      <4> QED
        BY <4>1, <4>2, <4>3, <4>4
    <3>2. CASE UNCHANGED blocks
      BY <3>2 DEF blocks, TypeInv, FileTypeOK
    <3> QED
      BY <1>3, <3>1, <3>2 DEF UpFileEnd
  <2>3. PICK u : /\ task' = [task EXCEPT ![s] = u] /\ u \in Proper /\ u.n \in up
    <3>1. CASE made < MaxBlocks /\ made' = made + 1
               /\ Step(s, [task[s] EXCEPT !.pc = "add", !.id = made'])
      <4>1. made' \in 0..MaxBlocks
        BY <3>1 DEF TypeInv, FileTypeOK
      <4>2. t \in Proper /\ t.n \in up
        BY <2>1, AtTask
      <4>3. task' = [task EXCEPT ![s] = [t EXCEPT !.pc = "add", !.id = made']]
        BY <3>1 DEF Step
      <4> HIDE DEF t
      <4>4. [t EXCEPT !.pc = "add", !.id = made'] \in Proper
            /\ [t EXCEPT !.pc = "add", !.id = made'].n \in up
        BY <4>1, <4>2 DEF Proper, Request
      <4> QED
        BY <4>3, <4>4
    <3>2. CASE Step(s, [task[s] EXCEPT !.pc = "add"])
      <4>1. t \in Proper /\ t.n \in up
        BY <2>1, AtTask
      <4>2. task' = [task EXCEPT ![s] = [t EXCEPT !.pc = "add"]]
        BY <3>2 DEF Step
      <4> HIDE DEF t
      <4> QED
        BY <4>1, <4>2, RequestAt
    <3> QED
      BY <1>3, <3>1, <3>2 DEF UpFileEnd
  <2>4. /\ task' \in [Slot -> Proper \cup {Idle}]
        /\ \A x \in Slot : task'[x] # Idle => task'[x].n \in up'
    BY <2>1, <2>3, TaskType
  <2> QED
    BY <2>1, <2>2, <2>4 DEF TypeInv, FileTypeOK, NetOK, Proper
<1>4. CASE AddFile(s)
  <2>1. t.pc # "idle" /\ UNCHANGED <<up, orphan, snap, net, blocks>>
    BY <1>4 DEF AddFile, At, Add
  <2>2. PICK u : task' = [task EXCEPT ![s] = u] /\ u \in Proper \cup {Idle} /\ (u # Idle => u.n \in up)
    <3>1. CASE Step(s, [t EXCEPT !.pc = "tell"])
      <4>1. t \in Proper /\ t.n \in up
        BY <2>1, AtTask
      <4>2. task' = [task EXCEPT ![s] = [t EXCEPT !.pc = "tell"]]
        BY <3>1 DEF Step
      <4> HIDE DEF t
      <4> QED
        BY <4>1, <4>2, RequestAt
    <3>2. CASE Step(s, Idle)
      BY <3>2 DEF Step
    <3> QED
      BY <1>4, <3>1, <3>2 DEF AddFile
  <2>3. /\ task' \in [Slot -> Proper \cup {Idle}]
        /\ \A x \in Slot : task'[x] # Idle => task'[x].n \in up'
    BY <2>1, <2>2, TaskType
  <2>4. tree' \in [Node -> Tree] /\ \A x \in Node \ up' : tree'[x] = NoTree
    <3>1. CASE Add(t.n, t.p, t.id)
      <4>1. t.n \in up /\ t.p \in Path /\ t.id \in MetaID
        BY <2>1, AtTask DEF Absent, MetaID
      <4> HIDE DEF t
      <4> QED
        BY <2>1, <3>1, <4>1, TreeType DEF Add
    <3>2. CASE UNCHANGED <<tree, orphan>>
      BY <2>1, <3>2 DEF TypeInv, FileTypeOK, Tree, MetaID
    <3> QED
      BY <1>4, <3>1, <3>2 DEF AddFile
  <2> QED
    BY <2>1, <2>3, <2>4 DEF TypeInv, FileTypeOK, NetOK, Proper, blocks, Tree, MetaID
<1>5. CASE TellNewFile(s)
  <2>1. t.pc # "idle" /\ UNCHANGED <<up, tree, orphan, snap, blocks>>
        /\ task' = [task EXCEPT ![s] = Idle] /\ Broadcast(t.n, "newfile", t.p, t.id, {})
    BY <1>5 DEF TellNewFile, At, Step
  <2>2. NetOK'
    BY <2>1, AtTask, BroadcastType
  <2>3. /\ task' \in [Slot -> Proper \cup {Idle}]
        /\ \A x \in Slot : task'[x] # Idle => task'[x].n \in up'
    BY <2>1, TaskType
  <2> QED
    BY <2>1, <2>2, <2>3 DEF TypeInv, FileTypeOK, NetOK, Proper, blocks
<1>6. CASE HangUp(s)
  <2>1. t.pc # "idle" /\ UNCHANGED <<up, tree, orphan, snap, net, blocks>>
    BY <1>6 DEF HangUp, At
  <2>2. PICK u : task' = [task EXCEPT ![s] = u] /\ u \in Proper \cup {Idle} /\ (u # Idle => u.n \in up)
    <3> DEFINE todo == ToClean(t.data, 0)
    <3>1. todo \in SUBSET BlockId
      BY <2>1, AtTask DEF ToClean, BlockId
    <3>2. Step(s, IF todo = {} THEN Idle ELSE [t EXCEPT !.pc = "clean", !.todo = todo])
      BY <1>6 DEF HangUp
    <3> HIDE DEF todo
    <3>3. [t EXCEPT !.pc = "clean", !.todo = todo] \in Proper
          /\ [t EXCEPT !.pc = "clean", !.todo = todo].n \in up
      <4>1. t \in Proper /\ t.n \in up
        BY <2>1, AtTask
      <4> HIDE DEF t
      <4> QED
        BY <3>1, <4>1 DEF Proper, Request
    <3> QED
      BY <3>2, <3>3 DEF Step
  <2>3. /\ task' \in [Slot -> Proper \cup {Idle}]
        /\ \A x \in Slot : task'[x] # Idle => task'[x].n \in up'
    BY <2>1, <2>2, TaskType
  <2> QED
    BY <2>1, <2>3 DEF TypeInv, FileTypeOK, NetOK, Proper, blocks
<1> QED
  BY <1>1, <1>2, <1>3, <1>4, <1>5, <1>6

LEMMA TypeRemove ==
  ASSUME TypeInv, NEW s \in Slot,
         \/ \E n \in up, p \in Path : RmFile(s, n, p)
         \/ RmEntry(s) \/ CleanBlock(s) \/ CleanEnd(s)
  PROVE  TypeInv'
<1> DEFINE t == task[s]
<1> USE NamespaceBounds
<1>1. ASSUME NEW n \in up, NEW p \in Path, RmFile(s, n, p)
      PROVE  TypeInv'
  <2> DEFINE u == [pc |-> "rm", n |-> n, p |-> p, id |-> tree[n][p], data |-> {}, todo |-> {}]
  <2>1. tree[n][p] \in 1..MaxBlocks /\ tree[n][p] \in 0..MaxBlocks
    BY <1>1 DEF RmFile, TypeInv, FileTypeOK, Absent
  <2>2. u \in Proper /\ u.n \in up
    BY <2>1 DEF Proper, Request, TypeInv, FileTypeOK
  <2>3. task' = [task EXCEPT ![s] = u] /\ UNCHANGED <<up, tree, orphan, snap, net, blocks>>
    BY <1>1 DEF RmFile, Request1
  <2> HIDE DEF u
  <2>4. /\ task' \in [Slot -> Proper \cup {Idle}]
        /\ \A x \in Slot : task'[x] # Idle => task'[x].n \in up'
    BY <2>2, <2>3, TaskType
  <2> QED
    BY <2>3, <2>4 DEF TypeInv, FileTypeOK, NetOK, Proper, blocks
<1>2. CASE RmEntry(s)
  <2>1. t.pc # "idle" /\ UNCHANGED <<up, snap, net, blocks>> /\ Remove(t.n, t.p)
        /\ task' = [task EXCEPT ![s] = [t EXCEPT !.pc = "load"]]
    BY <1>2 DEF RmEntry, At, Step
  <2>2. t \in Proper /\ t.n \in up /\ t.p \in Path
    BY <2>1, AtTask
  <2> HIDE DEF t
  <2>3. /\ task' \in [Slot -> Proper \cup {Idle}]
        /\ \A x \in Slot : task'[x] # Idle => task'[x].n \in up'
    <3> DEFINE u == [t EXCEPT !.pc = "load"]
    <3>1. u \in Proper /\ u.n \in up
      BY <1>2, <2>2, RequestAt DEF RmEntry, At, t
    <3> HIDE DEF u
    <3> QED
      BY <2>1, <3>1, TaskType DEF u
  <2>4. /\ tree' \in [Node -> Tree] /\ orphan' \in [Node -> SUBSET Path]
        /\ \A x \in Node \ up' : tree'[x] = NoTree /\ orphan'[x] = {}
    BY <2>1, <2>2, RemoveType
  <2> QED
    BY <2>1, <2>3, <2>4 DEF TypeInv, FileTypeOK, NetOK, Proper, blocks, Tree, MetaID
<1>3. CASE CleanBlock(s)
  <2>1. t.pc # "idle" /\ UNCHANGED <<up, tree, orphan, snap, net, meta, made>>
        /\ stored' \subseteq stored
    BY <1>3 DEF CleanBlock, At
  <2>2. PICK b : task' = [task EXCEPT ![s] = [t EXCEPT !.todo = @ \ {b}]]
    BY <1>3 DEF CleanBlock, Step
  <2>3. t \in Proper /\ t.n \in up /\ t.todo \subseteq BlockId
    BY <2>1, AtTask
  <2> DEFINE u == [t EXCEPT !.todo = @ \ {b}]
  <2>4. u \in Proper /\ u.n \in up
    <3> HIDE DEF t
    <3> QED
      BY <2>3 DEF Proper, Request
  <2> HIDE DEF u
  <2>5. /\ task' \in [Slot -> Proper \cup {Idle}]
        /\ \A x \in Slot : task'[x] # Idle => task'[x].n \in up'
    BY <2>1, <2>2, <2>4, TaskType DEF u
  <2> QED
    BY <2>1, <2>5 DEF TypeInv, FileTypeOK, NetOK, Proper
<1>4. CASE CleanEnd(s)
  <2>1. t.pc # "idle" /\ UNCHANGED <<up, tree, orphan, snap, blocks>>
        /\ task' = [task EXCEPT ![s] = Idle]
    BY <1>4 DEF CleanEnd, At, Step
  <2>2. NetOK'
    <3>1. CASE t.id = 0
      BY <1>4, <2>1, <3>1 DEF CleanEnd, TypeInv, NetOK
    <3>2. CASE t.id # 0
      BY <1>4, <2>1, <3>2, AtTask, BroadcastType DEF CleanEnd
    <3> QED
      BY <3>1, <3>2
  <2>3. /\ task' \in [Slot -> Proper \cup {Idle}]
        /\ \A x \in Slot : task'[x] # Idle => task'[x].n \in up'
    BY <2>1, TaskType
  <2> QED
    BY <2>1, <2>2, <2>3 DEF TypeInv, FileTypeOK, NetOK, Proper, blocks
<1> QED
  BY <1>1, <1>2, <1>3, <1>4

\* The directory of a machine that ends, and all that was under way there.
LEMMA DieType ==
  ASSUME TypeInv, NEW n \in Node, Die(n)
  PROVE  /\ up' = up \ {n} /\ UNCHANGED <<stored, meta, made, accepted, failed, news>>
         /\ tree' \in [Node -> Tree] /\ tree'[n] = NoTree
         /\ \A x \in Node \ {n} : tree'[x] = tree[x] /\ orphan'[x] = orphan[x]
         /\ orphan' \in [Node -> SUBSET Path] /\ orphan'[n] = {}
         /\ task' \in [Slot -> Proper \cup {Idle}]
         /\ \A s \in Slot : \/ task'[s] = task[s] /\ (task[s] # Idle => task[s].n # n)
                            \/ task'[s] = Idle /\ task[s] # Idle /\ task[s].n = n
         /\ IsABag(net') /\ DOMAIN net' = {m \in DOMAIN net : m.to # n}
         /\ conflict' = Path
<1>1. NoTree \in Tree
  BY NamespaceBounds DEF NoTree, Tree, MetaID, Absent
<1>2. /\ up' = up \ {n} /\ tree' = [tree EXCEPT ![n] = NoTree]
      /\ orphan' = [orphan EXCEPT ![n] = {}] /\ conflict' = Path
      /\ UNCHANGED <<stored, meta, made, accepted, failed, news>>
  BY DEF Die, blocks
<1>3. task' = [s \in Slot |-> IF task[s] # Idle /\ task[s].n = n THEN Idle ELSE task[s]]
  BY DEF Die
<1>4. net' = [m \in {m \in DOMAIN net : m.to # n} |-> net[m]]
  BY DEF Die, BagToSet
<1>5. IsABag(net') /\ DOMAIN net' = {m \in DOMAIN net : m.to # n}
  BY <1>4 DEF IsABag, TypeInv, NetOK
<1>6. /\ tree' \in [Node -> Tree] /\ tree'[n] = NoTree
      /\ \A x \in Node \ {n} : tree'[x] = tree[x]
  BY <1>1, <1>2 DEF TypeInv, FileTypeOK, Tree, MetaID
<1>7. /\ orphan' \in [Node -> SUBSET Path] /\ orphan'[n] = {}
      /\ \A x \in Node \ {n} : orphan'[x] = orphan[x]
  BY <1>2 DEF TypeInv, FileTypeOK
<1>8. task' \in [Slot -> Proper \cup {Idle}]
  BY <1>3 DEF TypeInv, FileTypeOK
<1> QED
  BY <1>2, <1>3, <1>5, <1>6, <1>7, <1>8

LEMMA DieKeeps ==
  ASSUME TypeInv, NEW n \in Node, Die(n), snap' \in [Node -> Tree]
  PROVE  TypeInv'
<1>0. /\ up' = up \ {n} /\ UNCHANGED <<stored, meta, made>>
      /\ tree' \in [Node -> Tree] /\ tree'[n] = NoTree
      /\ \A x \in Node \ {n} : tree'[x] = tree[x] /\ orphan'[x] = orphan[x]
      /\ orphan' \in [Node -> SUBSET Path] /\ orphan'[n] = {}
      /\ task' \in [Slot -> Proper \cup {Idle}]
      /\ \A s \in Slot : \/ task'[s] = task[s] /\ (task[s] # Idle => task[s].n # n)
                         \/ task'[s] = Idle /\ task[s] # Idle /\ task[s].n = n
      /\ IsABag(net') /\ DOMAIN net' = {m \in DOMAIN net : m.to # n}
  BY DieType
<1>1. NetOK'
  BY <1>0 DEF TypeInv, NetOK, BagToSet
<1>2. \A s \in Slot : task'[s] # Idle => task'[s].n \in up'
  BY <1>0 DEF TypeInv, FileTypeOK
<1>3. \A x \in Node \ up' : tree'[x] = NoTree /\ orphan'[x] = {}
  BY <1>0 DEF TypeInv, FileTypeOK
<1>4. Proper \subseteq Request
  BY DEF Proper
<1> QED
  BY <1>0, <1>1, <1>2, <1>3, <1>4 DEF TypeInv, FileTypeOK, NetOK, Proper, Tree, MetaID

LEMMA TypeMachine ==
  ASSUME TypeInv, NEW n \in Node, Machine(n)
  PROVE  TypeInv'
<1> USE NamespaceBounds
<1>0. snap \in [Node -> Tree]
  BY DEF TypeInv, FileTypeOK, Tree, MetaID
<1>1. CASE Crash(n)
  BY <1>0, <1>1, DieKeeps DEF Crash
<1>2. CASE Stop(n)
  <2> DEFINE kept == [p \in Path |->
       IF (above[p] \cup {p}) \cap orphan[n] = {} THEN tree[n][p] ELSE Absent]
  <2>1. kept \in Tree
    BY DEF TypeInv, FileTypeOK, Tree, MetaID, Absent
  <2>2. snap' = [snap EXCEPT ![n] = kept]
    BY <1>2 DEF Stop
  <2> HIDE DEF kept
  <2>3. snap' \in [Node -> Tree]
    BY <1>0, <2>1, <2>2
  <2> QED
    BY <1>2, <2>3, DieKeeps DEF Stop
<1>3. CASE Start(n)
  <2>1. /\ up' = up \cup {n} /\ tree' = [tree EXCEPT ![n] = snap[n]]
        /\ UNCHANGED <<orphan, snap, task, net, blocks>>
    BY <1>3 DEF Start
  <2>2. tree' \in [Node -> Tree] /\ \A x \in Node \ {n} : tree'[x] = tree[x]
    BY <1>0, <2>1 DEF TypeInv, FileTypeOK, Tree, MetaID
  <2> QED
    BY <2>1, <2>2 DEF TypeInv, FileTypeOK, NetOK, Proper, blocks, Tree, MetaID
<1>4. ASSUME NEW p \in Path, AddDir(n, p)
      PROVE  TypeInv'
  <2>1. /\ n \in up /\ tree' = [tree EXCEPT ![n][p] = Dir]
        /\ Broadcast(n, "newdir", p, 0, Again(p))
        /\ UNCHANGED <<up, orphan, snap, task, blocks>>
    BY <1>4 DEF AddDir, Add
  <2>2. NetOK'
    BY <2>1, BroadcastType
  <2>3. tree' \in [Node -> Tree] /\ \A x \in Node \ up' : tree'[x] = NoTree
      <3>1. Dir \in MetaID
        BY DEF Dir, Absent, MetaID
      <3> QED
        BY <2>1, <3>1, TreeType
  <2> QED
    BY <2>1, <2>2, <2>3 DEF TypeInv, FileTypeOK, NetOK, Proper, blocks, Tree, MetaID
<1>5. ASSUME NEW p \in Path, RmDir(n, p)
      PROVE  TypeInv'
  <2>1. n \in up /\ UNCHANGED <<up, snap, task, net, blocks>>
    BY <1>5 DEF RmDir
  <2>2. PICK G \in SUBSET Path :
          /\ tree' = [tree EXCEPT ![n] = [q \in Path |-> IF q \in G THEN Absent ELSE @[q]]]
          /\ orphan' = [orphan EXCEPT ![n] = (@ \cup UNION
                {{r \in Path : Parent[r] = q /\ tree[n][r] # Absent} : q \in G}) \ G]
    BY <1>5 DEF RmDir
  <2>3. tree' \in [Node -> Tree] /\ \A x \in Node \ up' : tree'[x] = NoTree
    <3> DEFINE T == [q \in Path |-> IF q \in G THEN Absent ELSE tree[n][q]]
    <3>1. T \in Tree
      BY DEF TypeInv, FileTypeOK, Tree, MetaID, Absent
    <3>2. tree' = [tree EXCEPT ![n] = T]
      BY <2>2
    <3> HIDE DEF T
    <3> QED
      BY <2>1, <3>1, <3>2 DEF TypeInv, FileTypeOK, Tree, MetaID
  <2>4. orphan' \in [Node -> SUBSET Path] /\ \A x \in Node \ up' : orphan'[x] = {}
    <3> DEFINE O == (orphan[n] \cup UNION
                {{r \in Path : Parent[r] = q /\ tree[n][r] # Absent} : q \in G}) \ G
    <3>1. O \in SUBSET Path
      BY DEF TypeInv, FileTypeOK
    <3>2. orphan' = [orphan EXCEPT ![n] = O]
      BY <2>2
    <3> HIDE DEF O
    <3> QED
      BY <2>1, <3>1, <3>2 DEF TypeInv, FileTypeOK
  <2> QED
    BY <2>1, <2>3, <2>4 DEF TypeInv, FileTypeOK, NetOK, Proper, blocks, Tree, MetaID
<1>6. ASSUME NEW p \in Path, GetFile(n, p)
      PROVE  TypeInv'
  BY <1>0, <1>6, DieKeeps DEF GetFile
<1> QED
  BY <1>1, <1>2, <1>3, <1>4, <1>5, <1>6 DEF Machine

LEMMA RmLoadType ==
  ASSUME TypeInv, NEW s \in Slot, RmLoad(s)
  PROVE  TypeInv'
<1> DEFINE t == task[s]
<1>1. /\ t \in Proper /\ t.n \in Node /\ t.n \in up /\ t.pc = "load"
      /\ t.id \in BlockId
  <2>1. t.pc = "load"
    BY DEF RmLoad, At
  <2>2. t \in Proper /\ t.n \in up /\ t.n \in Node /\ t.id \in 0..MaxBlocks
    BY <2>1, AtTask
  <2> QED
    BY <2>1, <2>2, NamespaceBounds DEF Proper, BlockId
<1>2. CASE Die(t.n) /\ UNCHANGED snap
  BY <1>1, <1>2, DieKeeps DEF TypeInv, FileTypeOK, Tree, MetaID
<1>3. CASE /\ Step(s, [t EXCEPT !.pc = "clean", !.todo = ToClean(meta[t.id].data, t.id)])
           /\ UNCHANGED <<up, tree, orphan, net, blocks, snap>>
  <2> DEFINE todo == ToClean(meta[t.id].data, t.id)
             u == [t EXCEPT !.pc = "clean", !.todo = todo]
  <2>1. todo \subseteq BlockId
    <3>1. meta[t.id].data \subseteq 0..MaxBlocks
      BY <1>1 DEF TypeInv, FileTypeOK
    <3> QED
      BY <1>1, <3>1, NamespaceBounds DEF ToClean, BlockId
  <2> HIDE DEF todo
  <2>2. u \in Proper /\ u.n \in up
    <3> HIDE DEF t
    <3> QED
      BY <1>1, <2>1 DEF Proper, Request
  <2>3. task' = [task EXCEPT ![s] = u]
    BY <1>3 DEF Step, todo
  <2> HIDE DEF u
  <2>4. /\ task' \in [Slot -> Proper \cup {Idle}]
        /\ \A x \in Slot : task'[x] # Idle => task'[x].n \in up'
    BY <1>3, <2>2, <2>3, TaskType
  <2> QED
    BY <1>3, <2>4 DEF TypeInv, FileTypeOK, NetOK, blocks, Proper
<1> QED
  BY <1>2, <1>3 DEF RmLoad

LEMMA TypeBroadcast ==
  ASSUME TypeInv, NEW m \in BagToSet(net), HandleBroadcast(m)
  PROVE  TypeInv'
<1> USE NamespaceBounds
<1>1. /\ m \in Msg /\ m.to \in up /\ m.to \in Node /\ m.path \in Path /\ m.id \in 0..MaxBlocks
      /\ net' = net (-) SetToBag({m})
      /\ UNCHANGED <<up, snap, task, blocks>>
  BY DEF TypeInv, NetOK, HandleBroadcast, Msg
<1>2. NetOK'
  <2>1. IsABag(net') /\ DOMAIN net' \subseteq DOMAIN net
    BY <1>1, BagMinus DEF TypeInv, NetOK, BagToSet
  <2> QED
    BY <1>1, <2>1 DEF TypeInv, NetOK, BagToSet
<1>3. /\ tree' \in [Node -> Tree] /\ orphan' \in [Node -> SUBSET Path]
      /\ \A x \in Node \ up' : tree'[x] = NoTree /\ orphan'[x] = {}
  <2>1. CASE Remove(m.to, m.path)
    BY <1>1, <2>1, RemoveType
  <2>2. CASE Add(m.to, m.path, m.id)
    <3>1. m.id \in MetaID
      BY <1>1 DEF Absent, MetaID
    <3> QED
      BY <1>1, <2>2, <3>1, TreeType DEF Add, TypeInv, FileTypeOK
  <2>3. CASE UNCHANGED <<tree, orphan>>
    BY <1>1, <2>3 DEF TypeInv, FileTypeOK, Tree, MetaID
  <2> QED
    BY <2>1, <2>2, <2>3 DEF HandleBroadcast
<1> QED
  BY <1>1, <1>2, <1>3 DEF TypeInv, FileTypeOK, NetOK, Proper, blocks, Tree, MetaID

LEMMA TypeNext == TypeInv /\ [Next]_fvars => TypeInv'
<1> SUFFICES ASSUME TypeInv, [Next]_fvars  PROVE TypeInv'
  OBVIOUS
<1>1. CASE \E s \in Slot : Client(s) \/ Handler(s)
  BY <1>1, TypeUpload, TypeRemove, RmLoadType DEF Client, Handler
<1>2. CASE \E n \in Node : Machine(n)
  BY <1>2, TypeMachine
<1>3. CASE \E m \in BagToSet(net) : HandleBroadcast(m)
  BY <1>3, TypeBroadcast
<1>4. CASE UNCHANGED fvars
  BY <1>4 DEF fvars, TypeInv, FileTypeOK, NetOK
<1> QED
  BY <1>1, <1>2, <1>3, <1>4 DEF Next

\* Whatever machines, clients and messages there are, every variable keeps its type,
\* a machine that is down keeps no directory in memory and no request.
THEOREM FileTypeCorrect == Spec => []FileTypeOK
<1>1. TypeInv => FileTypeOK
  BY DEF TypeInv
<1> QED
  BY <1>1, TypeInit, TypeNext, PTL DEF Spec

-----------------------------------------------------------------------------
(* Names and their directories.                                            *)

Place == Path \cup {Root}

\* What lies above p is in every set that is closed upwards and has p's parent.
Closed(S) == \A r \in S : r # Root => Parent[r] \in S
Over(p) == {q \in Place : \A S \in SUBSET Place :
                            Closed(S) /\ (p # Root => Parent[p] \in S) => q \in S}

LEMMA OverRoot == Over(Root) = {}
<1>1. Closed({}) /\ {} \in SUBSET Place
  BY DEF Closed
<1> QED
  BY <1>1 DEF Over

LEMMA OverPath ==
  ASSUME NEW p \in Path
  PROVE  Over(p) = {Parent[p]} \cup Over(Parent[p])
<1> USE PathAssumption
<1>1. p # Root /\ Parent[p] \in Place /\ \A r \in Place : r # Root => Parent[r] \in Place
  BY DEF Place
<1>2. {Parent[p]} \cup Over(Parent[p]) \subseteq Over(p)
  <2>1. ASSUME NEW S \in SUBSET Place, Closed(S), Parent[p] \in S
        PROVE  Parent[p] # Root => Parent[Parent[p]] \in S
    BY <2>1 DEF Closed
  <2> QED
    BY <1>1, <2>1 DEF Over
<1>3. ASSUME NEW q \in Over(p), q # Parent[p]
      PROVE  q \in Over(Parent[p])
  <2> SUFFICES ASSUME NEW S \in SUBSET Place, Closed(S), 
                      Parent[p] # Root => Parent[Parent[p]] \in S
               PROVE  q \in S
    BY DEF Over
  <2> DEFINE T == S \cup {Parent[p]}
  <2>1. T \in SUBSET Place /\ Closed(T) /\ Parent[p] \in T
    BY <1>1 DEF Closed
  <2> QED
    BY <1>1, <1>3, <2>1 DEF Over
<1> QED
  BY <1>2, <1>3

\* The directories p is in: its parent, and those its parent is in.
LEMMA AbovePath ==
  ASSUME NEW p \in Path
  PROVE  above[p] = {Parent[p]} \cup above[Parent[p]]
<1> DEFINE F(f) == [q \in Path \cup {Root} |->
                      IF q = Root THEN {} ELSE {Parent[q]} \cup f[Parent[q]]]
           A == [q \in Path \cup {Root} |-> Over(q)]
<1> USE PathAssumption
<1>1. A = F(A)
  <2>1. ASSUME NEW q \in Path
        PROVE  Over(q) = {Parent[q]} \cup A[Parent[q]]
    BY OverPath
  <2> QED
    BY <2>1, OverRoot
<1>2. above = CHOOSE f : f = F(f)
  BY DEF above
<1> HIDE DEF A, F
<1>3. above = F(above)
  BY <1>1, <1>2
<1> QED
  BY <1>3 DEF F

-----------------------------------------------------------------------------
(* Every name is in a directory.                                           *)

\* A snapshot has no name without its directory, not even one left behind.
SnapRooted ==
  \A n \in Node, p \in Path :
    snap[n][p] = Absent \/ Parent[p] = Root \/ snap[n][Parent[p]] = Dir

RootInv == TypeInv /\ Rooted /\ SnapRooted

LEMMA AddRooted ==
  ASSUME TypeInv, Rooted, NEW n \in up, NEW p \in Path, NEW id \in 0..MaxBlocks,
         Addable(n, p), Add(n, p, id), up' = up
  PROVE  Rooted'
<1>1. id \in MetaID
  BY NamespaceBounds DEF Absent, MetaID
<1>2. /\ \A x \in Node \ {n} : tree'[x] = tree[x]
      /\ tree'[n][p] = id /\ \A q \in Path \ {p} : tree'[n][q] = tree[n][q]
      /\ orphan' = orphan
  <2>1. tree' = [tree EXCEPT ![n][p] = id]
    BY DEF Add
  <2>2. /\ \A x \in Node \ {n} : tree'[x] = tree[x]
        /\ tree'[n][p] = id /\ \A q \in Path \ {p} : tree'[n][q] = tree[n][q]
    <3>1. tree \in [Node -> [Path -> MetaID]] /\ n \in Node
      BY DEF TypeInv, FileTypeOK, MetaID
    <3> QED
      BY <1>1, <2>1, <3>1, PutIn
  <2>3. orphan' = orphan
    BY DEF Add
  <2> QED
    BY <2>2, <2>3
<1>3. tree[n][p] = Absent /\ (Parent[p] = Root \/ tree[n][Parent[p]] = Dir)
  BY DEF Addable, InDir
<1>4. ASSUME NEW x \in Node, NEW q \in Path
      PROVE  tree'[x][q] = Absent \/ InDir(x, q)' \/ q \in orphan'[x]
  <2>1. CASE x # n
    BY <1>2, <2>1 DEF Rooted, InDir
  <2>2. CASE x = n /\ q = p
    BY <1>2, <1>3, <2>2, PathAssumption DEF InDir, Dir, Absent
  <2>3. CASE x = n /\ q # p
    <3>1. tree[n][q] = Absent \/ InDir(n, q) \/ q \in orphan[n]
      BY <2>3 DEF Rooted
    <3>2. Parent[q] # Root => Parent[q] \in Path
      BY PathAssumption
    <3> QED
      BY <1>2, <1>3, <2>3, <3>1, <3>2 DEF InDir, Dir, Absent
  <2> QED
    BY <2>1, <2>2, <2>3
<1> QED
  BY <1>4 DEF Rooted

LEMMA RemoveRooted ==
  ASSUME TypeInv, Rooted, NEW n \in up, NEW p \in Path, Remove(n, p), up' = up
  PROVE  Rooted'
<1>1. /\ \A x \in Node \ {n} : tree'[x] = tree[x] /\ orphan'[x] = orphan[x]
      /\ orphan[n] \ {p} \subseteq orphan'[n]
      /\ tree[n][p] > 0 => tree'[n][p] = Absent
      /\ ~(tree[n][p] > 0) => tree' = tree /\ orphan' = orphan
      /\ \A q \in Path \ {p} : tree'[n][q] = tree[n][q]
  BY RemoveType
<1>2. CASE tree[n][p] > 0
  <2>1. ASSUME NEW q \in Path
        PROVE  tree'[n][q] = Absent \/ InDir(n, q)' \/ q \in orphan'[n]
    <3>1. tree[n][q] = Absent \/ InDir(n, q) \/ q \in orphan[n]
      BY DEF Rooted, TypeInv, FileTypeOK
    <3>2. Parent[q] # Root => Parent[q] \in Path
      BY PathAssumption
    <3>3. tree[n][p] # Dir
      BY <1>2 DEF Dir
    <3> QED
      BY <1>1, <1>2, <3>1, <3>2, <3>3 DEF InDir
  <2> QED
    BY <1>1, <2>1 DEF Rooted, InDir
<1>3. CASE ~(tree[n][p] > 0)
  BY <1>1, <1>3 DEF Rooted, InDir
<1> QED
  BY <1>2, <1>3

LEMMA DieRooted ==
  ASSUME TypeInv, Rooted, NEW n \in Node, Die(n)
  PROVE  Rooted'
<1>1. /\ tree'[n] = NoTree
      /\ \A x \in Node \ {n} : tree'[x] = tree[x] /\ orphan'[x] = orphan[x]
  BY DieType
<1> QED
  BY <1>1 DEF Rooted, InDir, NoTree

LEMMA RmDirRooted ==
  ASSUME TypeInv, Rooted, NEW n \in Node, NEW p \in Path, RmDir(n, p)
  PROVE  Rooted'
<1> DEFINE In(d) == {q \in Path : Parent[q] = d /\ tree[n][q] # Absent}
<1>1. PICK G \in SUBSET Path :
        /\ tree' = [tree EXCEPT ![n] = [q \in Path |-> IF q \in G THEN Absent ELSE @[q]]]
        /\ orphan' = [orphan EXCEPT ![n] = (@ \cup UNION {In(q) : q \in G}) \ G]
  BY DEF RmDir
<1>2. /\ \A x \in Node \ {n} : tree'[x] = tree[x] /\ orphan'[x] = orphan[x]
      /\ tree'[n] = [q \in Path |-> IF q \in G THEN Absent ELSE tree[n][q]]
      /\ orphan'[n] = (orphan[n] \cup UNION {In(q) : q \in G}) \ G
  BY <1>1 DEF TypeInv, FileTypeOK
<1>3. ASSUME NEW q \in Path \ G, tree[n][q] # Absent
      PROVE  InDir(n, q)' \/ q \in orphan'[n]
  <2>1. InDir(n, q) \/ q \in orphan[n]
    BY <1>3 DEF Rooted
  <2>2. CASE Parent[q] \in G
    BY <1>2, <1>3, <2>2
  <2>3. CASE Parent[q] \notin G
    BY <1>2, <1>3, <2>1, <2>3, PathAssumption DEF InDir
  <2> QED
    BY <2>2, <2>3
<1>4. \A q \in Path : tree'[n][q] = Absent \/ InDir(n, q)' \/ q \in orphan'[n]
  BY <1>2, <1>3
<1> QED
  BY <1>2, <1>4 DEF Rooted, InDir

\* What is kept is in a directory that is kept.
LEMMA StopRooted ==
  ASSUME RootInv, NEW n \in Node, Stop(n)
  PROVE  SnapRooted'
<1> DEFINE Kept(p) == (above[p] \cup {p}) \cap orphan[n] = {}
<1>1. snap' = [snap EXCEPT ![n] = [p \in Path |-> IF Kept(p) THEN tree[n][p] ELSE Absent]]
  BY DEF Stop
<1>2. /\ snap'[n] = [p \in Path |-> IF Kept(p) THEN tree[n][p] ELSE Absent]
      /\ \A x \in Node \ {n} : snap'[x] = snap[x]
  BY <1>1 DEF RootInv, TypeInv, FileTypeOK
<1>3. ASSUME NEW p \in Path, snap'[n][p] # Absent, Parent[p] # Root
      PROVE  snap'[n][Parent[p]] = Dir
  <2>1. Kept(p) /\ tree[n][p] # Absent
    BY <1>2, <1>3
  <2>2. tree[n][Parent[p]] = Dir
    BY <1>3, <2>1 DEF RootInv, Rooted, InDir
  <2>3. Parent[p] \in Path /\ above[p] = {Parent[p]} \cup above[Parent[p]]
    BY <1>3, AbovePath, PathAssumption
  <2>4. Kept(Parent[p])
    BY <2>1, <2>3
  <2> QED
    BY <1>2, <2>2, <2>3, <2>4
<1> QED
  BY <1>2, <1>3 DEF RootInv, SnapRooted

LEMMA StartRooted ==
  ASSUME RootInv, NEW n \in Node, Start(n)
  PROVE  Rooted'
<1>1. tree' = [tree EXCEPT ![n] = snap[n]] /\ orphan' = orphan
  BY DEF Start
<1>2. tree'[n] = snap[n] /\ \A x \in Node \ {n} : tree'[x] = tree[x]
  BY <1>1 DEF RootInv, TypeInv, FileTypeOK
<1> QED
  BY <1>1, <1>2 DEF RootInv, Rooted, SnapRooted, InDir

LEMMA RootNext == RootInv /\ [Next]_fvars => RootInv'
<1> SUFFICES ASSUME RootInv, [Next]_fvars  PROVE Rooted' /\ SnapRooted'
  BY TypeNext DEF RootInv
<1> USE DEF RootInv
<1>1. ASSUME UNCHANGED <<tree, orphan>>
      PROVE  Rooted'
  BY <1>1 DEF Rooted, InDir
<1>2. ASSUME UNCHANGED snap
      PROVE  SnapRooted'
  BY <1>2 DEF SnapRooted
<1>3. ASSUME NEW s \in Slot, Client(s) \/ Handler(s)
      PROVE  Rooted' /\ SnapRooted'
  <2>1. CASE AddFile(s)
    <3>1. UNCHANGED <<up, snap>> /\ task[s].pc # "idle"
      BY <2>1 DEF AddFile, At
    <3>2. task[s].n \in up /\ task[s].p \in Path /\ task[s].id \in 0..MaxBlocks
      BY <3>1, AtTask
    <3>3. \/ Addable(task[s].n, task[s].p) /\ Add(task[s].n, task[s].p, task[s].id)
          \/ UNCHANGED <<tree, orphan>>
      BY <2>1 DEF AddFile
    <3> QED
      BY <1>1, <1>2, <3>1, <3>2, <3>3, AddRooted
  <2>2. CASE RmEntry(s)
    <3>1. UNCHANGED <<up, snap>> /\ task[s].pc # "idle" /\ Remove(task[s].n, task[s].p)
      BY <2>2 DEF RmEntry, At
    <3> QED
      BY <1>2, <3>1, AtTask, RemoveRooted
  <2>3. CASE RmLoad(s)
    <3>1. UNCHANGED snap /\ task[s].pc # "idle"
          /\ (Die(task[s].n) \/ UNCHANGED <<tree, orphan>>)
      BY <2>3 DEF RmLoad, At
    <3> QED
      BY <1>1, <1>2, <3>1, AtTask, DieRooted
  <2>4. CASE /\ ~AddFile(s) /\ ~RmEntry(s) /\ ~RmLoad(s)
    <3>1. UNCHANGED <<tree, orphan, snap>>
      BY <1>3, <2>4 DEF Client, Handler, UpFileMeta, RmFile, HangUp, UpFileData, UpFileEnd,
                       TellNewFile, CleanBlock, CleanEnd
    <3> QED
      BY <1>1, <1>2, <3>1
  <2> QED
    BY <2>1, <2>2, <2>3, <2>4
<1>4. ASSUME NEW n \in Node, Machine(n)
      PROVE  Rooted' /\ SnapRooted'
  <2>1. CASE Crash(n)
    BY <1>2, <2>1, DieRooted DEF Crash
  <2>2. CASE Stop(n)
    BY <2>2, DieRooted, StopRooted DEF Stop
  <2>3. CASE Start(n)
    BY <1>2, <2>3, StartRooted DEF Start
  <2>4. ASSUME NEW p \in Path, AddDir(n, p)
        PROVE  Rooted' /\ SnapRooted'
    <3>1. /\ n \in up /\ Addable(n, p) /\ Add(n, p, Dir) /\ UNCHANGED <<up, snap>>
          /\ Dir \in 0..MaxBlocks
      BY <2>4, NamespaceBounds DEF AddDir, Dir
    <3> QED
      BY <1>2, <3>1, AddRooted
  <2>5. ASSUME NEW p \in Path, RmDir(n, p)
        PROVE  Rooted' /\ SnapRooted'
    BY <1>2, <2>5, RmDirRooted DEF RmDir
  <2>6. ASSUME NEW p \in Path, GetFile(n, p)
        PROVE  Rooted' /\ SnapRooted'
    BY <1>2, <2>6, DieRooted DEF GetFile
  <2> QED
    BY <1>4, <2>1, <2>2, <2>3, <2>4, <2>5, <2>6 DEF Machine
<1>5. ASSUME NEW m \in BagToSet(net), HandleBroadcast(m)
      PROVE  Rooted' /\ SnapRooted'
  <2>1. /\ m.to \in up /\ m.path \in Path /\ m.id \in 0..MaxBlocks /\ UNCHANGED <<up, snap>>
    BY <1>5 DEF TypeInv, NetOK, HandleBroadcast, Msg
  <2>2. \/ Remove(m.to, m.path)
        \/ Addable(m.to, m.path) /\ Add(m.to, m.path, m.id)
        \/ UNCHANGED <<tree, orphan>>
    BY <1>5 DEF HandleBroadcast
  <2> QED
    BY <1>1, <1>2, <2>1, <2>2, AddRooted, RemoveRooted
<1>6. CASE UNCHANGED fvars
  BY <1>1, <1>2, <1>6 DEF fvars
<1> QED
  BY <1>3, <1>4, <1>5, <1>6 DEF Next

\* In whatever order broadcasts arrive, and whatever removeDir leaves behind: no name
\* is entered, restored or kept outside a directory.
THEOREM RootedCorrect == Spec => []Rooted
<1>1. Init => RootInv
  <2>1. Init => Rooted /\ SnapRooted
    BY DEF Init, Rooted, SnapRooted, NoTree
  <2> QED
    BY <2>1, TypeInit DEF RootInv
<1>2. RootInv => Rooted
  BY DEF RootInv
<1> QED
  BY <1>1, <1>2, RootNext, PTL DEF Spec

-----------------------------------------------------------------------------
(* Files and their blocks.                                                 *)

Saved(id) == id \in BlockId /\ meta[id].path # Root

\* A file, under its name, that is whole until it is removed.
Whole(p, id) ==
  /\ Saved(id) /\ meta[id].path = p
  /\ id \in accepted \/ BlocksOf(id) \subseteq stored

\* The blocks of an upload that no meta block names.
Loose(s) ==
  IF task[s].pc = "data" THEN task[s].data \ {0}
  ELSE IF task[s].pc = "clean" /\ task[s].id = 0 THEN task[s].todo
  ELSE {}

\* A block belongs to one file or one upload.
Owned ==
  /\ \A i \in BlockId : i > made => meta[i] = NoMeta
  /\ \A i \in BlockId : Saved(i) => BlocksOf(i) \subseteq 1..made
  /\ \A s \in Slot : Loose(s) \subseteq 1..made
  /\ \A i, j \in BlockId : Saved(i) /\ Saved(j) /\ i # j => BlocksOf(i) \cap BlocksOf(j) = {}
  /\ \A i \in BlockId : Saved(i) => \A s \in Slot : BlocksOf(i) \cap Loose(s) = {}
  /\ \A r, s \in Slot : r # s => Loose(r) \cap Loose(s) = {}

\* What a handler is about to enter is whole, what it is about to delete was removed.
Handled(t) ==
  /\ t.pc = "data" => t.id = 0 /\ t.data \ {0} \subseteq stored
  /\ t.pc \in {"add", "tell"} /\ t.id > 0 => Whole(t.p, t.id)
  /\ t.pc \in {"rm", "load"} => t.id \in accepted
  /\ t.pc = "clean" /\ t.id # 0 => t.id \in accepted /\ t.todo \subseteq BlocksOf(t.id)

Names ==
  /\ \A n \in Node, p \in Path : tree[n][p] > 0 => Whole(p, tree[n][p])
  /\ \A n \in Node, p \in Path : snap[n][p] > 0 => Whole(p, snap[n][p])
  /\ \A m \in BagToSet(net) : m.id > 0 => Whole(m.path, m.id)

WholeInv ==
  /\ TypeInv /\ Owned /\ Names
  /\ \A s \in Slot : Handled(task[s])
  /\ \A id \in accepted : Saved(id)

\* Nothing is lost of a file that was not removed.
Keeps ==
  /\ \A i \in BlockId : Saved(i) => meta'[i] = meta[i]
  /\ accepted \subseteq accepted'
  /\ \A i \in BlockId : Saved(i) /\ i \notin accepted /\ BlocksOf(i) \subseteq stored
                          => BlocksOf(i) \subseteq stored'

LEMMA WholeKept ==
  ASSUME Keeps
  PROVE  /\ \A i : Saved(i) => Saved(i)' /\ BlocksOf(i)' = BlocksOf(i)
         /\ \A p, i : Whole(p, i) => Whole(p, i)'
<1>1. ASSUME NEW i, Saved(i)
      PROVE  Saved(i)' /\ BlocksOf(i)' = BlocksOf(i)
  BY <1>1 DEF Keeps, Saved, BlocksOf
<1>2. ASSUME NEW p, NEW i, Whole(p, i)
      PROVE  Whole(p, i)'
  <2>1. Saved(i) /\ i \in BlockId /\ meta'[i] = meta[i]
    BY <1>2 DEF Whole, Keeps, Saved
  <2>2. i \in accepted' \/ BlocksOf(i) \subseteq stored'
    BY <1>2, <2>1 DEF Whole, Keeps
  <2> QED
    BY <1>1, <1>2, <2>1, <2>2 DEF Whole
<1> QED
  BY <1>1, <1>2

LEMMA BlocksKept ==
  ASSUME UNCHANGED <<stored, meta>>, accepted \subseteq accepted'
  PROVE  Keeps
BY DEF Keeps, BlocksOf

\* Handlers that stay where they are.
LEMMA HandledKept ==
  ASSUME WholeInv, Keeps, NEW s \in Slot, task'[s] = task[s],
         task[s].pc = "data" => task[s].data \ {0} \subseteq stored'
  PROVE  Handled(task[s])'
<1> DEFINE t == task[s]
<1>1. Handled(t)
  BY DEF WholeInv
<1>2. t.pc \in {"add", "tell"} /\ t.id > 0 => Whole(t.p, t.id)'
  BY <1>1, WholeKept DEF Handled
<1>3. t.pc \in {"rm", "load"} => t.id \in accepted'
  BY <1>1 DEF Handled, Keeps
<1>4. t.pc = "clean" /\ t.id # 0 => t.id \in accepted' /\ t.todo \subseteq BlocksOf(t.id)'
  <2> SUFFICES ASSUME t.pc = "clean" /\ t.id # 0
               PROVE  t.id \in accepted' /\ t.todo \subseteq BlocksOf(t.id)'
    OBVIOUS
  <2>1. t.id \in accepted /\ t.todo \subseteq BlocksOf(t.id)
    BY <1>1 DEF Handled
  <2>2. BlocksOf(t.id)' = BlocksOf(t.id)
    BY <2>1, WholeKept DEF WholeInv
  <2> QED
    BY <2>1, <2>2 DEF Keeps
<1>5. t.pc = "data" => t.id = 0 /\ t.data \ {0} \subseteq stored'
  BY <1>1 DEF Handled
<1> QED
  BY <1>2, <1>3, <1>4, <1>5 DEF Handled

LEMMA LooseLess ==
  ASSUME WholeInv, UNCHANGED <<meta, made>>, \A s \in Slot : Loose(s)' \subseteq Loose(s)
  PROVE  Owned'
<1>1. \A i : Saved(i)' <=> Saved(i)
  BY DEF Saved
<1>2. \A i : BlocksOf(i)' = BlocksOf(i)
  BY DEF BlocksOf
<1>3. Owned
  BY DEF WholeInv
<1> QED
  BY <1>1, <1>2, <1>3 DEF Owned

\* Names that machines list, or are told of, stay.
LEMMA NamesKept ==
  ASSUME WholeInv, Keeps,
         \A n \in Node, p \in Path : tree'[n][p] > 0 =>
           tree'[n][p] = tree[n][p] \/ Whole(p, tree'[n][p]),
         \A n \in Node, p \in Path : snap'[n][p] > 0 =>
           snap'[n][p] = snap[n][p] \/ Whole(p, snap'[n][p]),
         \A m \in BagToSet(net') : m.id > 0 => m \in BagToSet(net) \/ Whole(m.path, m.id)
  PROVE  Names'
<1>1. Names
  BY DEF WholeInv
<1>2. ASSUME NEW n \in Node, NEW p \in Path, tree'[n][p] > 0
      PROVE  Whole(p, tree[n][p])'
  BY <1>1, <1>2, WholeKept DEF Names
<1>3. ASSUME NEW n \in Node, NEW p \in Path, snap'[n][p] > 0
      PROVE  Whole(p, snap[n][p])'
  BY <1>1, <1>3, WholeKept DEF Names
<1>4. ASSUME NEW m \in BagToSet(net'), m.id > 0
      PROVE  Whole(m.path, m.id)'
  BY <1>1, <1>4, WholeKept DEF Names
<1> QED
  BY <1>2, <1>3, <1>4 DEF Names

LEMMA SavedKept ==
  ASSUME WholeInv, Keeps, \A id \in accepted' : id \in accepted \/ Saved(id)
  PROVE  \A id \in accepted' : Saved(id)'
BY WholeKept DEF WholeInv

\* One handler moves.
LEMMA HandledStep ==
  ASSUME WholeInv, Keeps, NEW s \in Slot, \A x \in Slot \ {s} : task'[x] = task[x],
         \A x \in Slot \ {s} : task[x].pc = "data" => task[x].data \ {0} \subseteq stored',
         Handled(task[s])'
  PROVE  \A x \in Slot : Handled(task[x])'
<1>1. ASSUME NEW x \in Slot \ {s}
      PROVE  Handled(task[x])'
  BY <1>1, HandledKept
<1> QED
  BY <1>1

\* A block that nobody has saved yet belongs to nobody.
LEMMA Fresh ==
  ASSUME WholeInv, made' = made + 1
  PROVE  /\ made' \notin 1..made /\ ~Saved(made')
         /\ \A i \in BlockId : Saved(i) => made' \notin BlocksOf(i)
         /\ \A s \in Slot : made' \notin Loose(s)
<1>1. made \in Nat /\ made' \notin 1..made /\ made' > made
  BY NamespaceBounds DEF WholeInv, TypeInv, FileTypeOK
<1>2. ~Saved(made')
  BY <1>1 DEF WholeInv, Owned, Saved, NoMeta
<1> QED
  BY <1>1, <1>2 DEF WholeInv, Owned

LEMMA WholeUpFileMeta ==
  ASSUME WholeInv, NEW s \in Slot, NEW n \in up, NEW p \in Path, UpFileMeta(s, n, p)
  PROVE  WholeInv'
<1> DEFINE u == [pc |-> "data", n |-> n, p |-> p, id |-> 0, data |-> {}, todo |-> {}]
<1>1. /\ task' = [task EXCEPT ![s] = u] /\ task[s] = Idle
      /\ UNCHANGED <<tree, snap, net, stored, meta, made, accepted>>
  BY DEF UpFileMeta, Request1, blocks, story
<1>2. task'[s] = u /\ \A x \in Slot \ {s} : task'[x] = task[x]
  BY <1>1 DEF WholeInv, TypeInv, FileTypeOK
<1>3. Keeps
  BY <1>1, BlocksKept
<1>4. \A x \in Slot : Loose(x)' \subseteq Loose(x)
  BY <1>2 DEF Loose
<1>5. Handled(task[s])'
  BY <1>2 DEF Handled
<1>6. \A x \in Slot : Handled(task[x])'
  BY <1>1, <1>2, <1>3, <1>5, HandledStep DEF WholeInv, Handled
<1>7. TypeInv'
  BY TypeUpload DEF WholeInv
<1> QED
  BY <1>1, <1>3, <1>4, <1>6, <1>7, LooseLess, NamesKept, SavedKept DEF WholeInv

LEMMA WholeUpFileData ==
  ASSUME WholeInv, NEW s \in Slot, UpFileData(s)
  PROVE  WholeInv'
<1> DEFINE t == task[s]
<1>0. /\ t.pc = "data" /\ UNCHANGED <<tree, snap, net, meta, accepted>>
      /\ WholeInv /\ t \in Request
  BY AtTask DEF UpFileData, At, story, WholeInv, Proper
<1>1. PICK b : /\ task' = [task EXCEPT ![s] = [t EXCEPT !.data = @ \cup {b}]]
               /\ \/ made < MaxBlocks /\ made' = made + 1 /\ stored' = stored \cup {b} /\ b = made'
                  \/ b = 0 /\ UNCHANGED <<stored, made>>
  BY DEF UpFileData, Step
<1> DEFINE u == [t EXCEPT !.data = @ \cup {b}]
<1>2. u.pc = "data" /\ u.data = t.data \cup {b} /\ u.id = t.id
  <2> HIDE DEF t
  <2> QED
    BY <1>0 DEF Request
<1> HIDE DEF u
<1>3. task'[s] = u /\ \A x \in Slot \ {s} : task'[x] = task[x]
  BY <1>1 DEF WholeInv, TypeInv, FileTypeOK, u
<1>4. stored \subseteq stored'
  BY <1>1
<1>5. Keeps
  BY <1>0, <1>4 DEF Keeps
<1>6. Handled(task[s])'
  BY <1>0, <1>1, <1>2, <1>3 DEF Handled, WholeInv
<1>7. \A x \in Slot : Handled(task[x])'
  BY <1>0, <1>3, <1>4, <1>5, <1>6, HandledStep DEF WholeInv, Handled
<1>8. Owned'
  <2>1. /\ \A x \in Slot \ {s} : Loose(x)' = Loose(x)
        /\ Loose(s)' = Loose(s) \cup ({b} \ {0})
    BY <1>0, <1>2, <1>3 DEF Loose
  <2>2. CASE b = 0 /\ made' = made
    BY <1>0, <2>1, <2>2, LooseLess
  <2>3. CASE made' = made + 1 /\ b = made'
    <3>1. /\ \A i \in BlockId : Saved(i) => made' \notin BlocksOf(i)
          /\ \A x \in Slot : made' \notin Loose(x)
      BY <2>3, Fresh
    <3>2. made \in Nat /\ 1..made \subseteq 1..made' /\ made' \in 1..made'
      BY <2>3, NamespaceBounds DEF WholeInv, TypeInv, FileTypeOK
    <3>3. \A i : (Saved(i)' <=> Saved(i)) /\ BlocksOf(i)' = BlocksOf(i)
      BY <1>0 DEF Saved, BlocksOf
    <3>4. \A i \in BlockId : i > made' => meta'[i] = NoMeta
      BY <1>0, <2>3, <3>2 DEF WholeInv, Owned, BlockId
    <3>5. \A x \in Slot : Loose(x)' \subseteq Loose(x) \cup {made'}
      BY <2>1, <2>3
    <3>6. \A x, y \in Slot : x # y => Loose(x)' \cap Loose(y)' = {}
      BY <2>1, <2>3, <3>1 DEF WholeInv, Owned
    <3>7. \A i \in BlockId : Saved(i) => BlocksOf(i) \subseteq 1..made'
      BY <3>2 DEF WholeInv, Owned
    <3>8. \A x \in Slot : Loose(x)' \subseteq 1..made'
      BY <3>2, <3>5 DEF WholeInv, Owned
    <3>9. \A i \in BlockId : Saved(i) => \A x \in Slot : BlocksOf(i) \cap Loose(x)' = {}
      BY <3>1, <3>5 DEF WholeInv, Owned
    <3> HIDE DEF t
    <3> QED
      BY <3>3, <3>4, <3>6, <3>7, <3>8, <3>9 DEF WholeInv, Owned
  <2> QED
    BY <1>1, <2>2, <2>3
<1>9. TypeInv'
  BY TypeUpload DEF WholeInv
<1> QED
  BY <1>0, <1>5, <1>7, <1>8, <1>9, NamesKept, SavedKept DEF WholeInv

\* The meta block takes over the blocks of the upload.
LEMMA WholeUpFileEnd ==
  ASSUME WholeInv, NEW s \in Slot, UpFileEnd(s)
  PROVE  WholeInv'
<1> DEFINE t == task[s]
<1>0. /\ t.pc = "data" /\ UNCHANGED <<tree, snap, net, accepted>>
      /\ t \in Request /\ t.p \in Path /\ t.data \subseteq 0..MaxBlocks
      /\ t.id = 0 /\ t.data \ {0} \subseteq stored /\ TypeInv'
  <2>1. t.pc = "data" /\ UNCHANGED <<tree, snap, net, accepted>>
    BY DEF UpFileEnd, At, story
  <2>2. t \in Request /\ t.p \in Path /\ t.data \subseteq 0..MaxBlocks
    BY <2>1, AtTask DEF WholeInv, Proper
  <2>3. t.id = 0 /\ t.data \ {0} \subseteq stored
    BY <2>1 DEF WholeInv, Handled
  <2> QED
    BY <2>1, <2>2, <2>3, TypeUpload DEF WholeInv
<1>1. CASE /\ made < MaxBlocks /\ made' = made + 1 /\ stored' = stored \cup {made'}
           /\ meta' = [meta EXCEPT ![made'] = [path |-> t.p, data |-> t.data]]
           /\ Step(s, [t EXCEPT !.pc = "add", !.id = made'])
  <2>0. PICK k \in Int : k = made'
    BY <1>1, NamespaceBounds DEF WholeInv, TypeInv, FileTypeOK
  <2> DEFINE u == [t EXCEPT !.pc = "add", !.id = k]
  <2>1. u.pc = "add" /\ u.id = k /\ u.p = t.p
    <3> HIDE DEF t
    <3> QED
      BY <1>0 DEF Request
  <2>2. task' = [task EXCEPT ![s] = u]
    BY <1>1, <2>0 DEF Step
  <2> HIDE DEF u
  <2>3. task'[s] = u /\ \A x \in Slot \ {s} : task'[x] = task[x]
    BY <2>2 DEF WholeInv, TypeInv, FileTypeOK
  <2>4. /\ made \in Nat /\ k \in BlockId /\ k > made /\ k # 0
        /\ 1..made \subseteq 1..k /\ k \in 1..k
    BY <1>1, <2>0, NamespaceBounds DEF WholeInv, TypeInv, FileTypeOK, BlockId
  <2>5. /\ meta'[k].path = t.p /\ meta'[k].data = t.data
        /\ \A i \in BlockId \ {k} : meta'[i] = meta[i]
    <3> DEFINE r == [path |-> t.p, data |-> t.data]
    <3>1. r.path = t.p /\ r.data = t.data
      OBVIOUS
    <3> HIDE DEF r
    <3>2. meta' = [meta EXCEPT ![k] = r]
      BY <1>1, <2>0 DEF r
    <3>3. meta'[k] = r /\ \A i \in BlockId \ {k} : meta'[i] = meta[i]
      BY <2>4, <3>2 DEF WholeInv, TypeInv, FileTypeOK
    <3> QED
      BY <3>1, <3>3
  <2>6. /\ k \notin 1..made /\ ~Saved(k)
        /\ \A i \in BlockId : Saved(i) => k \notin BlocksOf(i)
        /\ \A x \in Slot : k \notin Loose(x)
    BY <1>1, <2>0, Fresh
  <2>7. BlocksOf(k)' = {k} \cup Loose(s) /\ Saved(k)'
    BY <1>0, <2>4, <2>5, PathAssumption DEF BlocksOf, Loose, Saved
  <2>8. Keeps
    BY <1>0, <1>1, <2>5, <2>6 DEF Keeps
  <2>9. PICK p : p = t.p
    OBVIOUS
  <2>10. Handled(task[s])'
    <3>1. {k} \cup (t.data \ {0}) \subseteq stored'
      BY <1>0, <1>1, <2>0
    <3>2. Loose(s) = t.data \ {0}
      BY <1>0 DEF Loose
    <3>3. Whole(p, k)'
      BY <2>5, <2>7, <2>9, <3>1, <3>2 DEF Whole
    <3> QED
      BY <2>1, <2>3, <2>9, <3>3 DEF Handled
  <2>11. \A x \in Slot : Handled(task[x])'
    <3>1. \A x \in Slot \ {s} : task[x].pc = "data" => task[x].data \ {0} \subseteq stored'
      BY <1>1 DEF WholeInv, Handled
    <3> QED
      BY <2>3, <2>8, <2>10, <3>1, HandledStep
  <2>12. Owned'
    <3>1. /\ \A i \in BlockId \ {k} : (Saved(i)' <=> Saved(i)) /\ BlocksOf(i)' = BlocksOf(i)
      BY <2>5 DEF Saved, BlocksOf
    <3>2. /\ \A x \in Slot \ {s} : Loose(x)' = Loose(x)
          /\ Loose(s)' = {}
      BY <2>1, <2>3 DEF Loose
    <3>3. \A i \in BlockId : i > made' => meta'[i] = NoMeta
      BY <1>1, <2>0, <2>4, <2>5 DEF WholeInv, Owned, BlockId
    <3>4. \A i \in BlockId : Saved(i)' => BlocksOf(i)' \subseteq 1..k
      BY <2>4, <2>7, <3>1 DEF WholeInv, Owned
    <3>5. \A x \in Slot : Loose(x)' \subseteq 1..k
      BY <2>4, <3>2 DEF WholeInv, Owned
    <3>6. \A i, j \in BlockId : Saved(i)' /\ Saved(j)' /\ i # j => BlocksOf(i)' \cap BlocksOf(j)' = {}
      <4>1. \A i \in BlockId \ {k} : Saved(i) => BlocksOf(i) \cap BlocksOf(k)' = {}
        BY <2>6, <2>7 DEF WholeInv, Owned
      <4>2. \A i, j \in BlockId : Saved(i) /\ Saved(j) /\ i # j => BlocksOf(i) \cap BlocksOf(j) = {}
        BY DEF WholeInv, Owned
      <4> QED
        BY <3>1, <4>1, <4>2
    <3>7. \A i \in BlockId : Saved(i)' => \A x \in Slot : BlocksOf(i)' \cap Loose(x)' = {}
      <4>1. \A x \in Slot \ {s} : BlocksOf(k)' \cap Loose(x) = {}
        BY <2>6, <2>7 DEF WholeInv, Owned
      <4>2. \A i \in BlockId : Saved(i) => \A x \in Slot : BlocksOf(i) \cap Loose(x) = {}
        BY DEF WholeInv, Owned
      <4> QED
        BY <3>1, <3>2, <4>1, <4>2
    <3>8. \A x, y \in Slot : x # y => Loose(x)' \cap Loose(y)' = {}
      BY <3>2 DEF WholeInv, Owned
    <3> QED
      BY <2>0, <3>3, <3>4, <3>5, <3>6, <3>7, <3>8 DEF Owned
  <2> QED
    BY <1>0, <2>8, <2>11, <2>12, NamesKept, SavedKept DEF WholeInv
<1>2. CASE Step(s, [t EXCEPT !.pc = "add"]) /\ UNCHANGED blocks
  <2> DEFINE u == [t EXCEPT !.pc = "add"]
  <2>1. u.pc = "add" /\ u.id = 0
    <3> HIDE DEF t
    <3> QED
      BY <1>0 DEF Request
  <2>2. task' = [task EXCEPT ![s] = u]
    BY <1>2 DEF Step
  <2> HIDE DEF u
  <2>3. task'[s] = u /\ \A x \in Slot \ {s} : task'[x] = task[x]
    BY <2>2 DEF WholeInv, TypeInv, FileTypeOK
  <2>4. UNCHANGED <<stored, meta, made>> /\ Keeps
    BY <1>0, <1>2, BlocksKept DEF blocks
  <2>5. Handled(task[s])'
    BY <2>1, <2>3 DEF Handled
  <2>6. \A x \in Slot : Handled(task[x])'
    BY <2>3, <2>4, <2>5, HandledStep DEF WholeInv, Handled
  <2>7. \A x \in Slot : Loose(x)' \subseteq Loose(x)
    BY <2>1, <2>3 DEF Loose
  <2> QED
    BY <1>0, <2>4, <2>6, <2>7, LooseLess, NamesKept, SavedKept DEF WholeInv
<1> QED
  BY <1>1, <1>2 DEF UpFileEnd

\* A message is for a file that is whole.
LEMMA BroadcastWhole ==
  ASSUME TypeInv, NEW n, NEW cmd, NEW p \in Path, NEW id, NEW C, Broadcast(n, cmd, p, id, C)
  PROVE  \A m \in BagToSet(net') : m \in BagToSet(net) \/ (m.path = p /\ m.id = id)
<1>1. PICK R \in SUBSET (up \ {n}) :
        net' = net (+) SetToBag([to : R, cmd : {cmd}, path : {p}, id : {id}])
  BY DEF Broadcast
<1> DEFINE S == [to : R, cmd : {cmd}, path : {p}, id : {id}]
<1>2. \A m \in S : m.path = p /\ m.id = id
  OBVIOUS
<1> HIDE DEF S
<1>3. DOMAIN net' = DOMAIN net \cup S
  BY <1>1, BagPlus DEF TypeInv, NetOK, S
<1> QED
  BY <1>2, <1>3 DEF BagToSet

LEMMA WholeAddFile ==
  ASSUME WholeInv, NEW s \in Slot, AddFile(s)
  PROVE  WholeInv'
<1> DEFINE t == task[s]
<1>0. /\ t.pc = "add" /\ UNCHANGED <<up, snap, net, stored, meta, made, accepted>>
      /\ t \in Request /\ t.p \in Path /\ t.n \in Node /\ t.n \in up /\ t.id \in 0..MaxBlocks
      /\ TypeInv /\ TypeInv'
  <2>1. t.pc = "add" /\ UNCHANGED <<up, snap, net, stored, meta, made, accepted>>
    BY DEF AddFile, At, blocks
  <2> QED
    BY <2>1, AtTask, TypeUpload DEF WholeInv, Proper
<1>1. Keeps
  BY <1>0, BlocksKept
<1>2. PICK u : task' = [task EXCEPT ![s] = u] /\ (u = Idle \/ u = [t EXCEPT !.pc = "tell"])
  BY DEF AddFile, Step
<1>3. u.pc \in {"idle", "tell"} /\ (u.pc = "tell" => u.p = t.p /\ u.id = t.id)
  <2> HIDE DEF t
  <2> QED
    BY <1>0, <1>2 DEF Request, Idle
<1>4. task'[s] = u /\ \A x \in Slot \ {s} : task'[x] = task[x]
  BY <1>2 DEF WholeInv, TypeInv, FileTypeOK
<1>5. t.id > 0 => Whole(t.p, t.id)
  BY <1>0 DEF WholeInv, Handled
<1>6. Handled(task[s])'
  BY <1>1, <1>3, <1>4, <1>5, WholeKept DEF Handled
<1>7. \A x \in Slot : Handled(task[x])'
  BY <1>0, <1>1, <1>4, <1>6, HandledStep DEF WholeInv, Handled
<1>8. \A x \in Slot : Loose(x)' \subseteq Loose(x)
  BY <1>3, <1>4 DEF Loose
<1>9. \A n \in Node, p \in Path : tree'[n][p] = tree[n][p] \/ (p = t.p /\ tree'[n][p] = t.id)
  <2>1. CASE Add(t.n, t.p, t.id)
    <3>1. tree' = [tree EXCEPT ![t.n][t.p] = t.id]
      BY <2>1 DEF Add
    <3>2. t.id \in MetaID /\ tree \in [Node -> [Path -> MetaID]]
      BY <1>0, NamespaceBounds DEF MetaID, Absent, TypeInv, FileTypeOK
    <3> HIDE DEF t
    <3> QED
      BY <1>0, <3>1, <3>2, PutIn
  <2>2. CASE UNCHANGED tree
    BY <2>2
  <2> QED
    BY <2>1, <2>2 DEF AddFile
<1>10. Names'
  BY <1>0, <1>1, <1>5, <1>9, NamesKept
<1> QED
  BY <1>0, <1>1, <1>7, <1>8, <1>10, LooseLess, SavedKept DEF WholeInv

LEMMA WholeTell ==
  ASSUME WholeInv, NEW s \in Slot, TellNewFile(s)
  PROVE  WholeInv'
<1> DEFINE t == task[s]
<1>0. /\ t.pc = "tell" /\ UNCHANGED <<tree, snap, stored, meta, made, accepted>>
      /\ task' = [task EXCEPT ![s] = Idle] /\ Broadcast(t.n, "newfile", t.p, t.id, {})
      /\ t.p \in Path /\ TypeInv /\ TypeInv'
  <2>1. /\ t.pc = "tell" /\ UNCHANGED <<tree, snap, stored, meta, made, accepted>>
        /\ task' = [task EXCEPT ![s] = Idle] /\ Broadcast(t.n, "newfile", t.p, t.id, {})
    BY DEF TellNewFile, At, blocks, Step
  <2> QED
    BY <2>1, AtTask, TypeUpload DEF WholeInv
<1>1. Keeps
  BY <1>0, BlocksKept
<1>2. task'[s] = Idle /\ \A x \in Slot \ {s} : task'[x] = task[x]
  BY <1>0 DEF TypeInv, FileTypeOK
<1>3. \A x \in Slot : Handled(task[x])'
  <2>1. Handled(task[s])'
    BY <1>2 DEF Handled, Idle
  <2> QED
    BY <1>0, <1>1, <1>2, <2>1, HandledStep DEF WholeInv, Handled
<1>4. \A x \in Slot : Loose(x)' \subseteq Loose(x)
  BY <1>2 DEF Loose, Idle
<1>5. t.id > 0 => Whole(t.p, t.id)
  BY <1>0 DEF WholeInv, Handled
<1>6. \A m \in BagToSet(net') : m \in BagToSet(net) \/ (m.path = t.p /\ m.id = t.id)
  <2> HIDE DEF t
  <2> QED
    BY <1>0, BroadcastWhole
<1>7. Names'
  BY <1>0, <1>1, <1>5, <1>6, NamesKept
<1> QED
  BY <1>0, <1>1, <1>3, <1>4, <1>7, LooseLess, SavedKept DEF WholeInv

LEMMA WholeHangUp ==
  ASSUME WholeInv, NEW s \in Slot, HangUp(s)
  PROVE  WholeInv'
<1> DEFINE t == task[s]
           todo == ToClean(t.data, 0)
<1>0. /\ t.pc = "data" /\ UNCHANGED <<tree, snap, net, stored, meta, made, accepted>>
      /\ t \in Request /\ t.id = 0 /\ TypeInv'
  <2>1. t.pc = "data" /\ UNCHANGED <<tree, snap, net, stored, meta, made, accepted>>
    BY DEF HangUp, At, blocks, story
  <2> QED
    BY <2>1, AtTask, TypeUpload DEF WholeInv, Proper, Handled
<1>1. Keeps
  BY <1>0, BlocksKept
<1>2. PICK u : task' = [task EXCEPT ![s] = u]
               /\ (u = Idle \/ u = [t EXCEPT !.pc = "clean", !.todo = todo])
  BY DEF HangUp, Step
<1>3. u.pc \in {"idle", "clean"} /\ (u.pc = "clean" => u.id = 0 /\ u.todo = todo)
  <2> HIDE DEF t, todo
  <2>1. CASE u = Idle
    BY <2>1 DEF Idle
  <2>2. CASE u = [t EXCEPT !.pc = "clean", !.todo = todo]
    BY <1>0, <2>2 DEF Request
  <2> QED
    BY <1>2, <2>1, <2>2
<1>4. todo \subseteq t.data \ {0}
  BY DEF ToClean
<1>5. task'[s] = u /\ \A x \in Slot \ {s} : task'[x] = task[x]
  BY <1>2 DEF WholeInv, TypeInv, FileTypeOK
<1> HIDE DEF todo
<1>6. Handled(task[s])'
  BY <1>3, <1>5 DEF Handled
<1>7. \A x \in Slot : Handled(task[x])'
  BY <1>0, <1>1, <1>5, <1>6, HandledStep DEF WholeInv, Handled
<1>8. \A x \in Slot : Loose(x)' \subseteq Loose(x)
  BY <1>0, <1>3, <1>4, <1>5 DEF Loose
<1> QED
  BY <1>0, <1>1, <1>7, <1>8, LooseLess, NamesKept, SavedKept DEF WholeInv

\* A step that saves and deletes no block.
LEMMA WholeMove ==
  ASSUME WholeInv, TypeInv', UNCHANGED <<stored, meta, made>>, accepted \subseteq accepted',
         \A id \in accepted' : id \in accepted \/ Saved(id),
         \A s \in Slot : \/ task'[s] = task[s]
                         \/ Handled(task[s])' /\ Loose(s)' \subseteq Loose(s),
         \A n \in Node, p \in Path : tree'[n][p] > 0 =>
           tree'[n][p] = tree[n][p] \/ Whole(p, tree'[n][p]),
         \A n \in Node, p \in Path : snap'[n][p] > 0 =>
           snap'[n][p] = snap[n][p] \/ Whole(p, snap'[n][p]),
         \A m \in BagToSet(net') : m.id > 0 => m \in BagToSet(net) \/ Whole(m.path, m.id)
  PROVE  WholeInv'
<1>1. Keeps
  BY BlocksKept
<1>2. ASSUME NEW s \in Slot
      PROVE  Handled(task[s])' /\ Loose(s)' \subseteq Loose(s)
  <2>1. CASE task'[s] = task[s]
    <3>1. task[s].pc = "data" => task[s].data \ {0} \subseteq stored'
      BY DEF WholeInv, Handled
    <3>2. Handled(task[s])'
      BY <1>1, <2>1, <3>1, HandledKept
    <3> QED
      BY <2>1, <3>2 DEF Loose
  <2> QED
    BY <2>1
<1>3. Owned'
  BY <1>2, LooseLess
<1>4. Names'
  BY <1>1, NamesKept
<1> QED
  BY <1>1, <1>2, <1>3, <1>4, SavedKept DEF WholeInv

LEMMA WholeRmFile ==
  ASSUME WholeInv, NEW s \in Slot, NEW n \in up, NEW p \in Path, RmFile(s, n, p)
  PROVE  WholeInv'
<1> DEFINE u == [pc |-> "rm", n |-> n, p |-> p, id |-> tree[n][p], data |-> {}, todo |-> {}]
<1>1. /\ task' = [task EXCEPT ![s] = u] /\ tree[n][p] > 0
      /\ accepted' = accepted \cup {tree[n][p]}
      /\ UNCHANGED <<tree, snap, net, stored, meta, made>>
  BY DEF RmFile, Request1, blocks
<1>2. task'[s] = u /\ \A x \in Slot \ {s} : task'[x] = task[x]
  BY <1>1 DEF WholeInv, TypeInv, FileTypeOK
<1>3. Handled(task[s])'
  BY <1>1, <1>2 DEF Handled
<1>4. Loose(s)' \subseteq Loose(s)
  BY <1>2 DEF Loose
<1>5. Saved(tree[n][p])
  BY <1>1 DEF WholeInv, TypeInv, FileTypeOK, Names, Whole
<1>6. TypeInv'
  BY TypeRemove DEF WholeInv
<1> QED
  BY <1>1, <1>2, <1>3, <1>4, <1>5, <1>6, WholeMove

LEMMA WholeRmEntry ==
  ASSUME WholeInv, NEW s \in Slot, RmEntry(s)
  PROVE  WholeInv'
<1> DEFINE t == task[s]
<1>0. /\ t.pc = "rm" /\ UNCHANGED <<up, snap, net, stored, meta, made, accepted>>
      /\ t \in Request /\ t.p \in Path /\ t.n \in up
      /\ TypeInv /\ TypeInv' /\ t.id \in accepted /\ Remove(t.n, t.p)
  <2>1. /\ t.pc = "rm" /\ UNCHANGED <<up, snap, net, stored, meta, made, accepted>>
        /\ Remove(t.n, t.p)
    BY DEF RmEntry, At, blocks
  <2> QED
    BY <2>1, AtTask, TypeRemove DEF WholeInv, Proper, Handled
<1>1. PICK u : task' = [task EXCEPT ![s] = u] /\ u = [t EXCEPT !.pc = "load"]
  BY DEF RmEntry, Step
<1>2. u.pc = "load" /\ u.id = t.id
  <2> HIDE DEF t
  <2> QED
    BY <1>0, <1>1 DEF Request
<1>3. task'[s] = u /\ \A x \in Slot \ {s} : task'[x] = task[x]
  BY <1>1 DEF WholeInv, TypeInv, FileTypeOK
<1>4. Handled(task[s])' /\ Loose(s)' \subseteq Loose(s)
  BY <1>0, <1>2, <1>3 DEF Handled, Loose
<1>5. \A n \in Node, p \in Path : tree'[n][p] > 0 => tree'[n][p] = tree[n][p]
  <2> HIDE DEF t
  <2>1. /\ \A x \in Node \ {t.n} : tree'[x] = tree[x]
        /\ tree[t.n][t.p] > 0 => tree'[t.n][t.p] = Absent
        /\ ~(tree[t.n][t.p] > 0) => tree' = tree
        /\ \A q \in Path \ {t.p} : tree'[t.n][q] = tree[t.n][q]
    BY <1>0, RemoveType
  <2> QED
    BY <2>1 DEF Absent
<1> QED
  BY <1>0, <1>3, <1>4, <1>5, WholeMove DEF WholeInv

\* A machine that dies.
LEMMA WholeDie ==
  ASSUME WholeInv, NEW n \in Node, Die(n), snap' \in [Node -> Tree],
         \A x \in Node, p \in Path : snap'[x][p] > 0 =>
           snap'[x][p] = snap[x][p] \/ Whole(p, snap'[x][p])
  PROVE  WholeInv'
<1>1. /\ UNCHANGED <<stored, meta, made, accepted>>
      /\ tree'[n] = NoTree /\ \A x \in Node \ {n} : tree'[x] = tree[x]
      /\ \A s \in Slot : task'[s] = task[s] \/ task'[s] = Idle
      /\ IsABag(net') /\ DOMAIN net' = {m \in DOMAIN net : m.to # n}
  BY DieType DEF WholeInv
<1>2. TypeInv'
  BY DieKeeps DEF WholeInv
<1>3. \A s \in Slot : task'[s] = Idle => Handled(task[s])' /\ Loose(s)' \subseteq Loose(s)
  BY DEF Handled, Loose, Idle
<1>4. \A x \in Node, p \in Path : tree'[x][p] > 0 => tree'[x][p] = tree[x][p]
  BY <1>1 DEF NoTree, Absent
<1>5. BagToSet(net') \subseteq BagToSet(net)
  BY <1>1 DEF BagToSet
<1> QED
  BY <1>1, <1>2, <1>3, <1>4, <1>5, WholeMove DEF WholeInv

LEMMA WholeRmLoad ==
  ASSUME WholeInv, NEW s \in Slot, RmLoad(s)
  PROVE  WholeInv'
<1> DEFINE t == task[s]
<1>0. /\ t.pc = "load" /\ t \in Request /\ t.n \in Node /\ t.id # 0 /\ snap' = snap
      /\ TypeInv' /\ t.id \in accepted
  <2>1. t.pc = "load" /\ snap' = snap
    BY DEF RmLoad, At
  <2> QED
    BY <2>1, AtTask, RmLoadType DEF WholeInv, Proper, Handled
<1>1. CASE Die(t.n)
  <2>1. snap' \in [Node -> Tree]
    BY <1>0 DEF TypeInv, FileTypeOK, Tree, MetaID
  <2> QED
    BY <1>0, <1>1, <2>1, WholeDie
<1>2. CASE /\ Step(s, [t EXCEPT !.pc = "clean", !.todo = ToClean(meta[t.id].data, t.id)])
           /\ UNCHANGED <<up, tree, orphan, net, blocks, story, faults>>
  <2> DEFINE todo == ToClean(meta[t.id].data, t.id)
  <2>1. PICK u : task' = [task EXCEPT ![s] = u] /\ u = [t EXCEPT !.pc = "clean", !.todo = todo]
    BY <1>2 DEF Step
  <2>2. u.pc = "clean" /\ u.todo = todo /\ u.id = t.id
    <3> HIDE DEF t, todo
    <3> QED
      BY <1>0, <2>1 DEF Request
  <2>3. task'[s] = u /\ \A x \in Slot \ {s} : task'[x] = task[x]
    BY <2>1 DEF WholeInv, TypeInv, FileTypeOK
  <2>4. todo \subseteq BlocksOf(t.id) /\ UNCHANGED <<tree, net, stored, meta, made, accepted>>
        /\ \A i : BlocksOf(i)' = BlocksOf(i)
    BY <1>2 DEF ToClean, BlocksOf, blocks, story
  <2> HIDE DEF todo
  <2>5. Handled(task[s])'
    BY <1>0, <2>2, <2>3, <2>4 DEF Handled
  <2>6. Loose(s)' \subseteq Loose(s)
    BY <1>0, <2>2, <2>3 DEF Loose
  <2> QED
    BY <1>0, <2>3, <2>4, <2>5, <2>6, WholeMove DEF WholeInv
<1> QED
  BY <1>1, <1>2 DEF RmLoad

\* Only blocks of removed files and of abandoned uploads are deleted.
LEMMA WholeCleanBlock ==
  ASSUME WholeInv, NEW s \in Slot, CleanBlock(s)
  PROVE  WholeInv'
<1> DEFINE t == task[s]
<1>0. /\ t.pc = "clean" /\ UNCHANGED <<tree, snap, net, meta, made, accepted>>
      /\ t \in Request /\ TypeInv'
      /\ t.id # 0 => t.id \in accepted /\ t.todo \subseteq BlocksOf(t.id)
  <2>1. t.pc = "clean" /\ UNCHANGED <<tree, snap, net, meta, made, accepted>>
    BY DEF CleanBlock, At
  <2> QED
    BY <2>1, AtTask, TypeRemove DEF WholeInv, Proper, Handled
<1>b. PICK b \in t.todo : /\ stored' = stored \ {b} \/ stored' = stored
                         /\ task' = [task EXCEPT ![s] = [t EXCEPT !.todo = @ \ {b}]]
  BY DEF CleanBlock, Step
<1> DEFINE u == [t EXCEPT !.todo = @ \ {b}]
<1>1. /\ stored' = stored \ {b} \/ stored' = stored
      /\ task' = [task EXCEPT ![s] = u] /\ u = [t EXCEPT !.todo = @ \ {b}]
  BY <1>b
<1> HIDE DEF u
<1>2. u.pc = "clean" /\ u.id = t.id /\ u.todo = t.todo \ {b}
  <2> HIDE DEF t
  <2> QED
    BY <1>0, <1>1 DEF Request
<1>3. task'[s] = u /\ \A x \in Slot \ {s} : task'[x] = task[x]
  BY <1>1 DEF WholeInv, TypeInv, FileTypeOK
<1>4. /\ \A i \in BlockId : Saved(i) /\ i \notin accepted => b \notin BlocksOf(i)
      /\ \A x \in Slot \ {s} : b \notin Loose(x)
  <2>1. CASE t.id = 0
    <3>1. b \in Loose(s)
      BY <1>0, <1>1, <2>1 DEF Loose
    <3> QED
      BY <3>1 DEF WholeInv, Owned
  <2>2. CASE t.id # 0
    <3>1. b \in BlocksOf(t.id) /\ t.id \in accepted /\ Saved(t.id) /\ t.id \in BlockId
          /\ t.pc = "clean"
      BY <1>0, <1>1, <2>2 DEF WholeInv, Saved
    <3>2. \A i \in BlockId : Saved(i) /\ i # t.id => BlocksOf(i) \cap BlocksOf(t.id) = {}
      BY <3>1 DEF WholeInv, Owned
    <3>3. \A x \in Slot : BlocksOf(t.id) \cap Loose(x) = {}
      BY <3>1 DEF WholeInv, Owned
    <3> QED
      BY <3>1, <3>2, <3>3
  <2> QED
    BY <2>1, <2>2
<1>5. Keeps
  BY <1>0, <1>1, <1>4 DEF Keeps
<1>6. \A x \in Slot \ {s} : task[x].pc = "data" => task[x].data \ {0} \subseteq stored'
  <2>1. \A x \in Slot \ {s} : task[x].pc = "data" => task[x].data \ {0} = Loose(x)
    BY DEF Loose
  <2>2. \A x \in Slot \ {s} : task[x].pc = "data" => task[x].data \ {0} \subseteq stored
    BY DEF WholeInv, Handled
  <2> QED
    BY <1>1, <1>4, <2>1, <2>2
<1>7. Handled(task[s])'
  <2>1. \A i : BlocksOf(i)' = BlocksOf(i)
    BY <1>0 DEF BlocksOf
  <2> QED
    BY <1>0, <1>2, <1>3, <2>1 DEF Handled
<1>8. \A x \in Slot : Handled(task[x])'
  BY <1>3, <1>5, <1>6, <1>7, HandledStep
<1>9. \A x \in Slot : Loose(x)' \subseteq Loose(x)
  BY <1>0, <1>2, <1>3 DEF Loose
<1> QED
  BY <1>0, <1>5, <1>8, <1>9, LooseLess, NamesKept, SavedKept DEF WholeInv

LEMMA WholeCleanEnd ==
  ASSUME WholeInv, NEW s \in Slot, CleanEnd(s)
  PROVE  WholeInv'
<1> DEFINE t == task[s]
<1>0. /\ t.pc = "clean" /\ UNCHANGED <<tree, snap, stored, meta, made, accepted>>
      /\ task' = [task EXCEPT ![s] = Idle] /\ t.p \in Path /\ TypeInv /\ TypeInv'
  <2>1. /\ t.pc = "clean" /\ UNCHANGED <<tree, snap, stored, meta, made, accepted>>
        /\ task' = [task EXCEPT ![s] = Idle]
    BY DEF CleanEnd, At, blocks, Step
  <2> QED
    BY <2>1, AtTask, TypeRemove DEF WholeInv
<1>1. task'[s] = Idle /\ \A x \in Slot \ {s} : task'[x] = task[x]
  BY <1>0 DEF TypeInv, FileTypeOK
<1>2. Handled(task[s])' /\ Loose(s)' \subseteq Loose(s)
  BY <1>1 DEF Handled, Loose, Idle
<1>3. \A m \in BagToSet(net') : m \in BagToSet(net) \/ m.id = 0
  <2>1. CASE net' = net
    BY <2>1
  <2>2. CASE Broadcast(t.n, "rmfile", t.p, 0, {})
    <3> HIDE DEF t
    <3> QED
      BY <1>0, <2>2, BroadcastWhole
  <2> QED
    BY <2>1, <2>2 DEF CleanEnd
<1> QED
  BY <1>0, <1>1, <1>2, <1>3, WholeMove DEF WholeInv

LEMMA WholeMachine ==
  ASSUME WholeInv, NEW n \in Node, Machine(n)
  PROVE  WholeInv'
<1>0. /\ snap \in [Node -> Tree] /\ tree \in [Node -> Tree] /\ TypeInv /\ TypeInv'
      /\ Absent \in MetaID /\ 0 \in 0..MaxBlocks /\ Dir \in MetaID
  BY TypeMachine, NamespaceBounds DEF WholeInv, TypeInv, FileTypeOK, Tree, MetaID, Absent, Dir
<1>1. CASE Crash(n)
  BY <1>0, <1>1, WholeDie DEF Crash
<1>2. CASE Stop(n)
  <2> DEFINE kept == [p \in Path |->
       IF (above[p] \cup {p}) \cap orphan[n] = {} THEN tree[n][p] ELSE Absent]
  <2>1. kept \in Tree /\ \A p \in Path : kept[p] > 0 => kept[p] = tree[n][p]
    BY <1>0 DEF Tree, Absent
  <2>2. snap' = [snap EXCEPT ![n] = kept]
    BY <1>2 DEF Stop
  <2> HIDE DEF kept
  <2>3. snap' \in [Node -> Tree] /\ snap'[n] = kept /\ \A x \in Node \ {n} : snap'[x] = snap[x]
    BY <1>0, <2>1, <2>2
  <2>4. \A p \in Path : snap'[n][p] > 0 => Whole(p, snap'[n][p])
    BY <2>1, <2>3 DEF WholeInv, Names
  <2> QED
    BY <1>2, <2>3, <2>4, WholeDie DEF Stop
<1>3. CASE Start(n)
  <2>1. /\ tree'[n] = snap[n] /\ \A x \in Node \ {n} : tree'[x] = tree[x]
        /\ UNCHANGED <<snap, task, net, stored, meta, made, accepted>>
    BY <1>0, <1>3 DEF Start, blocks, story
  <2>2. \A x \in Node, p \in Path : tree'[x][p] > 0 =>
          tree'[x][p] = tree[x][p] \/ Whole(p, tree'[x][p])
    BY <2>1 DEF WholeInv, Names
  <2> QED
    BY <1>0, <2>1, <2>2, WholeMove DEF WholeInv
<1>4. ASSUME NEW p \in Path, AddDir(n, p)
      PROVE  WholeInv'
  <2>1. /\ UNCHANGED <<snap, task, stored, meta, made, accepted>>
        /\ n \in up /\ tree' = [tree EXCEPT ![n][p] = Dir] /\ up' = up
        /\ \E C : Broadcast(n, "newdir", p, 0, C)
    BY <1>4 DEF AddDir, Add, blocks
  <2>2. \A x \in Node, q \in Path : tree'[x][q] = tree[x][q] \/ tree'[x][q] = 0
    BY <1>0, <2>1, TreeType DEF Dir
  <2>3. \A m \in BagToSet(net') : m \in BagToSet(net) \/ m.id = 0
    BY <1>0, <2>1, BroadcastWhole
  <2> QED
    BY <1>0, <2>1, <2>2, <2>3, WholeMove DEF WholeInv
<1>5. ASSUME NEW p \in Path, RmDir(n, p)
      PROVE  WholeInv'
  <2>1. PICK G : /\ tree' = [tree EXCEPT ![n] = [q \in Path |-> IF q \in G THEN Absent ELSE @[q]]]
                 /\ UNCHANGED <<snap, task, net, stored, meta, made, accepted>>
    BY <1>5 DEF RmDir, blocks
  <2>2. \A x \in Node, q \in Path : tree'[x][q] > 0 => tree'[x][q] = tree[x][q]
    BY <1>0, <2>1 DEF Absent
  <2> QED
    BY <1>0, <2>1, <2>2, WholeMove DEF WholeInv
<1>6. ASSUME NEW p \in Path, GetFile(n, p)
      PROVE  WholeInv'
  BY <1>0, <1>6, WholeDie DEF GetFile
<1> QED
  BY <1>1, <1>2, <1>3, <1>4, <1>5, <1>6 DEF Machine

LEMMA WholeBroadcast ==
  ASSUME WholeInv, NEW m \in BagToSet(net), HandleBroadcast(m)
  PROVE  WholeInv'
<1>0. /\ TypeInv /\ TypeInv' /\ m.to \in up /\ m.path \in Path /\ m.id \in 0..MaxBlocks
      /\ m.id \in MetaID /\ up' = up
      /\ UNCHANGED <<snap, task, stored, meta, made, accepted>>
      /\ net' = net (-) SetToBag({m})
  <2>1. TypeInv /\ TypeInv'
    BY TypeBroadcast DEF WholeInv
  <2>2. m.to \in up /\ m \in Msg
    BY <2>1 DEF TypeInv, NetOK
  <2>3. /\ UNCHANGED <<up, snap, task, stored, meta, made, accepted>>
        /\ net' = net (-) SetToBag({m})
    BY DEF HandleBroadcast, blocks
  <2>4. m.path \in Path /\ m.id \in 0..MaxBlocks
    BY <2>2 DEF Msg
  <2> QED
    BY <2>1, <2>2, <2>3, <2>4, NamespaceBounds DEF MetaID, Absent
<1>1. BagToSet(net') \subseteq BagToSet(net)
  BY <1>0, BagMinus DEF TypeInv, NetOK, BagToSet
<1>2. m.id > 0 => Whole(m.path, m.id)
  BY DEF WholeInv, Names
<1>3. \A x \in Node, p \in Path : tree'[x][p] > 0 =>
        tree'[x][p] = tree[x][p] \/ (p = m.path /\ tree'[x][p] = m.id)
  <2>1. CASE Remove(m.to, m.path)
    <3>1. /\ \A x \in Node \ {m.to} : tree'[x] = tree[x]
          /\ tree[m.to][m.path] > 0 => tree'[m.to][m.path] = Absent
          /\ ~(tree[m.to][m.path] > 0) => tree' = tree
          /\ \A q \in Path \ {m.path} : tree'[m.to][q] = tree[m.to][q]
      BY <1>0, <2>1, RemoveType
    <3> QED
      BY <3>1 DEF Absent
  <2>2. CASE Add(m.to, m.path, m.id)
    <3>1. tree' = [tree EXCEPT ![m.to][m.path] = m.id]
      BY <2>2 DEF Add
    <3>2. /\ \A x \in Node \ {m.to} : tree'[x] = tree[x]
          /\ tree'[m.to][m.path] = m.id
          /\ \A q \in Path \ {m.path} : tree'[m.to][q] = tree[m.to][q]
      <4>1. tree \in [Node -> [Path -> MetaID]] /\ m.to \in Node
        BY <1>0 DEF TypeInv, FileTypeOK, MetaID
      <4> QED
        BY <1>0, <3>1, <4>1, PutIn
    <3> QED
      BY <3>2
  <2>3. CASE UNCHANGED tree
    BY <2>3
  <2> QED
    BY <2>1, <2>2, <2>3 DEF HandleBroadcast
<1> QED
  BY <1>0, <1>1, <1>2, <1>3, WholeMove DEF WholeInv

LEMMA WholeNext == WholeInv /\ [Next]_fvars => WholeInv'
<1> SUFFICES ASSUME WholeInv, [Next]_fvars  PROVE WholeInv'
  OBVIOUS
<1>1. CASE \E s \in Slot : Client(s) \/ Handler(s)
  BY <1>1, WholeUpFileMeta, WholeUpFileData, WholeUpFileEnd, WholeAddFile, WholeTell, WholeHangUp,
     WholeRmFile, WholeRmEntry, WholeRmLoad, WholeCleanBlock, WholeCleanEnd DEF Client, Handler
<1>2. CASE \E n \in Node : Machine(n)
  BY <1>2, WholeMachine
<1>3. CASE \E m \in BagToSet(net) : HandleBroadcast(m)
  BY <1>3, WholeBroadcast
<1>4. CASE UNCHANGED fvars
  <2>1. UNCHANGED <<tree, snap, net, task, stored, meta, made, accepted>>
    BY <1>4 DEF fvars
  <2> QED
    BY <1>4, <2>1, TypeNext, WholeMove DEF WholeInv
<1> QED
  BY <1>1, <1>2, <1>3, <1>4 DEF Next

LEMMA WholeInit == Init => WholeInv
<1> SUFFICES ASSUME Init  PROVE WholeInv
  OBVIOUS
<1>1. /\ \A s \in Slot : task[s] = Idle
      /\ \A n \in Node, p \in Path : tree[n][p] = Absent /\ snap[n][p] = Absent
      /\ BagToSet(net) = {} /\ accepted = {} /\ made = 0
      /\ \A i \in BlockId : meta[i] = NoMeta
  BY DEF Init, NoTree, BagToSet, EmptyBag, SetToBag
<1>2. \A i : ~Saved(i)
  BY <1>1 DEF Saved, NoMeta
<1>3. Owned
  BY <1>1, <1>2 DEF Owned, Loose, Idle
<1> QED
  BY <1>1, <1>3, TypeInit DEF WholeInv, Names, Handled, Idle, Absent

\* Uploads, removals and abandoned uploads at any machines, messages in any order,
\* machines that stop and come back with an old snapshot: a file that is listed is
\* saved under its name and whole, until this very file is removed.
THEOREM ListedWholeCorrect == Spec => []ListedWhole
<1>1. WholeInv => ListedWhole
  <2> SUFFICES ASSUME WholeInv, NEW p \in Path,
                      NEW id \in (UNION {{tree[n][p], snap[n][p]} : n \in Node})
                                 \cup {m.id : m \in {m \in BagToSet(net) : m.path = p}},
                      id > 0
               PROVE  Whole(p, id)
    BY DEF ListedWhole, Whole
  <2>1. CASE id \in UNION {{tree[n][p], snap[n][p]} : n \in Node}
    <3>1. PICK n \in Node : id \in {tree[n][p], snap[n][p]}
      BY <2>1
    <3> QED
      BY <3>1 DEF WholeInv, Names
  <2>2. CASE id \in {m.id : m \in {m \in BagToSet(net) : m.path = p}}
    <3>1. PICK m \in BagToSet(net) : m.path = p /\ id = m.id
      BY <2>2
    <3> QED
      BY <3>1 DEF WholeInv, Names
  <2> QED
    BY <2>1, <2>2
<1> QED
  BY <1>1, WholeInit, WholeNext, PTL DEF Spec

-----------------------------------------------------------------------------
(* What removals and abandoned uploads leave behind.                       *)

\* Of file i no block is kept but those in T and those whose deletion was lost.
Gone(i, T) == meta[i].data = {} \/ BlocksOf(i) \cap stored \subseteq missed \cup T

\* Handler s is at the removal of file i.
Serves(s, i) == task[s].pc \in {"rm", "load", "clean"} /\ task[s].id = i

Cleaned(s) == task[s].pc = "clean" /\ task[s].id > 0 => Gone(task[s].id, task[s].todo)

\* The blocks that only handler s knows of.
Held(s) ==
  IF task[s].pc = "data" \/ (task[s].pc = "add" /\ task[s].id = 0) THEN task[s].data \ {0}
  ELSE IF task[s].pc = "clean" /\ task[s].id = 0 THEN task[s].todo
  ELSE {}

\* Block b is a file's, or was given up.
Named(b) ==
  \/ b \in missed \/ meta[b].path # Root
  \/ \E i \in BlockId : b \in meta[i].data
  \/ b \in failed

ReleaseInv ==
  /\ WholeInv
  /\ \A i \in accepted : Gone(i, {}) \/ \E s \in Slot : Serves(s, i)
  /\ \A s \in Slot : Cleaned(s)
  /\ \A b \in stored : Named(b) \/ \E s \in Slot : b \in Held(s)

\* Files are not changed, and what was given up stays so.
Grows ==
  /\ missed \subseteq missed' /\ failed \subseteq failed'
  /\ \A i \in BlockId : meta'[i] = meta[i] \/ meta[i] = NoMeta
  /\ \A i \in BlockId : Saved(i) => BlocksOf(i) \cap stored' \subseteq stored

\* Handler s goes on with its removal until it is done, and lets no block go that
\* nobody else knows of.
Follows(s) ==
  \/ task'[s] = task[s]
  \/ /\ \A i \in accepted : Serves(s, i) => Serves(s, i)' \/ Gone(i, {})'
     /\ Cleaned(s)'
     /\ \A b \in Held(s) \cap stored' : b \in Held(s)' \/ Named(b)'

LEMMA NamedKept ==
  ASSUME Grows, NEW b \in BlockId, Named(b)
  PROVE  Named(b)'
BY DEF Grows, Named, NoMeta

LEMMA GoneKept ==
  ASSUME WholeInv, Grows, NEW i \in accepted, NEW T, Gone(i, T)
  PROVE  Gone(i, T)'
<1>1. i \in BlockId /\ Saved(i) /\ meta'[i] = meta[i]
  BY DEF WholeInv, Saved, Grows, NoMeta
<1> QED
  BY <1>1 DEF Gone, Grows, BlocksOf

LEMMA ReleaseStep ==
  ASSUME ReleaseInv, WholeInv', Grows, \A s \in Slot : Follows(s),
         \A i \in accepted' \ accepted : \E s \in Slot : Serves(s, i)',
         \A b \in stored' \ stored : Named(b)' \/ \E s \in Slot : b \in Held(s)'
  PROVE  ReleaseInv'
<1>1. ASSUME NEW i \in accepted'
      PROVE  Gone(i, {})' \/ \E s \in Slot : Serves(s, i)'
  <2>1. CASE i \notin accepted
    BY <2>1
  <2>2. CASE i \in accepted /\ Gone(i, {})
    BY <2>2, GoneKept DEF ReleaseInv
  <2>3. CASE i \in accepted /\ \E s \in Slot : Serves(s, i)
    BY <2>3 DEF Follows, Serves
  <2> QED
    BY <2>1, <2>2, <2>3 DEF ReleaseInv
<1>2. ASSUME NEW s \in Slot
      PROVE  Cleaned(s)'
  <2>1. CASE task'[s] = task[s] /\ task[s].pc = "clean" /\ task[s].id > 0
    <3>1. task[s].id \in accepted /\ Gone(task[s].id, task[s].todo)
      BY <2>1 DEF ReleaseInv, Cleaned, WholeInv, Handled
    <3>2. PICK i, T : i \in accepted /\ i = task[s].id /\ T = task[s].todo
      BY <3>1
    <3>3. Gone(i, T)'
      BY <3>1, <3>2, GoneKept DEF ReleaseInv
    <3> QED
      BY <2>1, <3>2, <3>3 DEF Cleaned
  <2>2. CASE task'[s] = task[s] /\ ~(task[s].pc = "clean" /\ task[s].id > 0)
    BY <2>2 DEF Cleaned
  <2> QED
    BY <2>1, <2>2 DEF Follows
<1>3. ASSUME NEW b \in stored'
      PROVE  Named(b)' \/ \E s \in Slot : b \in Held(s)'
  <2>1. CASE b \notin stored
    BY <2>1
  <2>2. b \in BlockId
    BY NamespaceBounds DEF WholeInv, TypeInv, FileTypeOK, BlockId
  <2>3. CASE Named(b)
    BY <2>2, <2>3, NamedKept
  <2>4. ASSUME NEW s \in Slot, b \in Held(s)
        PROVE  Named(b)' \/ b \in Held(s)'
    BY <2>4 DEF Follows, Held
  <2> QED
    BY <2>1, <2>3, <2>4 DEF ReleaseInv
<1> QED
  BY <1>1, <1>2, <1>3 DEF ReleaseInv

\* A step that leaves the blocks and the histories alone.
LEMMA Still ==
  ASSUME UNCHANGED <<stored, meta>>, missed \subseteq missed', failed \subseteq failed'
  PROVE  Grows
BY DEF Grows

LEMMA ReleaseUpFileMeta ==
  ASSUME ReleaseInv, WholeInv', NEW s \in Slot, NEW n \in up, NEW p \in Path, UpFileMeta(s, n, p)
  PROVE  ReleaseInv'
<1> DEFINE u == [pc |-> "data", n |-> n, p |-> p, id |-> 0, data |-> {}, todo |-> {}]
<1>1. /\ task' = [task EXCEPT ![s] = u] /\ task[s] = Idle
      /\ UNCHANGED <<stored, meta, accepted, missed, failed>>
  BY DEF UpFileMeta, Request1, blocks, story
<1>2. task'[s] = u /\ \A x \in Slot \ {s} : task'[x] = task[x]
  BY <1>1 DEF ReleaseInv, WholeInv, TypeInv, FileTypeOK
<1>3. Follows(s)
  BY <1>1, <1>2 DEF Follows, Serves, Cleaned, Held, Idle
<1> QED
  BY <1>1, <1>2, <1>3, Still, ReleaseStep DEF Follows

LEMMA ReleaseUpFileData ==
  ASSUME ReleaseInv, WholeInv', NEW s \in Slot, UpFileData(s)
  PROVE  ReleaseInv'
<1> DEFINE t == task[s]
<1>0. /\ t.pc = "data" /\ UNCHANGED <<meta, accepted, missed, failed>> /\ t \in Request
      /\ WholeInv
  BY AtTask DEF UpFileData, At, story, ReleaseInv, WholeInv, Proper
<1>1. PICK b : /\ task' = [task EXCEPT ![s] = [t EXCEPT !.data = @ \cup {b}]]
               /\ \/ made' = made + 1 /\ stored' = stored \cup {b} /\ b = made'
                  \/ b = 0 /\ UNCHANGED stored
  BY DEF UpFileData, Step
<1> DEFINE u == [t EXCEPT !.data = @ \cup {b}]
<1>2. u.pc = "data" /\ u.data = t.data \cup {b} /\ u.id = t.id
  <2> HIDE DEF t
  <2> QED
    BY <1>0 DEF Request
<1> HIDE DEF u
<1>3. task'[s] = u /\ \A x \in Slot \ {s} : task'[x] = task[x]
  BY <1>0, <1>1 DEF WholeInv, TypeInv, FileTypeOK, u
<1>4. b # 0 => b = made' /\ \A i \in BlockId : Saved(i) => b \notin BlocksOf(i)
  BY <1>0, <1>1, Fresh
<1>5. Grows
  BY <1>0, <1>1, <1>4 DEF Grows, BlocksOf
<1>6. Held(s)' = Held(s) \cup ({b} \ {0})
  BY <1>0, <1>2, <1>3 DEF Held
<1>7. Follows(s)
  BY <1>0, <1>2, <1>3, <1>6 DEF Follows, Serves, Cleaned
<1>8. \A c \in stored' \ stored : c \in Held(s)'
  <2>1. 0 \notin stored'
    BY DEF WholeInv, TypeInv, FileTypeOK
  <2> QED
    BY <1>1, <1>6, <2>1
<1> QED
  BY <1>0, <1>3, <1>5, <1>7, <1>8, ReleaseStep DEF Follows

LEMMA ReleaseUpFileEnd ==
  ASSUME ReleaseInv, WholeInv', NEW s \in Slot, UpFileEnd(s)
  PROVE  ReleaseInv'
<1> DEFINE t == task[s]
<1>0. /\ t.pc = "data" /\ UNCHANGED <<accepted, missed, failed>> /\ t \in Request
      /\ t.id = 0 /\ t.p \in Path /\ WholeInv
  <2>1. t.pc = "data" /\ UNCHANGED <<accepted, missed, failed>>
    BY DEF UpFileEnd, At, story
  <2> QED
    BY <2>1, AtTask DEF ReleaseInv, WholeInv, Proper, Handled
<1>1. CASE /\ made < MaxBlocks /\ made' = made + 1 /\ stored' = stored \cup {made'}
           /\ meta' = [meta EXCEPT ![made'] = [path |-> t.p, data |-> t.data]]
           /\ Step(s, [t EXCEPT !.pc = "add", !.id = made'])
  <2>0. PICK k \in BlockId : k = made' /\ k > made
    BY <1>0, <1>1, NamespaceBounds DEF WholeInv, TypeInv, FileTypeOK, BlockId
  <2> DEFINE u == [t EXCEPT !.pc = "add", !.id = k]
  <2>1. u.pc = "add" /\ u.id = k
    <3> HIDE DEF t
    <3> QED
      BY <1>0 DEF Request
  <2>2. task' = [task EXCEPT ![s] = u]
    BY <1>1, <2>0 DEF Step
  <2> HIDE DEF u
  <2>3. task'[s] = u /\ \A x \in Slot \ {s} : task'[x] = task[x]
    BY <1>0, <2>2 DEF WholeInv, TypeInv, FileTypeOK
  <2>4. /\ meta'[k].path = t.p /\ meta'[k].data = t.data
        /\ \A i \in BlockId \ {k} : meta'[i] = meta[i]
    <3> DEFINE r == [path |-> t.p, data |-> t.data]
    <3>1. r.path = t.p /\ r.data = t.data
      OBVIOUS
    <3> HIDE DEF r
    <3>2. meta' = [meta EXCEPT ![k] = r]
      BY <1>1, <2>0 DEF r
    <3>3. meta'[k] = r /\ \A i \in BlockId \ {k} : meta'[i] = meta[i]
      BY <1>0, <2>0, <3>2 DEF WholeInv, TypeInv, FileTypeOK
    <3> QED
      BY <3>1, <3>3
  <2>5. meta[k] = NoMeta /\ \A i \in BlockId : Saved(i) => k \notin BlocksOf(i)
    BY <1>0, <1>1, <2>0, Fresh DEF WholeInv, Owned
  <2>6. Grows
    BY <1>0, <1>1, <2>0, <2>4, <2>5 DEF Grows
  <2>7. Named(k)'
    BY <1>0, <2>4, PathAssumption DEF Named
  <2>8. \A b \in Held(s) : Named(b)'
    BY <1>0, <2>4 DEF Named, Held
  <2>9. Follows(s)
    BY <1>0, <2>1, <2>3, <2>8 DEF Follows, Serves, Cleaned
  <2>10. \A b \in stored' \ stored : Named(b)'
    BY <1>1, <2>0, <2>7
  <2> QED
    BY <1>0, <2>3, <2>6, <2>9, <2>10, ReleaseStep DEF Follows
<1>2. CASE Step(s, [t EXCEPT !.pc = "add"]) /\ UNCHANGED blocks
  <2> DEFINE u == [t EXCEPT !.pc = "add"]
  <2>1. u.pc = "add" /\ u.id = 0 /\ u.data = t.data
    <3> HIDE DEF t
    <3> QED
      BY <1>0 DEF Request
  <2>2. task' = [task EXCEPT ![s] = u]
    BY <1>2 DEF Step
  <2> HIDE DEF u
  <2>3. task'[s] = u /\ \A x \in Slot \ {s} : task'[x] = task[x]
    BY <1>0, <2>2 DEF WholeInv, TypeInv, FileTypeOK
  <2>4. Grows /\ UNCHANGED stored
    BY <1>0, <1>2, Still DEF blocks
  <2>5. Follows(s)
    BY <1>0, <2>1, <2>3 DEF Follows, Serves, Cleaned, Held
  <2> QED
    BY <1>0, <2>3, <2>4, <2>5, ReleaseStep DEF Follows
<1> QED
  BY <1>1, <1>2 DEF UpFileEnd

\* The blocks of an upload that gets no name are given up.
LEMMA ReleaseAddFile ==
  ASSUME ReleaseInv, WholeInv', NEW s \in Slot, AddFile(s)
  PROVE  ReleaseInv'
<1> DEFINE t == task[s]
<1>0. /\ t.pc = "add" /\ UNCHANGED <<stored, meta, accepted, missed>>
      /\ failed \subseteq failed' /\ (t.id = 0 => t.data \ {0} \subseteq failed')
      /\ WholeInv /\ t \in Request
  <2>1. /\ t.pc = "add" /\ UNCHANGED <<stored, meta, accepted, missed>>
        /\ failed \subseteq failed' /\ (t.id = 0 => t.data \ {0} \subseteq failed')
    BY DEF AddFile, At, blocks
  <2> QED
    BY <2>1, AtTask DEF ReleaseInv, WholeInv, Proper
<1>1. PICK u : task' = [task EXCEPT ![s] = u] /\ (u = Idle \/ u = [t EXCEPT !.pc = "tell"])
  BY DEF AddFile, Step
<1>2. u.pc \in {"idle", "tell"}
  <2> HIDE DEF t
  <2> QED
    BY <1>0, <1>1 DEF Request, Idle
<1>3. task'[s] = u /\ \A x \in Slot \ {s} : task'[x] = task[x]
  BY <1>0, <1>1 DEF WholeInv, TypeInv, FileTypeOK
<1>4. \A b \in Held(s) : Named(b)'
  BY <1>0 DEF Held, Named
<1>5. Follows(s)
  BY <1>0, <1>2, <1>3, <1>4 DEF Follows, Serves, Cleaned
<1> QED
  BY <1>0, <1>3, <1>5, Still, ReleaseStep DEF Follows

LEMMA ReleaseTell ==
  ASSUME ReleaseInv, WholeInv', NEW s \in Slot, TellNewFile(s)
  PROVE  ReleaseInv'
<1>0. /\ task[s].pc = "tell" /\ UNCHANGED <<stored, meta, accepted, missed, failed>>
      /\ task' = [task EXCEPT ![s] = Idle] /\ WholeInv
  BY DEF TellNewFile, At, blocks, Step, ReleaseInv
<1>1. task'[s] = Idle /\ \A x \in Slot \ {s} : task'[x] = task[x]
  BY <1>0 DEF WholeInv, TypeInv, FileTypeOK
<1>2. Follows(s)
  BY <1>0, <1>1 DEF Follows, Serves, Cleaned, Held, Idle
<1> QED
  BY <1>0, <1>1, <1>2, Still, ReleaseStep DEF Follows

LEMMA ReleaseHangUp ==
  ASSUME ReleaseInv, WholeInv', NEW s \in Slot, HangUp(s)
  PROVE  ReleaseInv'
<1> DEFINE t == task[s]
           todo == ToClean(t.data, 0)
<1>0. /\ t.pc = "data" /\ UNCHANGED <<stored, meta, accepted, missed, failed>>
      /\ t \in Request /\ t.id = 0 /\ WholeInv
  <2>1. t.pc = "data" /\ UNCHANGED <<stored, meta, accepted, missed, failed>>
    BY DEF HangUp, At, blocks, story
  <2> QED
    BY <2>1, AtTask DEF ReleaseInv, WholeInv, Proper, Handled
<1>1. PICK u : task' = [task EXCEPT ![s] = u]
               /\ u = IF todo = {} THEN Idle ELSE [t EXCEPT !.pc = "clean", !.todo = todo]
  BY DEF HangUp, Step
<1>2. todo = Held(s)
  BY <1>0 DEF ToClean, Held
<1> HIDE DEF todo
<1>3. \/ u = Idle /\ Held(s) = {}
      \/ u.pc = "clean" /\ u.id = 0 /\ u.todo = Held(s)
  <2> HIDE DEF t
  <2> QED
    BY <1>0, <1>1, <1>2 DEF Request
<1>4. task'[s] = u /\ \A x \in Slot \ {s} : task'[x] = task[x]
  BY <1>0, <1>1 DEF WholeInv, TypeInv, FileTypeOK
<1>5. Held(s) \subseteq Held(s)'
  <2> DEFINE h == Held(s)
  <2>1. PICK H : H = h
    OBVIOUS
  <2> QED
    BY <1>3, <1>4, <2>1 DEF Held
<1>6. Follows(s)
  BY <1>0, <1>3, <1>4, <1>5 DEF Follows, Serves, Cleaned, Idle
<1> QED
  BY <1>0, <1>4, <1>6, Still, ReleaseStep DEF Follows

LEMMA ReleaseRmFile ==
  ASSUME ReleaseInv, WholeInv', NEW s \in Slot, NEW n \in up, NEW p \in Path, RmFile(s, n, p)
  PROVE  ReleaseInv'
<1> DEFINE u == [pc |-> "rm", n |-> n, p |-> p, id |-> tree[n][p], data |-> {}, todo |-> {}]
<1>1. /\ task' = [task EXCEPT ![s] = u] /\ task[s] = Idle
      /\ accepted' = accepted \cup {tree[n][p]}
      /\ UNCHANGED <<stored, meta, missed, failed>>
  BY DEF RmFile, Request1, blocks
<1>2. task'[s] = u /\ \A x \in Slot \ {s} : task'[x] = task[x]
  BY <1>1 DEF ReleaseInv, WholeInv, TypeInv, FileTypeOK
<1>3. Follows(s)
  BY <1>1, <1>2 DEF Follows, Serves, Cleaned, Held, Idle
<1>4. \A i \in accepted' \ accepted : Serves(s, i)'
  BY <1>1, <1>2 DEF Serves
<1> QED
  BY <1>1, <1>2, <1>3, <1>4, Still, ReleaseStep DEF Follows

LEMMA ReleaseRmEntry ==
  ASSUME ReleaseInv, WholeInv', NEW s \in Slot, RmEntry(s)
  PROVE  ReleaseInv'
<1> DEFINE t == task[s]
<1>0. /\ t.pc = "rm" /\ UNCHANGED <<stored, meta, accepted, missed, failed>>
      /\ t \in Request /\ WholeInv
  BY AtTask DEF RmEntry, At, blocks, ReleaseInv, WholeInv, Proper
<1>1. PICK u : task' = [task EXCEPT ![s] = u] /\ u = [t EXCEPT !.pc = "load"]
  BY DEF RmEntry, Step
<1>2. u.pc = "load" /\ u.id = t.id
  <2> HIDE DEF t
  <2> QED
    BY <1>0, <1>1 DEF Request
<1>3. task'[s] = u /\ \A x \in Slot \ {s} : task'[x] = task[x]
  BY <1>0, <1>1 DEF WholeInv, TypeInv, FileTypeOK
<1>4. Follows(s)
  BY <1>0, <1>2, <1>3 DEF Follows, Serves, Cleaned, Held
<1> QED
  BY <1>0, <1>3, <1>4, Still, ReleaseStep DEF Follows

\* What a machine that dies had still to delete is lost.
LEMMA ReleaseDie ==
  ASSUME ReleaseInv, WholeInv', NEW n \in Node, Die(n)
  PROVE  ReleaseInv'
<1> DEFINE left(t) == t.todo \cup t.data
                      \cup (IF t.id = 0 THEN {} ELSE {t.id} \cup meta[t.id].data)
<1>1. /\ UNCHANGED <<stored, meta, accepted, failed>> /\ WholeInv
      /\ \A s \in Slot : \/ task'[s] = task[s]
                         \/ task'[s] = Idle /\ task[s] # Idle /\ task[s].n = n
  BY DieType DEF ReleaseInv, WholeInv
<1>2. missed' = missed \cup ((UNION {left(task[s]) : s \in {s \in Slot : task[s] # Idle /\ task[s].n = n}}) \ {0})
  BY DEF Die
<1>3. ASSUME NEW s \in Slot, task[s] # Idle, task[s].n = n
      PROVE  left(task[s]) \ {0} \subseteq missed'
  BY <1>2, <1>3
<1>4. Grows
  BY <1>1, <1>2, Still
<1>5. ASSUME NEW s \in Slot, task'[s] = Idle, task[s] # Idle, task[s].n = n
      PROVE  Follows(s)
  <2> DEFINE t == task[s]
  <2>1. left(t) \ {0} \subseteq missed'
    BY <1>3, <1>5
  <2>2. Cleaned(s)'
    BY <1>5 DEF Cleaned, Idle
  <2>3. ASSUME NEW b \in Held(s) \cap stored'
        PROVE  Named(b)'
    <3>1. b # 0
      BY <1>1 DEF WholeInv, TypeInv, FileTypeOK
    <3>2. b \in t.data \cup t.todo
      BY DEF Held
    <3> QED
      BY <2>1, <3>1, <3>2 DEF Named
  <2>4. ASSUME NEW i \in accepted, Serves(s, i)
        PROVE  Gone(i, {})'
    <3>1. i = t.id /\ i # 0
      BY <1>1, <2>4 DEF Serves, WholeInv, Saved, BlockId
    <3>2. BlocksOf(i) \subseteq left(t) \ {0}
      BY <3>1 DEF BlocksOf
    <3>3. BlocksOf(i)' = BlocksOf(i)
      BY <1>1 DEF BlocksOf
    <3> QED
      BY <2>1, <3>2, <3>3 DEF Gone
  <2> QED
    BY <2>2, <2>3, <2>4 DEF Follows
<1>6. \A s \in Slot : Follows(s)
  BY <1>1, <1>5 DEF Follows
<1> QED
  BY <1>1, <1>4, <1>6, ReleaseStep

LEMMA ReleaseRmLoad ==
  ASSUME ReleaseInv, WholeInv', NEW s \in Slot, RmLoad(s)
  PROVE  ReleaseInv'
<1> DEFINE t == task[s]
<1>0. /\ t.pc = "load" /\ t \in Request /\ t.n \in Node /\ t.id # 0 /\ t.id > 0 /\ WholeInv
  BY AtTask, NamespaceBounds DEF RmLoad, At, ReleaseInv, WholeInv, Proper
<1>1. CASE Die(t.n)
  BY <1>0, <1>1, ReleaseDie
<1>2. CASE /\ Step(s, [t EXCEPT !.pc = "clean", !.todo = ToClean(meta[t.id].data, t.id)])
           /\ UNCHANGED <<up, tree, orphan, net, blocks, story, faults>>
  <2> DEFINE todo == ToClean(meta[t.id].data, t.id)
  <2>1. PICK u : task' = [task EXCEPT ![s] = u] /\ u = [t EXCEPT !.pc = "clean", !.todo = todo]
    BY <1>2 DEF Step
  <2>2. u.pc = "clean" /\ u.todo = todo /\ u.id = t.id
    <3> HIDE DEF t, todo
    <3> QED
      BY <1>0, <2>1 DEF Request
  <2>3. task'[s] = u /\ \A x \in Slot \ {s} : task'[x] = task[x]
    BY <1>0, <2>1 DEF WholeInv, TypeInv, FileTypeOK
  <2>4. UNCHANGED <<stored, meta, accepted, missed, failed>>
        /\ \A i : BlocksOf(i)' = BlocksOf(i)
    BY <1>2 DEF BlocksOf, blocks, story
  <2>5. meta[t.id].data = {} \/ todo = BlocksOf(t.id)
    BY DEF ToClean, BlocksOf
  <2> HIDE DEF todo
  <2>6. PICK i : i = t.id
    OBVIOUS
  <2>7. Cleaned(s)'
    <3>1. PICK T : T = todo
      OBVIOUS
    <3>2. Gone(i, T)'
      BY <2>4, <2>5, <2>6, <3>1 DEF Gone
    <3> QED
      BY <2>2, <2>3, <2>6, <3>1, <3>2 DEF Cleaned
  <2>8. Follows(s)
    BY <1>0, <2>2, <2>3, <2>7 DEF Follows, Serves, Held
  <2> QED
    BY <2>3, <2>4, <2>8, Still, ReleaseStep DEF Follows
<1> QED
  BY <1>1, <1>2 DEF RmLoad

LEMMA ReleaseCleanBlock ==
  ASSUME ReleaseInv, WholeInv', NEW s \in Slot, CleanBlock(s)
  PROVE  ReleaseInv'
<1> DEFINE t == task[s]
<1>0. /\ t.pc = "clean" /\ UNCHANGED <<meta, accepted, failed>> /\ t \in Request /\ WholeInv
  <2>1. t.pc = "clean" /\ UNCHANGED <<meta, accepted, failed>>
    BY DEF CleanBlock, At
  <2> QED
    BY <2>1, AtTask DEF ReleaseInv, WholeInv, Proper
<1>1. PICK b, u :
        /\ b \in t.todo
        /\ \/ stored' = stored \ {b} /\ missed' = missed
           \/ stored' = stored /\ missed' = missed \cup {b}
        /\ task' = [task EXCEPT ![s] = u] /\ u = [t EXCEPT !.todo = @ \ {b}]
  BY DEF CleanBlock, Step
<1>2. u.pc = "clean" /\ u.id = t.id /\ u.todo = t.todo \ {b}
  <2> HIDE DEF t
  <2> QED
    BY <1>0, <1>1 DEF Request
<1>3. task'[s] = u /\ \A x \in Slot \ {s} : task'[x] = task[x]
  BY <1>0, <1>1 DEF WholeInv, TypeInv, FileTypeOK
<1>4. /\ missed \subseteq missed' /\ stored' \subseteq stored /\ (b \in missed' \/ b \notin stored')
      /\ \A i : BlocksOf(i)' = BlocksOf(i)
  BY <1>0, <1>1 DEF BlocksOf
<1>5. Grows
  BY <1>0, <1>4 DEF Grows
<1>6. Cleaned(s)'
  <2> SUFFICES ASSUME t.id > 0
               PROVE  Cleaned(s)'
    BY <1>2, <1>3 DEF Cleaned
  <2>1. PICK i, T : i = t.id /\ T = u.todo
    OBVIOUS
  <2>2. Gone(i, t.todo)
    BY <1>0, <2>1 DEF ReleaseInv, Cleaned
  <2>3. Gone(i, T)'
    BY <1>0, <1>2, <1>4, <2>1, <2>2 DEF Gone
  <2> QED
    BY <1>2, <1>3, <2>1, <2>3 DEF Cleaned
<1>7. \A c \in Held(s) \cap stored' : c \in Held(s)' \/ Named(c)'
  <2>1. CASE t.id = 0
    <3>1. Held(s) = t.todo
      BY <1>0, <2>1 DEF Held
    <3>2. Held(s)' = t.todo \ {b}
      BY <1>2, <1>3, <2>1 DEF Held
    <3>3. b \in stored' => Named(b)'
      BY <1>4 DEF Named
    <3> QED
      BY <3>1, <3>2, <3>3
  <2>2. CASE t.id # 0
    BY <1>0, <2>2 DEF Held
  <2> QED
    BY <2>1, <2>2
<1>8. Follows(s)
  BY <1>0, <1>2, <1>3, <1>6, <1>7 DEF Follows, Serves
<1> QED
  BY <1>0, <1>3, <1>4, <1>5, <1>8, ReleaseStep DEF Follows

LEMMA ReleaseCleanEnd ==
  ASSUME ReleaseInv, WholeInv', NEW s \in Slot, CleanEnd(s)
  PROVE  ReleaseInv'
<1> DEFINE t == task[s]
<1>0. /\ t.pc = "clean" /\ t.todo = {} /\ UNCHANGED <<stored, meta, accepted, missed, failed>>
      /\ task' = [task EXCEPT ![s] = Idle] /\ WholeInv
  BY DEF CleanEnd, At, blocks, Step, ReleaseInv
<1>1. task'[s] = Idle /\ \A x \in Slot \ {s} : task'[x] = task[x]
  BY <1>0 DEF WholeInv, TypeInv, FileTypeOK
<1>2. ASSUME NEW i \in accepted, Serves(s, i)
      PROVE  Gone(i, {})'
  <2>1. i = t.id /\ i > 0
    BY <1>0, <1>2, NamespaceBounds DEF Serves, WholeInv, Saved, BlockId
  <2>2. Gone(i, {})
    BY <1>0, <2>1 DEF ReleaseInv, Cleaned
  <2> QED
    BY <1>0, <2>2 DEF Gone, BlocksOf
<1>3. Follows(s)
  BY <1>0, <1>1, <1>2 DEF Follows, Cleaned, Held, Idle
<1> QED
  BY <1>0, <1>1, <1>3, Still, ReleaseStep DEF Follows

LEMMA ReleaseNext == ReleaseInv /\ [Next]_fvars => ReleaseInv'
<1> SUFFICES ASSUME ReleaseInv, [Next]_fvars  PROVE ReleaseInv'
  OBVIOUS
<1>0. WholeInv'
  BY WholeNext DEF ReleaseInv
<1>1. CASE \E s \in Slot : Client(s) \/ Handler(s)
  BY <1>0, <1>1, ReleaseUpFileMeta, ReleaseUpFileData, ReleaseUpFileEnd, ReleaseAddFile,
     ReleaseTell, ReleaseHangUp, ReleaseRmFile, ReleaseRmEntry, ReleaseRmLoad,
     ReleaseCleanBlock, ReleaseCleanEnd DEF Client, Handler
<1>2. ASSUME UNCHANGED <<task, stored, meta, accepted, missed, failed>>
      PROVE  ReleaseInv'
  BY <1>0, <1>2, Still, ReleaseStep DEF Follows
<1>3. ASSUME NEW n \in Node, Machine(n)
      PROVE  ReleaseInv'
  <2>1. CASE Die(n)
    BY <1>0, <2>1, ReleaseDie
  <2>2. CASE ~Die(n)
    <3>1. UNCHANGED <<task, stored, meta, accepted, missed, failed>>
      BY <1>3, <2>2 DEF Machine, Crash, Stop, GetFile, Start, AddDir, RmDir, blocks, story
    <3> QED
      BY <1>2, <3>1
  <2> QED
    BY <2>1, <2>2
<1>4. CASE \E m \in BagToSet(net) : HandleBroadcast(m)
  BY <1>2, <1>4 DEF HandleBroadcast, blocks
<1>5. CASE UNCHANGED fvars
  BY <1>2, <1>5 DEF fvars
<1> QED
  BY <1>1, <1>3, <1>4, <1>5 DEF Next

\* Whatever machines die while a removal or an abandoned upload is being cleaned, and
\* however many removals of one file overlap: a block that is kept is a file's, a
\* handler's that will delete it, or was lost or given up.
THEOREM ReleasedCorrect == Spec => []Released
<1>1. Init => ReleaseInv
  <2>1. Init => stored = {} /\ accepted = {} /\ \A s \in Slot : task[s] = Idle
    BY DEF Init
  <2> QED
    BY <2>1, WholeInit DEF ReleaseInv, Cleaned, Idle
<1>2. ReleaseInv => Released
  <2> SUFFICES ASSUME ReleaseInv  PROVE Released
    OBVIOUS
  <2>1. ASSUME NEW i \in accepted
        PROVE  \/ meta[i].data = {} \/ BlocksOf(i) \cap stored \subseteq missed
               \/ \E s \in Slot : task[s] # Idle /\ task[s].id = i
    BY DEF ReleaseInv, Gone, Serves, Idle
  <2>2. ASSUME NEW b \in stored
        PROVE  \/ b \in missed \/ meta[b].path # Root
               \/ \E id \in BlockId : b \in meta[id].data
               \/ b \in failed
               \/ \E s \in Slot : task[s] # Idle /\ b \in task[s].data \cup task[s].todo
    BY DEF ReleaseInv, Named, Held, Idle
  <2> QED
    BY <2>1, <2>2 DEF Released
<1> QED
  BY <1>1, <1>2, ReleaseNext, PTL DEF Spec

-----------------------------------------------------------------------------
(* What the machines agree on.                                             *)

\* Messages about name p, and handlers that will send some.
Entry(m, p) == m \in BagToSet(net) /\ m.path = p /\ m.cmd # "rmfile"
Removal(m, p) == m \in BagToSet(net) /\ m.path = p /\ m.cmd = "rmfile"
Tells(s, p) == task[s].pc = "tell" /\ task[s].p = p
Removes(s, p) == task[s].pc \in {"rm", "load", "clean"} /\ task[s].p = p /\ task[s].id # 0

\* Handler s has not removed p from machine n yet, nor told n to do so.
Reaches(s, p, n) == Removes(s, p) /\ (task[s].pc = "rm" \/ task[s].n # n)

\* Name p is on its way to machine n, and its removal is.
Coming(n, p) ==
  \/ \E m \in BagToSet(net) : Entry(m, p) /\ m.to = n
  \/ \E s \in Slot : Tells(s, p) /\ task[s].n # n
Going(n, p) ==
  \/ \E m \in BagToSet(net) : Removal(m, p) /\ m.to = n
  \/ \E s \in Slot : Reaches(s, p, n)

Removed(p) == \E i \in accepted : meta[i].path = p

Unknown(p) ==
  /\ \A n \in Node : tree[n][p] = Absent
  /\ \A m \in BagToSet(net) : ~Entry(m, p) /\ ~Removal(m, p)
  /\ \A s \in Slot : ~Tells(s, p) /\ ~Removes(s, p)
  /\ ~Removed(p)

\* Name p was added once, as v.  Each machine has it, or will, until its removal
\* was accepted; then each has removed it, or will, and not before it was entered.
Known(p, v) ==
  /\ \A n \in Node : tree[n][p] \in {Absent, v}
  /\ \A m \in BagToSet(net) : Entry(m, p) => m.id = v /\ net[m] = 1
  /\ \A m, l \in BagToSet(net) : Entry(m, p) /\ Entry(l, p) /\ m.to = l.to => m = l
  /\ \A s \in Slot : Tells(s, p) => /\ task[s].id = v
                                    /\ \A m \in BagToSet(net) : ~Entry(m, p)
                                    /\ \A r \in Slot : Tells(r, p) => r = s
  /\ \A n \in Node : tree[n][p] = Absent => Coming(n, p) \/ Removed(p)
  /\ \A n \in Node : tree[n][p] # Absent => ~Coming(n, p)
  /\ Removed(p) => \A n \in Node : (tree[n][p] = Absent /\ ~Coming(n, p)) \/ Going(n, p)
  /\ \A m \in BagToSet(net) : Removal(m, p) => Removed(p)
  /\ \A s \in Slot : Removes(s, p) => Removed(p)

Agreed(p) == IF p \in news THEN \E v : Known(p, v) ELSE Unknown(p)

AgreeInv ==
  /\ WholeInv
  /\ up = Node \/ Path \subseteq conflict
  /\ \A p \in Path \ conflict : Agreed(p)

\* A step that is not about name p.
SameMsgs(p) ==
  \A m : m.path = p => /\ m \in BagToSet(net') <=> m \in BagToSet(net)
                       /\ m \in BagToSet(net) => net'[m] = net[m]
SameTask(s, p) ==
  /\ Tells(s, p)' <=> Tells(s, p)
  /\ Tells(s, p) => task'[s].id = task[s].id /\ task'[s].n = task[s].n
  /\ Removes(s, p)' <=> Removes(s, p)
  /\ \A n \in Node : Reaches(s, p, n)' <=> Reaches(s, p, n)
Same(p) ==
  /\ \A n \in Node : tree'[n][p] = tree[n][p]
  /\ p \in news' <=> p \in news
  /\ SameMsgs(p)
  /\ \A s \in Slot : SameTask(s, p)
  /\ Removed(p)' <=> Removed(p)

LEMMA SameComing ==
  ASSUME NEW p, SameMsgs(p), \A s \in Slot : SameTask(s, p)
  PROVE  /\ \A m : (Entry(m, p)' <=> Entry(m, p)) /\ (Removal(m, p)' <=> Removal(m, p))
         /\ \A n \in Node : (Coming(n, p)' <=> Coming(n, p)) /\ (Going(n, p)' <=> Going(n, p))
<1>1. \A m : (Entry(m, p)' <=> Entry(m, p)) /\ (Removal(m, p)' <=> Removal(m, p))
  BY DEF SameMsgs, Entry, Removal
<1>2. ASSUME NEW n \in Node
      PROVE  (Coming(n, p)' <=> Coming(n, p)) /\ (Going(n, p)' <=> Going(n, p))
  <2>1. (\E m \in BagToSet(net') : Entry(m, p)' /\ m.to = n)
         <=> (\E m \in BagToSet(net) : Entry(m, p) /\ m.to = n)
    BY <1>1 DEF Entry
  <2>2. (\E m \in BagToSet(net') : Removal(m, p)' /\ m.to = n)
         <=> (\E m \in BagToSet(net) : Removal(m, p) /\ m.to = n)
    BY <1>1 DEF Removal
  <2>3. \A s \in Slot : (Tells(s, p)' /\ task'[s].n # n) <=> (Tells(s, p) /\ task[s].n # n)
    BY DEF SameTask
  <2>4. \A s \in Slot : Reaches(s, p, n)' <=> Reaches(s, p, n)
    BY DEF SameTask
  <2> QED
    BY <2>1, <2>2, <2>3, <2>4 DEF Coming, Going
<1> QED
  BY <1>1, <1>2

LEMMA AgreedSame ==
  ASSUME NEW p, Same(p), Agreed(p)
  PROVE  Agreed(p)'
<1>1. /\ \A m : (Entry(m, p)' <=> Entry(m, p)) /\ (Removal(m, p)' <=> Removal(m, p))
      /\ \A n \in Node : (Coming(n, p)' <=> Coming(n, p)) /\ (Going(n, p)' <=> Going(n, p))
      /\ \A m : Entry(m, p) \/ Removal(m, p) => m \in BagToSet(net) /\ net'[m] = net[m]
      /\ \A m : Entry(m, p)' \/ Removal(m, p)' => m \in BagToSet(net')
  <2>1. \A m : Entry(m, p) \/ Removal(m, p) => m \in BagToSet(net) /\ net'[m] = net[m]
    BY DEF Same, SameMsgs, Entry, Removal
  <2>2. \A m : Entry(m, p)' \/ Removal(m, p)' => m \in BagToSet(net')
    BY DEF Entry, Removal
  <2> QED
    BY <2>1, <2>2, SameComing DEF Same
<1>2. /\ \A s \in Slot : /\ Tells(s, p)' <=> Tells(s, p)
                         /\ Tells(s, p) => task'[s].id = task[s].id
                         /\ Removes(s, p)' <=> Removes(s, p)
      /\ \A n \in Node : tree'[n][p] = tree[n][p]
      /\ Removed(p)' <=> Removed(p)
  BY DEF Same, SameTask
<1>3. CASE p \in news
  <2>1. PICK v : Known(p, v)
    BY <1>3 DEF Agreed
  <2>2. Known(p, v)'
    BY <1>1, <1>2, <2>1 DEF Known
  <2> QED
    BY <1>3, <2>2 DEF Agreed, Same
<1>4. CASE p \notin news
  <2>1. Unknown(p)'
    BY <1>1, <1>2, <1>4 DEF Agreed, Unknown
  <2> QED
    BY <1>4, <2>1 DEF Agreed, Same
<1> QED
  BY <1>3, <1>4

LEMMA RemovedSame ==
  ASSUME accepted' = accepted, \A i \in accepted : meta'[i] = meta[i]
  PROVE  \A p : Removed(p)' <=> Removed(p)
BY DEF Removed

LEMMA AgreeStep ==
  ASSUME AgreeInv, WholeInv', up' = up, conflict \subseteq conflict',
         \A p \in Path \ conflict' : Same(p) \/ Agreed(p)'
  PROVE  AgreeInv'
BY AgreedSame DEF AgreeInv

\* Handlers that go on without a word about a name.
LEMMA SameQuiet ==
  ASSUME UNCHANGED <<tree, net, news, accepted>>, \A i \in accepted : meta'[i] = meta[i],
         NEW s \in Slot, NEW p, \A x \in Slot \ {s} : task'[x] = task[x], SameTask(s, p)
  PROVE  Same(p)
<1>1. \A x \in Slot \ {s} : SameTask(x, p)
  BY DEF SameTask, Tells, Removes, Reaches
<1>2. Removed(p)' <=> Removed(p)
  BY RemovedSame
<1> QED
  BY <1>1, <1>2 DEF Same, SameMsgs

\* Upload, up to the file, and cleaning.
LEMMA AgreeQuiet ==
  ASSUME AgreeInv, WholeInv', NEW s \in Slot,
         \/ \E n \in up, p \in Path : UpFileMeta(s, n, p)
         \/ UpFileData(s) \/ UpFileEnd(s) \/ HangUp(s) \/ CleanBlock(s)
         \/ RmLoad(s) /\ ~Die(task[s].n)
  PROVE  AgreeInv'
<1> DEFINE t == task[s]
           u == task'[s]
<1>0. WholeInv /\ TypeInv
  BY DEF AgreeInv, WholeInv
<1>1. UNCHANGED <<up, tree, net, news, accepted, conflict>>
  BY DEF UpFileMeta, UpFileData, UpFileEnd, HangUp, CleanBlock, RmLoad, blocks, story
<1>2. \A i \in accepted : meta'[i] = meta[i]
  <2>1. CASE UpFileEnd(s) /\ meta' # meta
    <3>1. made' = made + 1 /\ meta' = [meta EXCEPT ![made'] = [path |-> t.p, data |-> t.data]]
      BY <2>1 DEF UpFileEnd, blocks
    <3>2. ~Saved(made')
      BY <1>0, <3>1, Fresh
    <3>3. \A i \in accepted : i \in BlockId /\ i # made'
      BY <1>0, <3>2 DEF WholeInv, Saved
    <3> QED
      BY <1>0, <3>1, <3>3 DEF TypeInv, FileTypeOK
  <2>2. CASE ~UpFileEnd(s)
    BY <2>2 DEF UpFileMeta, UpFileData, HangUp, CleanBlock, RmLoad, blocks, story
  <2> QED
    BY <2>1, <2>2
<1>3. /\ \A x \in Slot \ {s} : task'[x] = task[x]
      /\ \/ t.pc \in {"idle", "data"} /\ u.pc \in {"data", "add", "idle"}
         \/ t.pc = "data" /\ u.pc = "clean" /\ u.id = 0
         \/ /\ t.pc \in {"load", "clean"} /\ u.pc = "clean"
            /\ u.id = t.id /\ u.p = t.p /\ u.n = t.n
  <2>1. ASSUME NEW n \in up, NEW p \in Path, UpFileMeta(s, n, p)
        PROVE  /\ \A x \in Slot \ {s} : task'[x] = task[x]
               /\ t.pc = "idle" /\ u.pc = "data"
    BY <1>0, <2>1 DEF UpFileMeta, Request1, Idle, TypeInv, FileTypeOK
  <2>2. CASE ~(\E n \in up, p \in Path : UpFileMeta(s, n, p))
    <3>0. t \in Request /\ t.pc \in {"data", "load", "clean"}
      <4>1. t.pc \in {"data", "load", "clean"}
        BY <2>2 DEF UpFileData, UpFileEnd, HangUp, CleanBlock, RmLoad, At
      <4> QED
        BY <1>0, <4>1, AtTask DEF Proper
    <3>1. PICK w : task' = [task EXCEPT ![s] = w] /\
            \/ t.pc = "data" /\ \/ w = Idle
                                \/ \E d : w = [t EXCEPT !.data = d]
                                \/ w = [t EXCEPT !.pc = "add"]
                                \/ \E i : w = [t EXCEPT !.pc = "add", !.id = i]
                                \/ \E T : w = [t EXCEPT !.pc = "clean", !.todo = T]
            \/ t.pc = "load" /\ \E T : w = [t EXCEPT !.pc = "clean", !.todo = T]
            \/ t.pc = "clean" /\ \E T : w = [t EXCEPT !.todo = T]
      <4>1. CASE UpFileData(s)
        <5>1. PICK b : task' = [task EXCEPT ![s] = [t EXCEPT !.data = @ \cup {b}]]
          BY <4>1 DEF UpFileData, Step
        <5>2. [t EXCEPT !.data = @ \cup {b}] = [t EXCEPT !.data = t.data \cup {b}]
          OBVIOUS
        <5> QED
          BY <4>1, <5>1, <5>2 DEF UpFileData, At
      <4>2. CASE UpFileEnd(s)
        BY <4>2 DEF UpFileEnd, Step, At
      <4>3. CASE HangUp(s)
        BY <4>3 DEF HangUp, Step, At
      <4>4. CASE CleanBlock(s)
        <5>1. PICK b : task' = [task EXCEPT ![s] = [t EXCEPT !.todo = @ \ {b}]]
          BY <4>4 DEF CleanBlock, Step
        <5>2. [t EXCEPT !.todo = @ \ {b}] = [t EXCEPT !.todo = t.todo \ {b}]
          OBVIOUS
        <5> QED
          BY <4>4, <5>1, <5>2 DEF CleanBlock, At
      <4>5. CASE RmLoad(s) /\ ~Die(t.n)
        BY <4>5 DEF RmLoad, Step, At
      <4> QED
        BY <2>2, <4>1, <4>2, <4>3, <4>4, <4>5
    <3>2. task'[s] = w /\ \A x \in Slot \ {s} : task'[x] = task[x]
      BY <1>0, <3>1 DEF TypeInv, FileTypeOK
    <3>3. t.pc = "data" => t.id = 0
      BY <1>0 DEF WholeInv, Handled
    <3>4. /\ \/ t.pc = "data" /\ w.pc \in {"data", "add", "idle"}
             \/ t.pc = "data" /\ w.pc = "clean" /\ w.id = t.id
             \/ /\ t.pc \in {"load", "clean"} /\ w.pc = "clean"
                /\ w.id = t.id /\ w.p = t.p /\ w.n = t.n
      <4> HIDE DEF t
      <4>1. CASE t.pc = "data"
        <5>1. ASSUME NEW d, w = [t EXCEPT !.data = d]  PROVE w.pc = "data"
          BY <3>0, <4>1, <5>1 DEF Request
        <5>2. ASSUME NEW i, w = [t EXCEPT !.pc = "add", !.id = i]  PROVE w.pc = "add"
          BY <3>0, <5>2 DEF Request
        <5>3. ASSUME NEW T, w = [t EXCEPT !.pc = "clean", !.todo = T]
              PROVE  w.pc = "clean" /\ w.id = t.id
          BY <3>0, <5>3 DEF Request
        <5>4. w = [t EXCEPT !.pc = "add"] => w.pc = "add"
          BY <3>0 DEF Request
        <5>5. w = Idle => w.pc = "idle"
          BY DEF Idle
        <5>6. \/ w = Idle
              \/ \E d : w = [t EXCEPT !.data = d]
              \/ w = [t EXCEPT !.pc = "add"]
              \/ \E i : w = [t EXCEPT !.pc = "add", !.id = i]
              \/ \E T : w = [t EXCEPT !.pc = "clean", !.todo = T]
          BY <3>1, <4>1, Zenon
        <5> QED
          BY <4>1, <5>1, <5>2, <5>3, <5>4, <5>5, <5>6, Zenon
      <4>2. CASE t.pc # "data"
        <5>1. PICK T : w = [t EXCEPT !.pc = "clean", !.todo = T] \/ w = [t EXCEPT !.todo = T]
          BY <3>0, <3>1, <4>2
        <5> QED
          BY <3>0, <3>1, <4>2, <5>1 DEF Request
      <4> QED
        BY <4>1, <4>2
    <3> QED
      BY <3>2, <3>3, <3>4
  <2> QED
    BY <2>1, <2>2
<1>4. ASSUME NEW p
      PROVE  Same(p)
  <2>1. SameTask(s, p)
    BY <1>3 DEF SameTask, Tells, Removes, Reaches
  <2> QED
    BY <1>1, <1>2, <1>3, <2>1, SameQuiet
<1> QED
  BY <1>1, <1>4, AgreeStep

\* What a broadcast adds; it reaches everyone unless the name is in conflict.
LEMMA BroadcastAdds ==
  ASSUME TypeInv, NEW n, NEW cmd, NEW p \in Path, NEW id, NEW C, Broadcast(n, cmd, p, id, C)
  PROVE  /\ conflict \cup C \subseteq conflict'
         /\ BagToSet(net) \subseteq BagToSet(net')
         /\ \A m \in BagToSet(net') \ BagToSet(net) :
              m.path = p /\ m.cmd = cmd /\ m.id = id /\ m.to \in up \ {n} /\ net'[m] = 1
         /\ \A m, l \in BagToSet(net') \ BagToSet(net) : m.to = l.to => m = l
         /\ \A m \in BagToSet(net) : net'[m] = net[m] \/ (m.path = p /\ m.cmd = cmd)
         /\ p \notin conflict' => \A x \in up \ {n} :
              \E m \in BagToSet(net') : m.to = x /\ m.path = p /\ m.cmd = cmd
<1>1. PICK R \in SUBSET (up \ {n}) :
        /\ net' = net (+) SetToBag([to : R, cmd : {cmd}, path : {p}, id : {id}])
        /\ conflict \cup C \subseteq conflict'
        /\ p \notin conflict' => R = up \ {n}
  BY DEF Broadcast
<1> DEFINE S == [to : R, cmd : {cmd}, path : {p}, id : {id}]
<1>2. \A m \in S : m.path = p /\ m.cmd = cmd /\ m.id = id /\ m.to \in R
  OBVIOUS
<1>3. \A m, l \in S : m.to = l.to => m = l
  OBVIOUS
<1>4. \A x \in R : \E m \in S : m.to = x
  <2> SUFFICES ASSUME NEW x \in R  PROVE \E m \in S : m.to = x
    OBVIOUS
  <2> WITNESS [to |-> x, cmd |-> cmd, path |-> p, id |-> id] \in S
  <2> QED
    OBVIOUS
<1> HIDE DEF S
<1>5. /\ DOMAIN net' = DOMAIN net \cup S
      /\ \A m \in DOMAIN net \ S : net'[m] = net[m]
      /\ \A m \in S \ DOMAIN net : net'[m] = 1
  <2>1. net' = net (+) SetToBag(S) /\ IsABag(net)
    BY <1>1 DEF S, TypeInv, NetOK
  <2>2. /\ DOMAIN (net (+) SetToBag(S)) = DOMAIN net \cup S
        /\ \A m \in DOMAIN net \ S : (net (+) SetToBag(S))[m] = net[m]
        /\ \A m \in S \ DOMAIN net : (net (+) SetToBag(S))[m] = 1
    BY <2>1, BagPlus, Zenon
  <2> QED
    BY <2>1, <2>2, Zenon
<1>6. p \notin conflict' => \A x \in up \ {n} :
        \E m \in BagToSet(net') : m.to = x /\ m.path = p /\ m.cmd = cmd
  BY <1>1, <1>2, <1>4, <1>5 DEF BagToSet
<1> QED
  BY <1>1, <1>2, <1>3, <1>5, <1>6 DEF BagToSet

LEMMA SameOther ==
  ASSUME TypeInv, NEW n, NEW cmd, NEW p \in Path, NEW id, NEW C, Broadcast(n, cmd, p, id, C),
         NEW q, q # p
  PROVE  SameMsgs(q)
BY BroadcastAdds DEF SameMsgs

\* A handler that is not about q.
LEMMA SameFile ==
  ASSUME NEW s \in Slot, NEW q, \A x \in Slot \ {s} : task'[x] = task[x],
         ~Tells(s, q) /\ ~Removes(s, q) /\ ~Tells(s, q)' /\ ~Removes(s, q)'
  PROVE  \A x \in Slot : SameTask(x, q)
BY DEF SameTask, Tells, Removes, Reaches

LEMMA AgreeTell ==
  ASSUME AgreeInv, WholeInv', NEW s \in Slot, TellNewFile(s)
  PROVE  AgreeInv'
<1>0. /\ task[s].pc = "tell" /\ UNCHANGED <<up, tree, meta, accepted, news>>
      /\ task' = [task EXCEPT ![s] = Idle]
      /\ Broadcast(task[s].n, "newfile", task[s].p, task[s].id, {})
      /\ WholeInv /\ TypeInv
  BY DEF TellNewFile, At, blocks, Step, AgreeInv, WholeInv
<1>a. PICK n \in up, p \in Path : n = task[s].n /\ p = task[s].p
  BY <1>0, AtTask
<1>1. PICK id : n = task[s].n /\ p = task[s].p /\ id = task[s].id
  BY <1>a
<1>2. task'[s] = Idle /\ \A x \in Slot \ {s} : task'[x] = task[x]
  BY <1>0 DEF TypeInv, FileTypeOK
<1>3. Broadcast(n, "newfile", p, id, {})
  BY <1>0, <1>1
<1>4. \A q : Removed(q)' <=> Removed(q)
  BY <1>0, RemovedSame
<1>5. ASSUME NEW q \in Path \ conflict', q # p
      PROVE  Same(q)
  <2>1. ~Tells(s, q) /\ ~Removes(s, q) /\ ~Tells(s, q)' /\ ~Removes(s, q)'
    BY <1>0, <1>1, <1>2, <1>5 DEF Tells, Removes, Idle
  <2>2. \A x \in Slot : SameTask(x, q)
    BY <1>2, <1>5, <2>1, SameFile
  <2> QED
    BY <1>0, <1>3, <1>4, <1>5, <2>2, SameOther DEF Same
<1>6. ASSUME p \notin conflict'
      PROVE  Agreed(p)'
  <2>0. /\ BagToSet(net) \subseteq BagToSet(net')
        /\ \A m \in BagToSet(net') \ BagToSet(net) :
             m.path = p /\ m.cmd = "newfile" /\ m.id = id /\ m.to \in up \ {n} /\ net'[m] = 1
        /\ \A m, l \in BagToSet(net') \ BagToSet(net) : m.to = l.to => m = l
        /\ \A x \in up \ {n} :
             \E m \in BagToSet(net') : m.to = x /\ m.path = p /\ m.cmd = "newfile"
        /\ p \notin conflict
    BY <1>0, <1>3, <1>6, BroadcastAdds
  <2>1. up = Node /\ Agreed(p)
    BY <2>0 DEF AgreeInv
  <2>2. Tells(s, p) /\ p \in news
    BY <1>0, <1>1, <2>1 DEF Tells, Agreed, Unknown
  <2>3. PICK v : Known(p, v)
    BY <2>1, <2>2 DEF Agreed
  <2>4. /\ id = v /\ \A m \in BagToSet(net) : ~Entry(m, p)
        /\ \A r \in Slot : Tells(r, p) => r = s
    BY <1>1, <2>2, <2>3 DEF Known
  <2>5. \A r \in Slot : ~Tells(r, p)'
    BY <1>2, <2>4 DEF Tells, Idle
  <2>6. /\ \A m : Entry(m, p)' => m \in BagToSet(net') \ BagToSet(net)
        /\ \A m : Removal(m, p)' <=> Removal(m, p)
        /\ \A x \in up \ {n} : \E m \in BagToSet(net') : Entry(m, p)' /\ m.to = x
    BY <2>0, <2>4 DEF Entry, Removal
  <2>7. \A x \in Node : Coming(x, p)' <=> Coming(x, p)
    <3>1. \A x \in Node : Coming(x, p)' <=> x # n
      BY <2>0, <2>1, <2>5, <2>6 DEF Coming
    <3>2. \A x \in Node : Coming(x, p) <=> x # n
      BY <1>1, <2>2, <2>4 DEF Coming
    <3> QED
      BY <3>1, <3>2
  <2>8. /\ \A r \in Slot : Removes(r, p)' <=> Removes(r, p)
        /\ \A r \in Slot : \A x : Reaches(r, p, x)' <=> Reaches(r, p, x)
    BY <1>0, <1>2 DEF Removes, Reaches, Idle
  <2>9. \A x \in Node : Going(x, p)' <=> Going(x, p)
    <3>1. \A m : Removal(m, p)' => m \in BagToSet(net')
      BY DEF Removal
    <3>2. \A m : Removal(m, p) => m \in BagToSet(net)
      BY DEF Removal
    <3> QED
      BY <2>6, <2>8, <3>1, <3>2 DEF Going
  <2>10. /\ \A m \in BagToSet(net') : Entry(m, p)' => m.id = v /\ net'[m] = 1
         /\ \A m, l \in BagToSet(net') : Entry(m, p)' /\ Entry(l, p)' /\ m.to = l.to => m = l
    BY <2>0, <2>4, <2>6
  <2>11. \A m \in BagToSet(net') : Removal(m, p)' => Removed(p)'
    BY <1>4, <2>3, <2>6 DEF Known, Removal
  <2>12. Known(p, v)'
    BY <1>0, <1>4, <2>3, <2>5, <2>7, <2>8, <2>9, <2>10, <2>11 DEF Known
  <2> QED
    BY <1>0, <2>2, <2>12 DEF Agreed
<1>7. conflict \subseteq conflict'
  BY <1>0, <1>3, BroadcastAdds
<1> QED
  BY <1>0, <1>5, <1>6, <1>7, AgreeStep

\* A directory after a name is entered, at that name and elsewhere.
LEMMA AddAt ==
  ASSUME TypeInv, NEW n \in up, NEW p \in Path, NEW id \in 0..MaxBlocks, Add(n, p, id)
  PROVE  /\ tree'[n][p] = id
         /\ \A x \in Node \ {n} : tree'[x][p] = tree[x][p]
         /\ \A x \in Node, q \in Path \ {p} : tree'[x][q] = tree[x][q]
<1>1. tree' = [tree EXCEPT ![n][p] = id]
  BY DEF Add
<1>2. tree \in [Node -> [Path -> MetaID]] /\ n \in Node /\ id \in MetaID
  BY NamespaceBounds DEF TypeInv, FileTypeOK, MetaID, Absent
<1>3. /\ \A x \in Node \ {n} : tree'[x] = tree[x]
      /\ tree'[n][p] = id
      /\ \A y \in Path \ {p} : tree'[n][y] = tree[n][y]
  BY <1>1, <1>2, PutIn
<1> QED
  BY <1>3

LEMMA AgreeAddFile ==
  ASSUME AgreeInv, WholeInv', NEW s \in Slot, AddFile(s)
  PROVE  AgreeInv'
<1> DEFINE t == task[s]
<1>0. /\ t.pc = "add" /\ UNCHANGED <<up, net, meta, accepted>> /\ conflict \subseteq conflict'
      /\ WholeInv /\ TypeInv /\ t \in Request
  <2>1. /\ t.pc = "add" /\ UNCHANGED <<up, net, meta, accepted>> /\ conflict \subseteq conflict'
    BY DEF AddFile, At, blocks
  <2> QED
    BY <2>1, AtTask DEF AgreeInv, WholeInv, Proper
<1>1. PICK n \in up, p \in Path, id \in 0..MaxBlocks : n = t.n /\ p = t.p /\ id = t.id
  BY <1>0, AtTask
<1>2. \A q : Removed(q)' <=> Removed(q)
  BY <1>0, RemovedSame
<1>3. CASE Step(s, Idle) /\ UNCHANGED <<tree, orphan, news, conflict>>
  <2>1. task'[s] = Idle /\ \A x \in Slot \ {s} : task'[x] = task[x]
    BY <1>0, <1>3 DEF Step, TypeInv, FileTypeOK
  <2>2. ASSUME NEW q
        PROVE  Same(q)
    <3>1. SameTask(s, q)
      BY <1>0, <2>1 DEF SameTask, Tells, Removes, Reaches, Idle
    <3> QED
      BY <1>0, <1>3, <2>1, <3>1, SameQuiet
  <2> QED
    BY <1>0, <2>2, AgreeStep
<1>4. CASE /\ Add(n, p, id) /\ Step(s, [t EXCEPT !.pc = "tell"])
           /\ news' = news \cup {p} /\ conflict' = conflict \cup Again(p)
  <2>1. PICK u : task' = [task EXCEPT ![s] = u] /\ u = [t EXCEPT !.pc = "tell"]
    BY <1>4 DEF Step
  <2>2. u.pc = "tell" /\ u.p = p /\ u.id = id /\ u.n = n
    <3>1. u.pc = "tell" /\ u.p = t.p /\ u.id = t.id /\ u.n = t.n
      <4> HIDE DEF t
      <4> QED
        BY <1>0, <2>1 DEF Request
    <3> QED
      BY <1>1, <3>1
  <2>3. task'[s] = u /\ \A x \in Slot \ {s} : task'[x] = task[x]
    BY <1>0, <2>1 DEF TypeInv, FileTypeOK
  <2>4. /\ tree'[n][p] = id
        /\ \A x \in Node \ {n} : tree'[x][p] = tree[x][p]
        /\ \A x \in Node, q \in Path \ {p} : tree'[x][q] = tree[x][q]
    BY <1>0, <1>4, AddAt
  <2>5. ASSUME NEW q \in Path \ conflict', q # p
        PROVE  Same(q)
    <3>1. ~Tells(s, q) /\ ~Removes(s, q) /\ ~Tells(s, q)' /\ ~Removes(s, q)'
      BY <1>0, <2>2, <2>3, <2>5 DEF Tells, Removes
    <3>2. \A x \in Slot : SameTask(x, q)
      BY <2>3, <3>1, SameFile
    <3> QED
      BY <1>0, <1>2, <1>4, <2>4, <2>5, <3>2 DEF Same, SameMsgs
  <2>6. ASSUME p \notin conflict'
        PROVE  Agreed(p)'
    <3>1. p \notin news /\ p \notin conflict
      BY <1>4, <2>6 DEF Again
    <3>2. Unknown(p)
      BY <3>1 DEF AgreeInv, Agreed
    <3>3. /\ \A m \in BagToSet(net') : ~Entry(m, p)' /\ ~Removal(m, p)'
          /\ \A r \in Slot : (Tells(r, p)' <=> r = s) /\ ~Removes(r, p)'
          /\ ~Removed(p)'
      <4>1. \A m \in BagToSet(net') : ~Entry(m, p)' /\ ~Removal(m, p)'
        BY <1>0, <3>2 DEF Unknown, Entry, Removal
      <4>2. Tells(s, p)' /\ ~Removes(s, p)'
        BY <2>2, <2>3 DEF Tells, Removes
      <4>3. \A r \in Slot \ {s} : ~Tells(r, p)' /\ ~Removes(r, p)'
        BY <2>3, <3>2 DEF Unknown, Tells, Removes
      <4> QED
        BY <1>2, <3>2, <4>1, <4>2, <4>3 DEF Unknown
    <3>4. \A x \in Node : Coming(x, p)' <=> x # n
      BY <2>2, <2>3, <3>3 DEF Coming
    <3>5. \A x \in Node \ {n} : tree'[x][p] = Absent
      BY <2>4, <3>2 DEF Unknown
    <3>6. tree'[n][p] # Absent
      BY <2>4 DEF Absent
    <3>7. Known(p, id)'
      BY <2>2, <2>3, <2>4, <3>3, <3>4, <3>5, <3>6 DEF Known
    <3> QED
      BY <1>4, <3>7 DEF Agreed
  <2> QED
    BY <1>0, <2>5, <2>6, AgreeStep
<1> QED
  BY <1>1, <1>3, <1>4 DEF AddFile

LEMMA AgreeAddDir ==
  ASSUME AgreeInv, WholeInv', NEW n \in Node, NEW p \in Path, AddDir(n, p)
  PROVE  AgreeInv'
<1>0. /\ UNCHANGED <<up, task, meta, accepted>> /\ n \in up /\ Add(n, p, Dir)
      /\ Broadcast(n, "newdir", p, 0, Again(p)) /\ news' = news \cup {p}
      /\ WholeInv /\ TypeInv /\ Dir \in 0..MaxBlocks
  BY NamespaceBounds DEF AddDir, blocks, AgreeInv, WholeInv, Dir
<1>1. \A q : Removed(q)' <=> Removed(q)
  BY <1>0, RemovedSame
<1>2. /\ tree'[n][p] = Dir
      /\ \A x \in Node \ {n} : tree'[x][p] = tree[x][p]
      /\ \A x \in Node, q \in Path \ {p} : tree'[x][q] = tree[x][q]
  BY <1>0, AddAt
<1>3. /\ conflict \cup Again(p) \subseteq conflict'
      /\ BagToSet(net) \subseteq BagToSet(net')
      /\ \A m \in BagToSet(net') \ BagToSet(net) :
           m.path = p /\ m.cmd = "newdir" /\ m.id = 0 /\ m.to \in up \ {n} /\ net'[m] = 1
      /\ \A m, l \in BagToSet(net') \ BagToSet(net) : m.to = l.to => m = l
      /\ p \notin conflict' => \A x \in up \ {n} :
           \E m \in BagToSet(net') : m.to = x /\ m.path = p /\ m.cmd = "newdir"
  <2>1. TypeInv /\ Broadcast(n, "newdir", p, 0, Again(p))
    BY <1>0
  <2>2. PICK cmd, id, C : cmd = "newdir" /\ id = 0 /\ C = Again(p)
    OBVIOUS
  <2>3. Broadcast(n, cmd, p, id, C)
    BY <2>1, <2>2
  <2>4. /\ conflict \cup C \subseteq conflict'
        /\ BagToSet(net) \subseteq BagToSet(net')
        /\ \A m \in BagToSet(net') \ BagToSet(net) :
             m.path = p /\ m.cmd = cmd /\ m.id = id /\ m.to \in up \ {n} /\ net'[m] = 1
        /\ \A m, l \in BagToSet(net') \ BagToSet(net) : m.to = l.to => m = l
        /\ p \notin conflict' => \A x \in up \ {n} :
             \E m \in BagToSet(net') : m.to = x /\ m.path = p /\ m.cmd = cmd
    BY <2>1, <2>3, BroadcastAdds, SMTT(30)
  <2> QED
    BY <2>2, <2>4
<1>4. ASSUME NEW q \in Path \ conflict', q # p
      PROVE  Same(q)
  <2>1. \A x \in Slot : SameTask(x, q)
    BY <1>0 DEF SameTask, Tells, Removes, Reaches
  <2>2. SameMsgs(q)
    BY <1>0, <1>4, SameOther
  <2> QED
    BY <1>0, <1>1, <1>2, <1>4, <2>1, <2>2 DEF Same
<1>5. ASSUME p \notin conflict'
      PROVE  Agreed(p)'
  <2>1. p \notin news /\ p \notin conflict /\ up = Node
    BY <1>3, <1>5 DEF Again, AgreeInv
  <2>2. Unknown(p)
    BY <2>1 DEF AgreeInv, Agreed
  <2>3. /\ \A m : Entry(m, p)' => m \in BagToSet(net') \ BagToSet(net)
        /\ \A m : ~Removal(m, p)'
        /\ \A x \in up \ {n} : \E m \in BagToSet(net') : Entry(m, p)' /\ m.to = x
    BY <1>3, <1>5, <2>2 DEF Unknown, Entry, Removal
  <2>4. \A r \in Slot : ~Tells(r, p)' /\ ~Removes(r, p)'
    BY <1>0, <2>2 DEF Unknown, Tells, Removes
  <2>5. \A x \in Node : Coming(x, p)' <=> x # n
    BY <1>3, <2>1, <2>3, <2>4 DEF Coming
  <2>6. ~Removed(p)'
    BY <1>1, <2>2 DEF Unknown
  <2>7. \A x \in Node \ {n} : tree'[x][p] = Absent
    BY <1>2, <2>2 DEF Unknown
  <2>8. tree'[n][p] # Absent
    BY <1>2 DEF Absent, Dir
  <2>9. /\ \A m \in BagToSet(net') : Entry(m, p)' => m.id = Dir /\ net'[m] = 1
        /\ \A m, l \in BagToSet(net') : Entry(m, p)' /\ Entry(l, p)' /\ m.to = l.to => m = l
    BY <1>3, <2>3 DEF Dir
  <2>10. Known(p, Dir)'
    BY <1>2, <2>3, <2>4, <2>5, <2>6, <2>7, <2>8, <2>9 DEF Known
  <2> QED
    BY <1>0, <2>10 DEF Agreed, Dir
<1> QED
  BY <1>0, <1>3, <1>4, <1>5, AgreeStep

LEMMA AgreeRmFile ==
  ASSUME AgreeInv, WholeInv', NEW s \in Slot, NEW n \in up, NEW p \in Path, RmFile(s, n, p)
  PROVE  AgreeInv'
<1> DEFINE u == [pc |-> "rm", n |-> n, p |-> p, id |-> tree[n][p], data |-> {}, todo |-> {}]
<1>1. /\ task' = [task EXCEPT ![s] = u] /\ task[s] = Idle /\ tree[n][p] > 0
      /\ accepted' = accepted \cup {tree[n][p]}
      /\ UNCHANGED <<up, tree, net, meta, news, conflict>>
      /\ WholeInv /\ TypeInv /\ n \in Node
  BY DEF RmFile, Request1, blocks, AgreeInv, WholeInv, TypeInv, FileTypeOK
<1>2. task'[s] = u /\ \A x \in Slot \ {s} : task'[x] = task[x]
  BY <1>1 DEF TypeInv, FileTypeOK
<1>3. meta[tree[n][p]].path = p /\ tree[n][p] # Absent
  BY <1>1 DEF WholeInv, Names, Whole, Absent
<1>4. ASSUME NEW q \in Path \ conflict', q # p
      PROVE  Same(q)
  <2>1. ~Tells(s, q) /\ ~Removes(s, q) /\ ~Tells(s, q)' /\ ~Removes(s, q)'
    BY <1>1, <1>2, <1>4 DEF Tells, Removes, Idle
  <2>2. \A x \in Slot : SameTask(x, q)
    BY <1>2, <2>1, SameFile
  <2>3. Removed(q)' <=> Removed(q)
    BY <1>1, <1>3, <1>4 DEF Removed
  <2> QED
    BY <1>1, <2>2, <2>3 DEF Same, SameMsgs
<1>5. ASSUME p \notin conflict'
      PROVE  Agreed(p)'
  <2>1. p \in news
    BY <1>1, <1>3, <1>5 DEF AgreeInv, Agreed, Unknown
  <2>2. PICK v : Known(p, v)
    BY <1>1, <1>5, <2>1 DEF AgreeInv, Agreed
  <2>3. /\ Removed(p)'
        /\ \A m : (Entry(m, p)' <=> Entry(m, p))
        /\ \A r \in Slot : Tells(r, p)' <=> Tells(r, p)
        /\ \A r \in Slot : Tells(r, p) => task'[r] = task[r]
    <3>1. Removed(p)'
      BY <1>1, <1>3 DEF Removed
    <3>2. \A m : (Entry(m, p)' <=> Entry(m, p))
      BY <1>1 DEF Entry
    <3>3. ~Tells(s, p) /\ ~Tells(s, p)'
      BY <1>1, <1>2 DEF Tells, Idle
    <3> QED
      BY <1>2, <3>1, <3>2, <3>3 DEF Tells
  <2>4. \A x \in Node : Coming(x, p)' <=> Coming(x, p)
    BY <1>1, <2>3 DEF Coming
  <2>5. \A x \in Node : Going(x, p)'
    BY <1>1, <1>2 DEF Going, Reaches, Removes
  <2>6. Known(p, v)'
    BY <1>1, <2>2, <2>3, <2>4, <2>5 DEF Known
  <2> QED
    BY <1>1, <2>1, <2>6 DEF Agreed
<1> QED
  BY <1>1, <1>4, <1>5, AgreeStep

LEMMA AgreeRmEntry ==
  ASSUME AgreeInv, WholeInv', NEW s \in Slot, RmEntry(s)
  PROVE  AgreeInv'
<1> DEFINE t == task[s]
<1>0. /\ t.pc = "rm" /\ UNCHANGED <<up, net, meta, accepted, news>>
      /\ t \in Request /\ t.id # 0 /\ t.id \in 0..MaxBlocks /\ WholeInv /\ TypeInv
      /\ task' = [task EXCEPT ![s] = [t EXCEPT !.pc = "load"]]
  <2>1. /\ t.pc = "rm" /\ UNCHANGED <<up, net, meta, accepted, news>>
        /\ task' = [task EXCEPT ![s] = [t EXCEPT !.pc = "load"]]
    BY DEF RmEntry, At, blocks, Step
  <2> QED
    BY <2>1, AtTask DEF AgreeInv, WholeInv, Proper
<1>1. PICK n \in up, p \in Path : n = t.n /\ p = t.p /\ n \in Node
  BY <1>0, AtTask
<1>2. /\ Remove(n, p)
      /\ conflict' = IF tree[n][p] = t.id THEN conflict ELSE conflict \cup {p}
  BY <1>1 DEF RmEntry
<1>3. PICK u : task' = [task EXCEPT ![s] = u] /\ u = [t EXCEPT !.pc = "load"]
  BY <1>0
<1>4. u.pc = "load" /\ u.id = t.id /\ u.p = t.p /\ u.n = t.n
  <2> HIDE DEF t
  <2> QED
    BY <1>0, <1>3 DEF Request
<1>5. task'[s] = u /\ \A x \in Slot \ {s} : task'[x] = task[x]
  BY <1>0, <1>3 DEF TypeInv, FileTypeOK
<1>6. /\ \A x \in Node \ {n} : tree'[x] = tree[x]
      /\ tree[n][p] > 0 => tree'[n][p] = Absent
      /\ \A q \in Path \ {p} : tree'[n][q] = tree[n][q]
  BY <1>0, <1>2, RemoveType
<1>7. \A q : Removed(q)' <=> Removed(q)
  BY <1>0, RemovedSame
<1>8. ASSUME NEW q \in Path \ conflict', q # p
      PROVE  Same(q)
  <2>1. ~Tells(s, q) /\ ~Removes(s, q) /\ ~Tells(s, q)' /\ ~Removes(s, q)'
    BY <1>0, <1>1, <1>4, <1>5, <1>8 DEF Tells, Removes
  <2>2. \A x \in Slot : SameTask(x, q)
    BY <1>5, <2>1, SameFile
  <2> QED
    BY <1>0, <1>6, <1>7, <1>8, <2>2 DEF Same, SameMsgs
<1>9. ASSUME p \notin conflict'
      PROVE  Agreed(p)'
  <2>1. /\ p \notin conflict /\ tree[n][p] > 0 /\ tree'[n][p] = Absent /\ tree[n][p] # Absent
    <3>1. p \notin conflict /\ tree[n][p] = t.id
      BY <1>2, <1>9
    <3>2. t.id > 0
      BY <1>0, NamespaceBounds
    <3> QED
      BY <1>6, <3>1, <3>2 DEF Absent
  <2>2. Removes(s, p) /\ Removes(s, p)'
    BY <1>0, <1>1, <1>4, <1>5 DEF Removes
  <2>3. p \in news
    BY <2>1, <2>2 DEF AgreeInv, Agreed, Unknown
  <2>4. PICK v : Known(p, v)
    BY <2>1, <2>3 DEF AgreeInv, Agreed
  <2>5. Removed(p)' /\ ~Coming(n, p)
    BY <1>1, <1>7, <2>1, <2>2, <2>4 DEF Known
  <2>6. /\ \A m : (Entry(m, p)' <=> Entry(m, p))
        /\ \A r \in Slot : Tells(r, p)' <=> Tells(r, p)
        /\ \A r \in Slot : Tells(r, p) => task'[r] = task[r]
    <3>1. \A m : (Entry(m, p)' <=> Entry(m, p))
      BY <1>0 DEF Entry
    <3>2. ~Tells(s, p) /\ ~Tells(s, p)'
      BY <1>0, <1>4, <1>5 DEF Tells
    <3> QED
      BY <1>5, <3>1, <3>2 DEF Tells
  <2>7. \A x \in Node : Coming(x, p)' <=> Coming(x, p)
    BY <1>0, <2>6 DEF Coming
  <2>8. \A x \in Node \ {n} : Going(x, p)'
    BY <1>1, <1>4, <1>5, <2>2 DEF Going, Reaches
  <2>9. Known(p, v)'
    BY <1>0, <1>6, <2>1, <2>4, <2>5, <2>6, <2>7, <2>8 DEF Known
  <2> QED
    BY <1>0, <2>3, <2>9 DEF Agreed
<1>10. conflict \subseteq conflict'
  BY <1>2
<1> QED
  BY <1>0, <1>8, <1>9, <1>10, AgreeStep

LEMMA AgreeCleanEnd ==
  ASSUME AgreeInv, WholeInv', NEW s \in Slot, CleanEnd(s)
  PROVE  AgreeInv'
<1> DEFINE t == task[s]
<1>0. /\ t.pc = "clean" /\ UNCHANGED <<up, tree, meta, accepted, news>>
      /\ task' = [task EXCEPT ![s] = Idle] /\ WholeInv /\ TypeInv
  BY DEF CleanEnd, At, blocks, Step, AgreeInv, WholeInv
<1>1. task'[s] = Idle /\ \A x \in Slot \ {s} : task'[x] = task[x]
  BY <1>0 DEF TypeInv, FileTypeOK
<1>2. CASE t.id = 0 /\ UNCHANGED <<net, conflict, faults>>
  <2>1. ASSUME NEW q
        PROVE  Same(q)
    <3>1. SameTask(s, q)
      BY <1>0, <1>1, <1>2 DEF SameTask, Tells, Removes, Reaches, Idle
    <3> QED
      BY <1>0, <1>1, <1>2, <3>1, SameQuiet
  <2> QED
    BY <1>0, <1>2, <2>1, AgreeStep
<1>3. CASE t.id # 0 /\ Broadcast(t.n, "rmfile", t.p, 0, {})
  <2>a. PICK n \in up, p \in Path : n = t.n /\ p = t.p /\ n \in Node
    <3>1. t.n \in up /\ t.p \in Path /\ t.n \in Node
      BY <1>0, AtTask
    <3> HIDE DEF t
    <3> QED
      BY <3>1, Zenon
  <2>1. PICK cmd, id, C :
          n = t.n /\ p = t.p /\ n \in Node /\ cmd = "rmfile" /\ id = 0 /\ C = {}
    BY <2>a, Zenon
  <2>2. Broadcast(n, cmd, p, id, C)
    BY <1>3, <2>1
  <2>3. /\ conflict \subseteq conflict'
        /\ BagToSet(net) \subseteq BagToSet(net')
        /\ \A m \in BagToSet(net') \ BagToSet(net) : m.path = p /\ m.cmd = cmd
        /\ \A m \in BagToSet(net) : net'[m] = net[m] \/ (m.path = p /\ m.cmd = cmd)
        /\ p \notin conflict' => \A x \in up \ {n} :
             \E m \in BagToSet(net') : m.to = x /\ m.path = p /\ m.cmd = cmd
    <3>1. TypeInv
      BY <1>0
    <3> QED
      BY <2>2, <3>1, BroadcastAdds
  <2>4. \A q : Removed(q)' <=> Removed(q)
    BY <1>0, RemovedSame
  <2>5. ASSUME NEW q \in Path \ conflict', q # p
        PROVE  Same(q)
    <3>1. ~Tells(s, q) /\ ~Removes(s, q) /\ ~Tells(s, q)' /\ ~Removes(s, q)'
      BY <1>0, <1>1, <2>1, <2>5 DEF Tells, Removes, Idle
    <3>2. \A x \in Slot : SameTask(x, q)
      BY <1>1, <3>1, SameFile
    <3>3. SameMsgs(q)
      BY <1>0, <2>2, <2>5, SameOther
    <3> QED
      BY <1>0, <2>4, <3>2, <3>3 DEF Same
  <2>6. ASSUME p \notin conflict'
        PROVE  Agreed(p)'
    <3>1. p \notin conflict /\ up = Node
      BY <2>3, <2>6 DEF AgreeInv
    <3>2. Removes(s, p) /\ ~Removes(s, p)' /\ ~Tells(s, p) /\ ~Tells(s, p)'
      BY <1>0, <1>1, <1>3, <2>1 DEF Removes, Tells, Idle
    <3>3. p \in news
      BY <3>1, <3>2 DEF AgreeInv, Agreed, Unknown
    <3>4. PICK v : Known(p, v)
      BY <3>1, <3>3 DEF AgreeInv, Agreed
    <3>5. Removed(p)'
      BY <2>4, <3>2, <3>4 DEF Known
    <3>6. /\ \A m : (Entry(m, p)' <=> Entry(m, p))
          /\ \A m : Entry(m, p) => m \in BagToSet(net) /\ net'[m] = net[m]
          /\ \A m : Entry(m, p)' => m \in BagToSet(net')
          /\ \A r \in Slot : Tells(r, p)' <=> Tells(r, p)
          /\ \A r \in Slot : Tells(r, p) => task'[r] = task[r]
      <4>1. \A m : (Entry(m, p)' <=> Entry(m, p))
        BY <2>1, <2>3 DEF Entry
      <4>2. \A m : Entry(m, p) => m \in BagToSet(net) /\ net'[m] = net[m]
        BY <2>1, <2>3 DEF Entry
      <4> QED
        BY <1>1, <3>2, <4>1, <4>2 DEF Tells, Entry
    <3>7. \A x \in Node : Coming(x, p)' <=> Coming(x, p)
      BY <3>6 DEF Coming
    <3>8. \A x \in Node \ {n} : Going(x, p)'
      <4>1. \A x \in Node \ {n} : \E m \in BagToSet(net') : Removal(m, p)' /\ m.to = x
        BY <2>1, <2>3, <2>6, <3>1 DEF Removal
      <4> QED
        BY <4>1 DEF Going
    <3>9. (tree'[n][p] = Absent /\ ~Coming(n, p)') \/ Going(n, p)'
      <4>1. CASE tree[n][p] = Absent /\ ~Coming(n, p)
        BY <1>0, <2>1, <3>7, <4>1
      <4>2. CASE Going(n, p)
        <5>1. ~Reaches(s, p, n)
          BY <1>0, <2>1 DEF Reaches
        <5>2. \A r \in Slot : Reaches(r, p, n) => Reaches(r, p, n)'
          BY <1>1, <5>1 DEF Reaches, Removes
        <5>3. \A m : Removal(m, p) => Removal(m, p)' /\ m \in BagToSet(net')
          BY <2>3 DEF Removal
        <5> QED
          BY <4>2, <5>2, <5>3 DEF Going
      <4> QED
        BY <2>1, <2>4, <3>4, <3>5, <4>1, <4>2 DEF Known
    <3>10. Known(p, v)'
      BY <1>0, <2>1, <3>4, <3>5, <3>6, <3>7, <3>8, <3>9 DEF Known
    <3> QED
      BY <1>0, <3>3, <3>10 DEF Agreed
  <2> QED
    BY <1>0, <2>3, <2>5, <2>6, AgreeStep
<1> QED
  BY <1>2, <1>3 DEF CleanEnd

\* What removeDir removes is the directory, or in it.
LEMMA AgreeRmDir ==
  ASSUME AgreeInv, WholeInv', NEW n \in Node, NEW p \in Path, RmDir(n, p)
  PROVE  AgreeInv'
<1>0. /\ UNCHANGED <<up, task, net, meta, accepted, news>> /\ WholeInv /\ TypeInv
      /\ conflict' = conflict \cup {q \in Path : q = p \/ p \in above[q]}
  BY DEF RmDir, blocks, AgreeInv, WholeInv
<1>1. PICK G \in SUBSET Path :
        /\ p \in G /\ \A q \in G \ {p} : Parent[q] \in G
        /\ tree' = [tree EXCEPT ![n] = [q \in Path |-> IF q \in G THEN Absent ELSE @[q]]]
  BY DEF RmDir
<1>2. \A q \in G : q = p \/ p \in above[q]
  <2> DEFINE S == {q \in G : ~(q = p \/ p \in above[q])}
  <2>1. ASSUME NEW q \in S
        PROVE  Parent[q] \in S
    <3>1. q \in Path /\ Parent[q] \in G /\ above[q] = {Parent[q]} \cup above[Parent[q]]
      BY <1>1, AbovePath
    <3> QED
      BY <3>1
  <2>2. S \in SUBSET Path
    OBVIOUS
  <2> HIDE DEF S
  <2>3. S = {}
    BY <2>1, <2>2, PathAssumption
  <2> QED
    BY <2>3 DEF S
<1>3. ASSUME NEW q \in Path \ conflict'
      PROVE  Same(q)
  <2>1. q \notin G
    BY <1>0, <1>2, <1>3
  <2>2. \A x \in Node : tree'[x][q] = tree[x][q]
    BY <1>0, <1>1, <2>1 DEF TypeInv, FileTypeOK
  <2>3. \A x \in Slot : SameTask(x, q)
    BY <1>0 DEF SameTask, Tells, Removes, Reaches
  <2>4. Removed(q)' <=> Removed(q)
    BY <1>0, RemovedSame
  <2> QED
    BY <1>0, <2>2, <2>3, <2>4 DEF Same, SameMsgs
<1> QED
  BY <1>0, <1>3, AgreeStep

\* A broadcast is handled: the first time for its machine, or it does not fit.
LEMMA AgreeBroadcast ==
  ASSUME AgreeInv, WholeInv', NEW m \in BagToSet(net), HandleBroadcast(m)
  PROVE  AgreeInv'
<1>0. /\ WholeInv /\ TypeInv /\ UNCHANGED <<up, task, meta, accepted, news>>
      /\ net' = net (-) SetToBag({m}) /\ conflict \subseteq conflict'
  BY DEF HandleBroadcast, blocks, AgreeInv, WholeInv
<1>1. PICK n \in up, p \in Path, id \in 0..MaxBlocks :
        n = m.to /\ p = m.path /\ id = m.id /\ n \in Node
  BY <1>0 DEF TypeInv, NetOK, Msg
<1>2. m.cmd \in {"newfile", "newdir", "rmfile"}
  BY <1>0 DEF TypeInv, NetOK, Msg
<1>3. /\ BagToSet(net') \subseteq BagToSet(net)
      /\ BagToSet(net) \ {m} \subseteq BagToSet(net')
      /\ net[m] = 1 => m \notin BagToSet(net')
      /\ \A l \in BagToSet(net) \ {m} : net'[l] = net[l]
  BY <1>0, BagMinus DEF BagToSet, TypeInv, NetOK
<1>4. \A q : Removed(q)' <=> Removed(q)
  BY <1>0, RemovedSame
<1>5. \A x \in Slot : \A q : SameTask(x, q)
  BY <1>0 DEF SameTask, Tells, Removes, Reaches
<1>6. \A q : q # p => SameMsgs(q)
  BY <1>1, <1>3 DEF SameMsgs
<1>7. ASSUME \A x \in Node, q \in Path \ {p} : tree'[x][q] = tree[x][q],
             p \notin conflict' => Agreed(p)'
      PROVE  AgreeInv'
  <2>1. \A q \in Path \ conflict' : q # p => Same(q)
    BY <1>0, <1>4, <1>5, <1>6, <1>7 DEF Same
  <2> QED
    BY <1>0, <1>7, <2>1, AgreeStep
<1>8. ASSUME p \notin conflict
      PROVE  p \in news /\ \E v : Known(p, v)
  BY <1>1, <1>2, <1>8 DEF AgreeInv, Agreed, Unknown, Entry, Removal
<1>9. CASE m.cmd # "rmfile"
  <2>1. \/ Add(n, p, id)
        \/ UNCHANGED tree /\ p \in conflict'
    BY <1>1, <1>9 DEF HandleBroadcast
  <2>2. CASE Add(n, p, id)
    <3>1. /\ tree'[n][p] = id
          /\ \A x \in Node \ {n} : tree'[x][p] = tree[x][p]
          /\ \A x \in Node, q \in Path \ {p} : tree'[x][q] = tree[x][q]
      BY <1>0, <2>2, AddAt
    <3>2. ASSUME p \notin conflict'
          PROVE  Agreed(p)'
      <4>1. p \in news
        BY <1>0, <1>8, <3>2
      <4>2. PICK v : Known(p, v)
        BY <1>0, <1>8, <3>2
      <4>3. /\ Entry(m, p) /\ id = v /\ net[m] = 1 /\ m.to = n
            /\ \A l \in BagToSet(net) : Entry(l, p) /\ l.to = n => l = m
            /\ \A s \in Slot : ~Tells(s, p)
        BY <1>1, <1>9, <4>2 DEF Known, Entry
      <4>4. Coming(n, p) /\ id # Absent
        BY <4>3 DEF Coming, Absent
      <4>5. /\ \A l : Entry(l, p)' <=> Entry(l, p) /\ l # m
            /\ \A l : Removal(l, p)' <=> Removal(l, p)
            /\ \A l : Entry(l, p) => l \in BagToSet(net)
            /\ \A l : Entry(l, p)' => l \in BagToSet(net') /\ net'[l] = net[l]
            /\ \A l : Removal(l, p) => l \in BagToSet(net')
            /\ \A s \in Slot : ~Tells(s, p)'
        <5>1. \A l : Entry(l, p)' <=> Entry(l, p) /\ l # m
          BY <1>3, <4>3 DEF Entry
        <5>2. \A l : Removal(l, p)' <=> Removal(l, p)
          BY <1>3, <1>9 DEF Removal
        <5>3. \A l : Entry(l, p)' => l \in BagToSet(net') /\ net'[l] = net[l]
          BY <1>3, <4>3 DEF Entry
        <5>4. \A s \in Slot : ~Tells(s, p)'
          BY <1>5, <4>3 DEF SameTask
        <5> QED
          BY <5>1, <5>2, <5>3, <5>4 DEF Entry, Removal
      <4>6. ~Coming(n, p)' /\ \A x \in Node \ {n} : Coming(x, p)' <=> Coming(x, p)
        BY <4>3, <4>5 DEF Coming
      <4>7. \A x \in Node : Going(x, p) => Going(x, p)'
        BY <1>5, <4>5 DEF Going, SameTask
      <4>8. \A s \in Slot : Removes(s, p)' <=> Removes(s, p)
        BY <1>5 DEF SameTask
      <4>9. Known(p, v)'
        <5>1. /\ \A x \in Node : tree'[x][p] \in {Absent, v}
              /\ \A x \in Node : tree'[x][p] = Absent => Coming(x, p)' \/ Removed(p)'
              /\ \A x \in Node : tree'[x][p] # Absent => ~Coming(x, p)'
          BY <1>4, <3>1, <4>2, <4>3, <4>4, <4>6 DEF Known
        <5>2. /\ \A l \in BagToSet(net') : Entry(l, p)' => l.id = v /\ net'[l] = 1
              /\ \A l, k \in BagToSet(net') : Entry(l, p)' /\ Entry(k, p)' /\ l.to = k.to => l = k
          BY <4>2, <4>5 DEF Known
        <5>3. Removed(p)' => \A x \in Node : (tree'[x][p] = Absent /\ ~Coming(x, p)') \/ Going(x, p)'
          BY <1>4, <3>1, <4>2, <4>4, <4>6, <4>7 DEF Known
        <5>4. /\ \A l \in BagToSet(net') : Removal(l, p)' => Removed(p)'
              /\ \A s \in Slot : Removes(s, p)' => Removed(p)'
          BY <1>3, <1>4, <4>2, <4>5, <4>8 DEF Known
        <5> QED
          BY <4>5, <5>1, <5>2, <5>3, <5>4 DEF Known
      <4> QED
        BY <1>0, <4>1, <4>9 DEF Agreed
    <3> QED
      BY <1>7, <3>1, <3>2
  <2>3. CASE UNCHANGED tree /\ p \in conflict'
    BY <1>7, <2>3
  <2> QED
    BY <2>1, <2>2, <2>3
<1>10. CASE m.cmd = "rmfile"
  <2>1. /\ Remove(n, p)
        /\ conflict' = IF tree[n][p] > 0 THEN conflict ELSE conflict \cup {p}
    BY <1>1, <1>10 DEF HandleBroadcast
  <2>2. /\ \A x \in Node \ {n} : tree'[x] = tree[x]
        /\ tree[n][p] > 0 => tree'[n][p] = Absent
        /\ \A q \in Path \ {p} : tree'[n][q] = tree[n][q]
    BY <1>0, <2>1, RemoveType
  <2>3. ASSUME p \notin conflict'
        PROVE  Agreed(p)'
    <3>1. p \in news
      BY <1>0, <1>8, <2>3
    <3>2. PICK v : Known(p, v)
      BY <1>0, <1>8, <2>3
    <3>3. tree'[n][p] = Absent /\ tree[n][p] # Absent
      BY <2>1, <2>2, <2>3 DEF Absent
    <3>4. Removed(p)' /\ ~Coming(n, p)
      BY <1>1, <1>4, <1>10, <3>2, <3>3 DEF Known, Removal
    <3>5. /\ \A l : Entry(l, p)' <=> Entry(l, p)
          /\ \A l : Removal(l, p) /\ l # m => Removal(l, p)' /\ l \in BagToSet(net')
          /\ \A l : Entry(l, p) => l \in BagToSet(net) /\ l \in BagToSet(net') /\ net'[l] = net[l]
          /\ \A s \in Slot : SameTask(s, p)
      <4>1. \A l : Entry(l, p) => l \in BagToSet(net) /\ l # m
        BY <1>10 DEF Entry
      <4>2. \A l : Entry(l, p)' => l \in BagToSet(net) /\ l # m
        BY <1>3, <1>10 DEF Entry
      <4>3. \A l \in BagToSet(net) \ {m} :
              (Entry(l, p)' <=> Entry(l, p)) /\ (Removal(l, p)' <=> Removal(l, p))
        BY <1>3 DEF Entry, Removal
      <4> QED
        BY <1>3, <1>5, <4>1, <4>2, <4>3 DEF Removal
    <3>6. \A x \in Node : Coming(x, p)' <=> Coming(x, p)
      BY <3>5 DEF Coming, SameTask
    <3>7. \A x \in Node \ {n} : Going(x, p) => Going(x, p)'
      BY <1>1, <3>5 DEF Going, SameTask
    <3>8. Known(p, v)'
      BY <1>1, <1>4, <2>2, <3>2, <3>3, <3>4, <3>5, <3>6, <3>7 DEF Known, SameTask
    <3> QED
      BY <1>0, <3>1, <3>8 DEF Agreed
  <2> QED
    BY <1>7, <2>2, <2>3
<1> QED
  BY <1>9, <1>10

LEMMA AgreeNext == AgreeInv /\ [Next]_fvars => AgreeInv'
<1> SUFFICES ASSUME AgreeInv, [Next]_fvars  PROVE AgreeInv'
  OBVIOUS
<1>0. WholeInv' /\ TypeInv
  BY WholeNext DEF AgreeInv, WholeInv
<1>1. ASSUME conflict' = Path
      PROVE  AgreeInv'
  BY <1>0, <1>1 DEF AgreeInv
<1>2. ASSUME NEW n \in Node, Die(n)
      PROVE  AgreeInv'
  BY <1>0, <1>1, <1>2, DieType
<1>3. ASSUME NEW s \in Slot, RmLoad(s)
      PROVE  AgreeInv'
  <2>1. task[s].n \in Node
    BY <1>0, <1>3, AtTask DEF RmLoad, At
  <2> QED
    BY <1>0, <1>2, <1>3, <2>1, AgreeQuiet
<1>4. CASE \E s \in Slot : Client(s) \/ Handler(s)
  BY <1>0, <1>3, <1>4, AgreeQuiet, AgreeAddFile, AgreeTell, AgreeRmFile, AgreeRmEntry,
     AgreeCleanEnd DEF Client, Handler
<1>5. ASSUME NEW n \in Node, Machine(n)
      PROVE  AgreeInv'
  <2>1. CASE Start(n)
    <3>1. Path \subseteq conflict /\ conflict' = conflict
      BY <2>1 DEF Start, AgreeInv, story
    <3> QED
      BY <1>0, <3>1 DEF AgreeInv
  <2> QED
    BY <1>0, <1>2, <1>5, <2>1, AgreeAddDir, AgreeRmDir DEF Machine, Crash, Stop, GetFile
<1>6. CASE \E m \in BagToSet(net) : HandleBroadcast(m)
  BY <1>0, <1>6, AgreeBroadcast
<1>7. CASE UNCHANGED fvars
  <2>1. UNCHANGED <<up, tree, net, task, meta, accepted, news, conflict>>
    BY <1>7 DEF fvars
  <2>2. \A p : Same(p)
    BY <2>1 DEF Same, SameMsgs, SameTask, Tells, Removes, Reaches, Removed
  <2> QED
    BY <1>0, <2>1, <2>2, AgreeStep
<1> QED
  BY <1>4, <1>5, <1>6, <1>7 DEF Next

\* Uploads, removals and their broadcasts in any order: two machines that both heard
\* all of a name disagree on it only after one of the causes that conflict records.
THEOREM AgreeCorrect == Spec => []AgreeUnlessConflict
<1>1. Init => AgreeInv
  <2> SUFFICES ASSUME Init  PROVE AgreeInv
    OBVIOUS
  <2>1. /\ \A s \in Slot : task[s] = Idle
        /\ \A n \in Node, p \in Path : tree[n][p] = Absent
        /\ BagToSet(net) = {} /\ accepted = {} /\ news = {} /\ up = Node
    BY DEF Init, NoTree, BagToSet, EmptyBag, SetToBag
  <2>2. \A p \in Path : Agreed(p)
    BY <2>1 DEF Agreed, Unknown, Tells, Removes, Removed, Idle
  <2> QED
    BY <2>1, <2>2, WholeInit DEF AgreeInv
<1>2. AgreeInv => AgreeUnlessConflict
  <2> SUFFICES ASSUME AgreeInv, NEW p \in Path \ conflict,
                      ~(\E m \in BagToSet(net) : m.path = p),
                      ~(\E s \in Slot : task[s] # Idle /\ task[s].p = p /\ task[s].pc # "data")
               PROVE  \A m, n \in Node : tree[m][p] = tree[n][p]
    BY DEF AgreeUnlessConflict
  <2>1. \A s \in Slot : ~Tells(s, p) /\ ~Removes(s, p)
    BY DEF Tells, Removes, Idle
  <2>2. \A n \in Node : ~Coming(n, p) /\ ~Going(n, p)
    BY <2>1 DEF Coming, Going, Entry, Removal, Reaches
  <2>3. CASE p \in news
    <3>1. PICK v : Known(p, v)
      BY <2>3 DEF AgreeInv, Agreed
    <3>2. \A n \in Node : tree[n][p] = (IF Removed(p) THEN Absent ELSE v)
      BY <2>2, <3>1 DEF Known
    <3> QED
      BY <3>2
  <2>4. CASE p \notin news
    BY <2>4 DEF AgreeInv, Agreed, Unknown
  <2> QED
    BY <2>3, <2>4
<1> QED
  BY <1>1, <1>2, AgreeNext, PTL DEF Spec
=============================================================================
