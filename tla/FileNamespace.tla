---------------------------- MODULE FileNamespace ----------------------------
(***************************************************************************)
(* The directory of files, one tree per machine: FileManager's handlers on *)
(* the pool's threads, FileUploader, the broadcasts by which the machines  *)
(* follow each other, and the snapshot.  A call on a tree is one step      *)
(* (module FileTree has its inside); a file's test and its insertion, the  *)
(* reading of its meta block and the deletion of its blocks are steps of   *)
(* their own.  The block layer is a set of blocks that keeps what it is    *)
(* given until it is deleted, as BlockRegister says it does.               *)
(***************************************************************************)
EXTENDS Integers, FiniteSets, Bags

CONSTANTS
  Node,
  Slot,       \* requests of clients under way, at any machine
  Path,       \* the paths clients name
  Root,
  Parent,     \* Parent[p]: what p is without its last part
  MaxData,    \* bound: data blocks of a file
  MaxBlocks,  \* bound: blocks that are saved
  MaxOps,     \* bound: faults, and requests but for removing directories
  MaxFaults   \* bound: stops, blocks not saved or deleted, broadcasts cut short

ASSUME NamespaceBounds ==
  MaxData \in Nat /\ MaxBlocks \in Nat /\ MaxOps \in Nat /\ MaxFaults \in Nat
\* Every path leads up to the root.
ASSUME PathAssumption ==
  /\ Root \notin Path /\ Parent \in [Path -> Path \cup {Root}]
  /\ \A S \in SUBSET Path : (\A p \in S : Parent[p] \in S) => S = {}
ASSUME ClusterAssumption == IsFiniteSet(Node) /\ IsFiniteSet(Path)

VARIABLES
  up,        \* machines that run
  tree,      \* tree[n][p]: the metaID n's _fileMap has for p
  orphan,    \* orphan[n]: names in n's _fileMap that no directory lists
  snap,      \* snap[n]: the tree in n's snapshot
  task,      \* task[s]: the handler of a client's request
  net,       \* broadcasts not yet handled
  stored,    \* blocks the block layer keeps
  meta,      \* meta[b]: the meta block saved as b
  made,      \* the last block saved
  accepted,  \* history: meta blocks of files whose removal was acknowledged
  missed,    \* history: blocks whose deletion was lost
  failed,    \* history: blocks of uploads that ended without a file
  news,      \* history: paths a client has added
  conflict,  \* history: paths the machines may disagree on
  ops, faults

fvars == <<up, tree, orphan, snap, task, net, stored, meta, made, accepted,
           missed, failed, news, conflict, ops, faults>>
blocks == <<stored, meta, made>>
story == <<accepted, missed, failed, news, conflict>>

Absent == -1
Dir == 0       \* a node without a meta block is a directory
BlockId == 1..MaxBlocks
NoMeta == [path |-> Root, data |-> {}]
Idle == [pc |-> "idle"]
NoTree == [p \in Path |-> Absent]

Msg == [to : Node, cmd : {"newfile", "newdir", "rmfile"}, path : Path,
        id : 0..MaxBlocks]
Request == [pc : {"data", "add", "tell", "rm", "load", "clean"}, n : Node,
            p : Path, id : 0..MaxBlocks, data : SUBSET (0..MaxBlocks),
            todo : SUBSET BlockId]

Init ==
  /\ up = Node
  /\ tree = [n \in Node |-> NoTree] /\ snap = tree
  /\ orphan = [n \in Node |-> {}]
  /\ task = [s \in Slot |-> Idle]
  /\ net = EmptyBag
  /\ stored = {} /\ meta = [b \in BlockId |-> NoMeta] /\ made = 0
  /\ accepted = {} /\ missed = {} /\ failed = {} /\ news = {} /\ conflict = {}
  /\ ops = 0 /\ faults = 0

-----------------------------------------------------------------------------
(* Helpers.                                                                *)

Fault == faults < MaxFaults /\ ops + faults < MaxOps /\ faults' = faults + 1
Step(s, t) == task' = [task EXCEPT ![s] = t] /\ UNCHANGED ops
Request1(s, n, p, t) ==
  /\ task[s] = Idle /\ n \in up /\ ops + faults < MaxOps /\ ops' = ops + 1
  /\ task' = [task EXCEPT ![s] = t]
At(s, pc) == task[s].pc = pc
Add(n, p, id) == tree' = [tree EXCEPT ![n][p] = id] /\ UNCHANGED orphan

\* FileTree::removeFile: names of directories and unknown ones stay.
Remove(n, p) ==
  IF tree[n][p] > 0
  THEN /\ tree' = [tree EXCEPT ![n][p] = Absent]
       /\ orphan' = [orphan EXCEPT ![n] = @ \ {p}]
  ELSE UNCHANGED <<tree, orphan>>

\* Mutant: a file needs no directory.
AddableAnywhere(n, p) == tree[n][p] = Absent

\* The directories p is in.
above[p \in Path \cup {Root}] ==
  IF p = Root THEN {} ELSE {Parent[p]} \cup above[Parent[p]]

InDir(n, p) == IF Parent[p] = Root THEN TRUE ELSE tree[n][Parent[p]] = Dir

\* FileTree::addFile inserts a new name, in a directory.
Addable(n, p) ==
  /\ tree[n][p] = Absent
  /\ InDir(n, p)

\* A client adds p: the second time, the machines may mix up the two.
Again(p) == IF p \in news THEN {p} ELSE {}

\* Mutant: blocks that were never saved are deleted too.
ToCleanAll(data, id) == IF data = {} THEN {} ELSE data \cup {id}

\* Everything cleanData deletes: nothing for a meta block without data.
ToClean(data, id) == IF data = {} THEN {} ELSE (data \cup {id}) \ {0}

\* Router::broadcast: one message to every other machine it can reach.
Broadcast(n, cmd, p, id, C) ==
  \E R \in SUBSET (up \ {n}) :
    /\ net' = net (+) SetToBag(
         [to : R, cmd : {cmd}, path : {p}, id : {id}])
    /\ IF R = up \ {n} THEN conflict' = conflict \cup C /\ UNCHANGED faults
                       ELSE conflict' = conflict \cup C \cup {p} /\ Fault

-----------------------------------------------------------------------------
(* Upload: FileUploader::receiveFile and what handleUpload does after it.  *)

\* MC_UpFileStart and MC_UpFileMeta.  The client of a name that exists is
\* told so and hangs up, which leaves everything as it was.
UpFileMeta(s, n, p) ==
  /\ tree[n][p] \in {Absent, Dir}
  /\ Request1(s, n, p, [pc |-> "data", n |-> n, p |-> p, id |-> 0, data |-> {},
                        todo |-> {}])
  /\ UNCHANGED <<up, tree, orphan, snap, net, blocks, story, faults>>

\* MC_UpFileData: a block that cannot be saved is entered with id 0.
UpFileData(s) ==
  /\ At(s, "data") /\ Cardinality(task[s].data) < MaxData
  /\ \/ /\ made < MaxBlocks /\ made' = made + 1
        /\ stored' = stored \cup {made'}
        /\ Step(s, [task[s] EXCEPT !.data = @ \cup {made'}])
        /\ UNCHANGED faults
     \/ /\ Fault
        /\ Step(s, [task[s] EXCEPT !.data = @ \cup {0}])
        /\ UNCHANGED <<stored, made>>
  /\ UNCHANGED <<up, tree, orphan, snap, net, meta, story>>

\* Mutant: the meta block gets its id and is not saved.
UpFileEndUnsaved(s) ==
  /\ At(s, "data") /\ made < MaxBlocks /\ made' = made + 1
  /\ Step(s, [task[s] EXCEPT !.pc = "add", !.id = made'])
  /\ UNCHANGED <<up, tree, orphan, snap, net, stored, meta, story, faults>>

\* MC_UpFileEnd saves the meta block, or goes on with id 0.
UpFileEnd(s) ==
  /\ At(s, "data")
  /\ \/ /\ made < MaxBlocks /\ made' = made + 1
        /\ stored' = stored \cup {made'}
        /\ meta' = [meta EXCEPT ![made'] = [path |-> task[s].p, data |-> task[s].data]]
        /\ Step(s, [task[s] EXCEPT !.pc = "add", !.id = made'])
        /\ UNCHANGED faults
     \/ /\ Fault
        /\ Step(s, [task[s] EXCEPT !.pc = "add"])
        /\ UNCHANGED blocks
  /\ UNCHANGED <<up, tree, orphan, snap, net, story>>

\* ... and enters it: a name that came to exist is refused, nothing cleaned.
AddFile(s) ==
  LET t == task[s] IN
  /\ At(s, "add")
  /\ failed' = IF t.id > 0 /\ Addable(t.n, t.p) THEN failed
                 ELSE failed \cup (({t.id} \cup t.data) \ {0})
  /\ IF Addable(t.n, t.p)
     THEN /\ Add(t.n, t.p, t.id)
          /\ Step(s, [t EXCEPT !.pc = "tell"])
          /\ news' = news \cup {t.p} /\ conflict' = conflict \cup Again(t.p)
     ELSE Step(s, Idle) /\ UNCHANGED <<tree, orphan, news, conflict>>
  /\ UNCHANGED <<up, snap, net, blocks, accepted, missed, faults>>

\* handleUpload broadcasts the new file.
TellNewFile(s) ==
  LET t == task[s] IN
  /\ At(s, "tell")
  /\ Broadcast(t.n, "newfile", t.p, t.id, {})
  /\ Step(s, Idle)
  /\ UNCHANGED <<up, tree, orphan, snap, blocks, accepted, missed, failed, news>>

\* Mutant: the file is abandoned as it is.
HangUpOnly(s) ==
  /\ At(s, "data")
  /\ Step(s, Idle)
  /\ UNCHANGED <<up, tree, orphan, snap, net, blocks, story, faults>>

\* The client disconnects before the end: cleanData of the unsaved meta block.
HangUp(s) ==
  LET todo == ToClean(task[s].data, 0) IN
  /\ At(s, "data")
  /\ Step(s, IF todo = {} THEN Idle ELSE [task[s] EXCEPT !.pc = "clean", !.todo = todo])
  /\ UNCHANGED <<up, tree, orphan, snap, net, blocks, story, faults>>

-----------------------------------------------------------------------------
(* Directories and removal.                                                *)

\* handleAddDir.
AddDir(n, p) ==
  /\ n \in up /\ ops + faults < MaxOps /\ ops' = ops + 1
  /\ Addable(n, p)
  /\ Add(n, p, Dir)
  /\ news' = news \cup {p}
  /\ Broadcast(n, "newdir", p, 0, Again(p))
  /\ UNCHANGED <<up, snap, task, blocks, accepted, missed, failed>>

\* handleRemove, MC_RmFile: the removal is acknowledged.
RmFile(s, n, p) ==
  /\ tree[n][p] > 0
  /\ Request1(s, n, p, [pc |-> "rm", n |-> n, p |-> p, id |-> tree[n][p],
                        data |-> {}, todo |-> {}])
  /\ accepted' = accepted \cup {tree[n][p]}
  /\ UNCHANGED <<up, tree, orphan, snap, net, blocks, missed, failed, news, conflict, faults>>

\* removeFile goes by the name, and its result is not looked at.
RmEntry(s) ==
  LET t == task[s] IN
  /\ At(s, "rm")
  /\ Remove(t.n, t.p)
  /\ conflict' = IF tree[t.n][t.p] = t.id THEN conflict ELSE conflict \cup {t.p}
  /\ Step(s, [t EXCEPT !.pc = "load"])
  /\ UNCHANGED <<up, snap, net, blocks, accepted, missed, failed, news, faults>>

\* The process of n ends; its requests end with it, and what was sent to it.
Die(n) ==
  LET of == {s \in Slot : task[s] # Idle /\ task[s].n = n}
      left(t) == t.todo \cup t.data
                 \cup (IF t.id = 0 THEN {} ELSE {t.id} \cup meta[t.id].data) IN
  /\ n \in up /\ up' = up \ {n}
  /\ tree' = [tree EXCEPT ![n] = NoTree]
  /\ task' = [s \in Slot |-> IF s \in of THEN Idle ELSE task[s]]
  /\ net' = [m \in {m \in BagToSet(net) : m.to # n} |-> net[m]]
  /\ missed' = missed \cup ((UNION {left(task[s]) : s \in of}) \ {0})
  /\ conflict' = Path
  /\ orphan' = [orphan EXCEPT ![n] = {}]
  /\ UNCHANGED <<blocks, accepted, failed, news, ops>>

\* getMeta finds the block, or cleanData is called without one.  A block that
\* was deleted may linger somewhere.
RmLoad(s) ==
  LET t == task[s] IN
  /\ At(s, "load")
  /\ \/ /\ Step(s, [t EXCEPT !.pc = "clean", !.todo = ToClean(meta[t.id].data, t.id)])
        /\ UNCHANGED <<up, tree, orphan, net, blocks, story, faults>>
     \/ Die(t.n) /\ IF t.id \in stored THEN Fault ELSE UNCHANGED faults
  /\ UNCHANGED snap

\* cleanData: deleteBlock of the data blocks, then of the meta block.
CleanBlock(s) ==
  /\ At(s, "clean")
  /\ \E b \in task[s].todo :
       /\ b # task[s].id \/ task[s].todo = {b}
       /\ \/ stored' = stored \ {b} /\ UNCHANGED <<missed, faults>>
          \/ Fault /\ missed' = missed \cup {b} /\ UNCHANGED stored
       /\ Step(s, [task[s] EXCEPT !.todo = @ \ {b}])
  /\ UNCHANGED <<up, tree, orphan, snap, net, meta, made, accepted, failed, news, conflict>>

\* Mutant: nobody is told of the removal.
CleanEndQuiet(s) ==
  /\ At(s, "clean") /\ task[s].todo = {}
  /\ Step(s, Idle)
  /\ UNCHANGED <<up, tree, orphan, snap, net, blocks, story, faults>>

\* handleRemove broadcasts the name; an abandoned upload was told to nobody.
CleanEnd(s) ==
  LET t == task[s] IN
  /\ At(s, "clean") /\ t.todo = {}
  /\ IF t.id = 0 THEN UNCHANGED <<net, conflict, faults>>
                 ELSE Broadcast(t.n, "rmfile", t.p, 0, {})
  /\ Step(s, Idle)
  /\ UNCHANGED <<up, tree, orphan, snap, blocks, accepted, missed, failed, news>>

\* FileTree::removeDir removes the directory and its first child, and may
\* remove a child that is named like a sibling of the directory; whatever else
\* was in there stays in _fileMap.  Nobody is told, and no block is deleted.
RmDir(n, p) ==
  /\ n \in up
  /\ tree[n][p] = Dir
  /\ \E G \in SUBSET {q \in Path : tree[n][q] # Absent} :
       LET in(d) == {q \in Path : Parent[q] = d /\ tree[n][q] # Absent} IN
       /\ p \in G /\ \A q \in G \ {p} : Parent[q] \in G /\ q \notin orphan[n]
       /\ \A q \in G : in(q) \ orphan[n] # {} => in(q) \cap G # {}
       /\ tree' = [tree EXCEPT ![n] = [q \in Path |-> IF q \in G THEN Absent ELSE @[q]]]
       /\ orphan' = [orphan EXCEPT ![n] = (@ \cup UNION {in(q) : q \in G}) \ G]
  /\ conflict' = conflict \cup {q \in Path : q = p \/ p \in above[q]}
  /\ UNCHANGED <<up, snap, task, net, blocks, accepted, missed, failed, news, ops,
                 faults>>

-----------------------------------------------------------------------------
(* Machines.                                                               *)

\* handleBroadcast: what does not fit the tree is refused.
HandleBroadcast(m) ==
  LET fits == IF m.cmd = "rmfile" THEN tree[m.to][m.path] > 0
                                  ELSE Addable(m.to, m.path) IN
  /\ net' = net (-) SetToBag({m})
  /\ IF m.cmd = "rmfile" THEN Remove(m.to, m.path)
     ELSE IF fits THEN Add(m.to, m.path, m.id) ELSE UNCHANGED <<tree, orphan>>
  /\ conflict' = IF fits THEN conflict ELSE conflict \cup {m.path}
  /\ UNCHANGED <<up, snap, task, blocks, accepted, missed, failed, news, ops, faults>>

\* A process dies: by a signal, or in removeNode, which follows a pointer that
\* was never set.
Crash(n) == Die(n) /\ Fault /\ UNCHANGED snap

\* handleGetFile only reads.  When a data block cannot be located it says so
\* and goes on with a null location.
GetFile(n, p) ==
  LET id == tree[n][p] IN
  /\ id > 0
  /\ meta[id].data \ stored # {}
  /\ Die(n)
  /\ UNCHANGED <<snap, faults>>

\* ~Server writes the snapshot: the tree from its root down.
Stop(n) ==
  /\ Die(n) /\ Fault
  /\ snap' = [snap EXCEPT ![n] = [p \in Path |->
       IF (above[p] \cup {p}) \cap orphan[n] = {} THEN tree[n][p] ELSE Absent]]

\* Server loads the last snapshot there is; nobody tells it what it missed.
Start(n) ==
  /\ n \notin up /\ up' = up \cup {n}
  /\ tree' = [tree EXCEPT ![n] = snap[n]]
  /\ UNCHANGED <<orphan, snap, task, net, blocks, story, ops, faults>>

Client(s) ==
  \/ \E n \in up, p \in Path : UpFileMeta(s, n, p) \/ RmFile(s, n, p)
  \/ HangUp(s)
Handler(s) ==
  UpFileData(s) \/ UpFileEnd(s) \/ AddFile(s) \/ TellNewFile(s) \/ RmEntry(s)
  \/ RmLoad(s) \/ CleanBlock(s) \/ CleanEnd(s)
Machine(n) ==
  \/ Crash(n) \/ Stop(n) \/ Start(n)
  \/ \E p \in Path : AddDir(n, p) \/ RmDir(n, p) \/ GetFile(n, p)

Next ==
  \/ \E s \in Slot : Client(s) \/ Handler(s)
  \/ \E n \in Node : Machine(n)
  \/ \E m \in BagToSet(net) : HandleBroadcast(m)

Spec == Init /\ [][Next]_fvars

-----------------------------------------------------------------------------
(* Properties.                                                             *)

\* Every variable keeps its type, and a machine that is down keeps nothing.
FileTypeOK ==
  /\ up \subseteq Node /\ tree \in [Node -> [Path -> Absent..MaxBlocks]]
  /\ snap \in [Node -> [Path -> Absent..MaxBlocks]]
  /\ orphan \in [Node -> SUBSET Path]
  /\ task \in [Slot -> Request \cup {Idle}]
  /\ BagToSet(net) \subseteq Msg
  /\ made \in 0..MaxBlocks /\ stored \subseteq 1..made
  /\ meta \in [BlockId -> [path : Path \cup {Root}, data : SUBSET (0..MaxBlocks)]]
  /\ \A s \in Slot : task[s] # Idle => task[s].n \in up
  /\ \A n \in Node \ up : tree[n] = NoTree

\* The blocks of a file.
BlocksOf(id) == ({id} \cup meta[id].data) \ {0}

\* A file that a machine lists, has in its snapshot or is told of was saved
\* under that name, and its blocks stay as long as no removal of this very file
\* was acknowledged: not those of its namesakes, nor an upload that was abandoned
\* (handleRemove and receiveFile delete blocks by the ids of a meta block).
ListedWhole ==
  \A p \in Path :
    \A id \in (UNION {{tree[n][p], snap[n][p]} : n \in Node})
              \cup {m.id : m \in {m \in BagToSet(net) : m.path = p}} :
      id > 0 => /\ meta[id].path = p
                /\ id \in accepted \/ BlocksOf(id) \subseteq stored

\* An acknowledged removal and an abandoned upload leave no block behind, once
\* their handlers are done and unless a deletion was lost on the way.  What stays:
\* the meta block of an empty file (cleanData looks at the data blocks only) and
\* the data of a meta block that could not be saved.
Released ==
  /\ \A id \in accepted :
       \/ meta[id].data = {}
       \/ BlocksOf(id) \cap stored \subseteq missed
       \/ \E s \in Slot : task[s] # Idle /\ task[s].id = id
  /\ \A b \in stored :
       \/ b \in missed \/ meta[b].path # Root
       \/ \E id \in BlockId : b \in meta[id].data
       \/ b \in failed
       \/ \E s \in Slot : task[s] # Idle /\ b \in task[s].data \cup task[s].todo

\* What a machine has a name for is in a directory it has, but for what
\* removeDir left behind: the order of broadcasts and the snapshot keep to it.
Rooted ==
  \A n \in Node, p \in Path :
    tree[n][p] = Absent \/ InDir(n, p) \/ p \in orphan[n]

\* The machines agree on a name that was added once, when all was said of it:
\* unless a broadcast was cut short or came in the wrong order, a directory was
\* removed, which nobody is told, or a machine was restarted.
AgreeUnlessConflict ==
  \A p \in Path \ conflict :
    \/ \E m \in BagToSet(net) : m.path = p
    \/ \E s \in Slot : task[s] # Idle /\ task[s].p = p /\ task[s].pc # "data"
    \/ \A m, n \in Node : tree[m][p] = tree[n][p]
=============================================================================
