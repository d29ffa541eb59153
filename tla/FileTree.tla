------------------------------- MODULE FileTree -------------------------------
(***************************************************************************)
(* FileTree: the nodes of one machine's directory in memory, linked to     *)
(* their first child, siblings and parent, and _fileMap, a table of chains *)
(* from paths to nodes.  One thread; removeDir, which follows pointers     *)
(* while it removes what they point to, goes step by step.  What is read   *)
(* after it was freed, or was never set, ends the model: "ub".             *)
(***************************************************************************)
EXTENDS Integers, Sequences, SequencesExt, FiniteSets

CONSTANTS
  Name,
  Blank,     \* names with a blank in them
  Path,      \* bound: the paths clients name, and those they lie in
  Addr,      \* bound: nodes in memory, numbered
  File,      \* metaIDs of files
  Bucket,
  Hash       \* Hash[p]: the chain of path p in _fileMap

Root == <<>>
Nil == 0
Wild == -1         \* a _parent that was never set
NoPath == <<Nil>>  \* "//a": what removeDir("/") makes of a child's name

ASSUME TreeAssumption ==
  /\ Root \in Path /\ Path \subseteq Seq(Name)
  /\ \A p \in Path : p # Root => Front(p) \in Path
  /\ Blank \subseteq Name /\ Nil \notin Name /\ Nil \notin File
  /\ Addr \subseteq Nat \ {Nil} /\ 1 \in Addr
  /\ Hash \in [Path -> Bucket]

VARIABLES
  t,       \* the tree: t.node[a] in memory, and t.chain[h] of _fileMap
  call,    \* removeDir's frames: its path, its node and `next`
  status   \* "run", or how the process went on: "ub", "spin", "dead"

tvars == <<t, call, status>>

Free == [free |-> TRUE]
NewNode(name, id) == [name |-> name, metaID |-> id, children |-> Nil,
                      next |-> Nil, last |-> Nil, parent |-> Wild]
IsFile(n) == n.metaID # Nil
Empty == [node |-> [a \in Addr |-> IF a = 1 THEN NewNode(Nil, Nil) ELSE Free],
          chain |-> [h \in Bucket |->
                       IF h = Hash[Root] THEN <<[key |-> Root, value |-> 1]>> ELSE <<>>]]

Init == t = Empty /\ call = <<>> /\ status = "run"

-----------------------------------------------------------------------------
(* The table.                                                              *)

Places(x, p) == {i \in DOMAIN x.chain[Hash[p]] : x.chain[Hash[p]][i].key = p}

\* HashList::getValue.
Value(x, p) ==
  IF p \notin Path THEN Nil
  ELSE IF Places(x, p) = {} THEN Nil
  ELSE x.chain[Hash[p]][CHOOSE i \in Places(x, p) : TRUE].value

\* Mutant: only the head of a chain is looked at.
ReachesHead(x, p) == Places(x, p) \cap {1} # {}

\* HashList::remove looks at the first two of a chain: past them it never ends.
Reaches(x, p) == Places(x, p) \cap {1, 2} # {}

\* Mutant: the head of the chain goes, whatever its key.
UnmappedHead(x, p) == [x EXCEPT !.chain[Hash[p]] = Tail(@)]

Unmapped(x, p) ==
  [x EXCEPT !.chain[Hash[p]] = RemoveAt(@, CHOOSE i \in Places(x, p) : TRUE)]

-----------------------------------------------------------------------------
(* Nodes.                                                                  *)

Allocated(x) == {a \in Addr : x.node[a] # Free}

\* The last of the list that starts with a.
LastOf(x, a) ==
  LET f[b \in Allocated(x)] == IF x.node[b].next = Nil THEN b ELSE f[x.node[b].next]
  IN f[a]

\* Mutant: a new node in a list does not know the one before it.
LinkedForward(x, d, a) ==
  LET first == x.node[d].children IN
  IF first = Nil THEN [x.node EXCEPT ![d].children = a, ![a].parent = d]
  ELSE [x.node EXCEPT ![LastOf(x, first)].next = a]

\* Mutant: a new node comes first.
LinkedFirst(x, d, a) ==
  LET first == x.node[d].children IN
  [b \in Addr |-> IF b = d THEN [x.node[b] EXCEPT !.children = a]
                 ELSE IF b = a THEN [x.node[b] EXCEPT !.parent = d, !.next = first]
                 ELSE IF b = first THEN [x.node[b] EXCEPT !.last = a]
                 ELSE x.node[b]]

\* Only a first child is told its parent.
Linked(x, d, a) ==
  LET first == x.node[d].children IN
  IF first = Nil THEN [x.node EXCEPT ![d].children = a, ![a].parent = d]
  ELSE [x.node EXCEPT ![LastOf(x, first)].next = a, ![a].last = LastOf(x, first)]

\* A new name in a directory, within the bounds of the model.
Fits(x, p) ==
  /\ p \in Path /\ Allocated(x) # Addr
  /\ Value(x, p) = Nil /\ p # Root
  /\ Value(x, Front(p)) # Nil /\ ~IsFile(x.node[Value(x, Front(p))])

\* addFile, for a path that fits; addDir has no metaID.
Added(x, p, id) ==
  LET a == CHOOSE b \in Addr \ Allocated(x) : \A c \in Addr \ Allocated(x) : b <= c
      y == [x EXCEPT !.node[a] = NewNode(Last(p), id)] IN
  [node |-> Linked(y, Value(x, Front(p)), a),
   chain |-> [x.chain EXCEPT ![Hash[p]] = Append(@, [key |-> p, value |-> a])]]

\* The node whose first child is a.
Holds(x, a) == {d \in Allocated(x) : x.node[d].children = a}

\* removeNode: a without its links.
Unlinked(x, a) ==
  LET n == x.node[a] IN
  [x EXCEPT !.node = [b \in Addr |->
     IF b = a THEN Free
     ELSE IF x.node[b] = Free THEN Free
     ELSE [x.node[b] EXCEPT
             !.next = IF b = n.last THEN n.next ELSE @,
             !.last = IF b = n.next THEN n.last ELSE @,
             !.children = IF @ = a THEN n.next ELSE @]]]

\* ... but the parent's pointer goes wrong when _parent is not the parent: it
\* was never set and points anywhere, or at what was freed.  What _root points
\* at is never removed with impunity: it is what the snapshot is taken from.
Parentless(x, a) == x.node[a].parent \notin Allocated(x)

RemoveNode(x, a) ==
  \/ a # 1 /\ t' = Unlinked(x, a) /\ UNCHANGED status
  \/ Parentless(x, a) /\ status' = "ub" /\ UNCHANGED t

-----------------------------------------------------------------------------
(* Calls.                                                                  *)

Ready == status = "run" /\ call = <<>>

\* addFile, addDir.
AddFile(p, id) ==
  /\ Ready /\ Fits(t, p)
  /\ t' = Added(t, p, id)
  /\ UNCHANGED <<call, status>>

RemoveFile(p) ==
  LET a == Value(t, p) IN
  /\ Ready /\ a # Nil /\ IsFile(t.node[a])
  /\ IF Reaches(t, p) THEN RemoveNode(Unmapped(t, p), a)
                      ELSE status' = "spin" /\ UNCHANGED t
  /\ UNCHANGED call

\* removeDir(p): out of the table, and on to the first child.
Enter(p) ==
  LET d == Value(t, p) IN
  IF Reaches(t, p)
  THEN /\ t' = Unmapped(t, p)
       /\ call' = <<[p |-> p, d |-> d, next |-> t.node[d].children]>> \o call
       /\ UNCHANGED status
  ELSE status' = "spin" /\ UNCHANGED <<t, call>>

RemoveDir(p) ==
  /\ Ready /\ Value(t, p) # Nil /\ ~IsFile(t.node[Value(t, p)])
  /\ Enter(p)

\* Mutant: the sibling is taken for what it is.
JoinSibling(p, name) ==
  IF p = Root THEN NoPath ELSE Append(Front(p), name)

\* path + "/" + name
Join(p, name) == IF p = Root THEN NoPath ELSE Append(p, name)

\* Where the loop of a frame goes on: with a sibling of the directory itself.
GoOn(frames, x) ==
  IF frames = <<>> THEN <<>>
  ELSE <<[Head(frames) EXCEPT !.next = x.node[Head(frames).d].next]>> \o Tail(frames)

Child == Join(Head(call).p, t.node[Head(call).next].name)
Target == Value(t, Child)
Found == Target # Nil /\ (IsFile(t.node[Target]) <=> IsFile(t.node[Head(call).next]))

InLoop == status = "run" /\ call # <<>> /\ Head(call).next # Nil

\* Nothing of that name: the same again, as long as there is a sibling.
Miss ==
  /\ InLoop /\ ~Found
  /\ call' = GoOn(call, t)
  /\ status' = IF call' = call THEN "spin" ELSE "run"
  /\ UNCHANGED t

\* removeFile(newpath)
DropFile ==
  /\ InLoop /\ Found /\ IsFile(t.node[Target])
  /\ IF Reaches(t, Child)
     THEN /\ RemoveNode(Unmapped(t, Child), Target)
          /\ call' = IF status' = "run" THEN GoOn(call, t') ELSE call
     ELSE status' = "spin" /\ UNCHANGED <<t, call>>

\* removeDir(newpath)
DropDir ==
  /\ InLoop /\ Found /\ ~IsFile(t.node[Target])
  /\ Enter(Child)

\* The end of removeDir: the rest of its children hang in nothing.
Leave ==
  /\ status = "run" /\ call # <<>> /\ Head(call).next = Nil
  /\ RemoveNode(t, Head(call).d)
  /\ call' = IF status' = "run" THEN GoOn(Tail(call), t') ELSE call

-----------------------------------------------------------------------------
(* The snapshot.                                                           *)

\* getTotalNode: a node, what is in it, what comes after it.
Dump(x) ==
  LET f[a \in Allocated(x) \cup {Nil}] ==
        [dir \in Seq(Name) |->
           IF a = Nil THEN <<>>
           ELSE LET p == IF a = 1 THEN Root ELSE Append(dir, x.node[a].name) IN
                <<[p |-> p, id |-> x.node[a].metaID]>>
                \o f[x.node[a].children][p] \o f[x.node[a].next][dir]]
  IN f[1][Root]

\* loadSnapshot adds the records one by one, the root's apart.
Load(records) ==
  LET f[n \in 0..Len(records)] ==
        IF n = 0 THEN Empty
        ELSE IF Fits(f[n - 1], records[n].p)
        THEN Added(f[n - 1], records[n].p, records[n].id)
        ELSE f[n - 1]
  IN f[Len(records)]

\* ServerSnapshot::load splits lines at blanks; stol throws at half a record.
Splits(records) == \E i \in DOMAIN records : Range(records[i].p) \cap Blank # {}

\* The process stops and starts again.
Restart ==
  /\ Ready
  /\ IF Splits(Dump(t)) THEN status' = "dead" /\ UNCHANGED t
     ELSE t' = Load(Dump(t)) /\ UNCHANGED status
  /\ UNCHANGED call

Removing == Miss \/ DropFile \/ DropDir \/ Leave

Next ==
  \/ \E p \in Path : RemoveFile(p) \/ RemoveDir(p)
                     \/ \E id \in File \cup {Nil} : AddFile(p, id)
  \/ Removing
  \/ Restart

Spec == Init /\ [][Next]_tvars

-----------------------------------------------------------------------------
(* Properties.                                                             *)

\* Links lead to nodes, and back: what is not freed is linked both ways.
TreeTypeOK ==
  /\ status \in {"run", "ub", "spin", "dead"}
  /\ \A a \in Allocated(t) :
       /\ t.node[a].parent \in Addr \cup {Wild}
       /\ \A b \in {t.node[a].children, t.node[a].next, t.node[a].last} \ {Nil} :
            b \in Allocated(t)
       /\ t.node[a].next # Nil => t.node[t.node[a].next].last = a
       /\ t.node[a].last # Nil => t.node[t.node[a].last].next = a
       /\ Cardinality(Holds(t, a)) <= 1
  /\ \A f \in Range(call) : f.p \in Path /\ f.d \in Allocated(t)

\* Every name that a listing shows can be opened, under the node it is shown
\* for, and is shown once (getChildren goes by the links, getMetaID by _fileMap).
ListedOpens ==
  Ready =>
    LET shown == Dump(t) IN
    /\ \A i \in DOMAIN shown :
         /\ Value(t, shown[i].p) # Nil
         /\ t.node[Value(t, shown[i].p)].metaID = shown[i].id
    /\ IsInjective([i \in DOMAIN shown |-> shown[i].p])

\* The snapshot restores what it was taken of, in its order, whatever removeDir
\* left in memory; but for names with blanks (saveSnapshot and loadSnapshot).
SnapshotRestores ==
  Ready =>
    Splits(Dump(t)) \/ Dump(Load(Dump(t))) = Dump(t)

\* removeDir goes on with a sibling of the directory it removes, and yet takes
\* no name out of the table that is not in the directory, nor changes one.
RemoveDirStays ==
  [][call # <<>> =>
       \A p \in Path : Value(t', p) # Value(t, p) =>
                         IsPrefix(Last(call).p, p) /\ Value(t', p) = Nil]_tvars

\* A removal never ends only if a third path is in the chain, or if a directory
\* is removed that was added before one of its siblings.
SpinsOnlyFor ==
  status = "spin" =>
    \/ \E h \in Bucket : Len(t.chain[h]) > 2
    \/ call # <<>> /\ t.node[Head(call).d].next # Nil
=============================================================================
