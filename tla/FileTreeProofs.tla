--------------------------- MODULE FileTreeProofs ---------------------------
(***************************************************************************)
(* Theorems about FileTree for every set of names, paths and nodes and     *)
(* every hash function: its types, that a listing shows what can be        *)
(* opened, that the snapshot restores the tree, that removeDir drops no    *)
(* name outside of its directory, and when it fails to end.                *)
(***************************************************************************)
EXTENDS FileTree, FiniteSetTheorems, SequenceTheorems, WellFoundedInduction, TLAPS

Node == [name : Name \cup {Nil}, metaID : File \cup {Nil},
         children : Addr \cup {Nil}, next : Addr \cup {Nil}, last : Addr \cup {Nil},
         parent : Addr \cup {Wild}]
Entry == [key : Path, value : Addr]
Trees == [node : [Addr -> Node \cup {Free}], chain : [Bucket -> Seq(Entry)]]

-----------------------------------------------------------------------------
(* The table.                                                              *)

\* Every entry is in its chain, once, and leads to a node in memory.
Tabled(x) ==
  \A h \in Bucket : \A i \in DOMAIN x.chain[h] :
    /\ Hash[x.chain[h][i].key] = h
    /\ x.chain[h][i].value \in Allocated(x)
    /\ \A j \in DOMAIN x.chain[h] : x.chain[h][i].key = x.chain[h][j].key => i = j

\* No two names of a node.
OneName(x) ==
  \A p, q \in Path : Value(x, p) = Value(x, q) /\ Value(x, p) # Nil => p = q

LEMMA NilFacts == Nil \notin Addr /\ 1 \in Addr /\ Root \in Path /\ \A p \in Path : Hash[p] \in Bucket
BY TreeAssumption DEF Nil

LEMMA ValueAt ==
  ASSUME NEW x, NEW p \in Path, NEW i \in DOMAIN x.chain[Hash[p]],
         x.chain[Hash[p]][i].key = p,
         \A j \in DOMAIN x.chain[Hash[p]] : x.chain[Hash[p]][j].key = p => i = j
  PROVE  /\ Places(x, p) = {i}
         /\ Value(x, p) = x.chain[Hash[p]][i].value
<1>1. Places(x, p) = {i}
  BY DEF Places
<1> QED
  BY <1>1 DEF Value

LEMMA ValueNone ==
  ASSUME NEW x, NEW p, p \notin Path \/ \A j \in DOMAIN x.chain[Hash[p]] : x.chain[Hash[p]][j].key # p
  PROVE  Value(x, p) = Nil
BY DEF Value, Places

\* Where a value comes from.
LEMMA ValueFrom ==
  ASSUME NEW x, x \in Trees, Tabled(x), NEW p, Value(x, p) # Nil
  PROVE  /\ p \in Path /\ Value(x, p) \in Allocated(x) /\ Value(x, p) \in Addr
         /\ \E i \in DOMAIN x.chain[Hash[p]] :
              /\ x.chain[Hash[p]][i].key = p
              /\ \A j \in DOMAIN x.chain[Hash[p]] : x.chain[Hash[p]][j].key = p => i = j
              /\ Places(x, p) = {i}
              /\ Value(x, p) = x.chain[Hash[p]][i].value
<1>1. p \in Path /\ Places(x, p) # {}
  BY DEF Value
<1>2. PICK i \in DOMAIN x.chain[Hash[p]] : x.chain[Hash[p]][i].key = p
  BY <1>1 DEF Places
<1>3. Hash[p] \in Bucket
  BY <1>1, NilFacts
<1>4. /\ \A j \in DOMAIN x.chain[Hash[p]] : x.chain[Hash[p]][j].key = p => i = j
      /\ x.chain[Hash[p]][i].value \in Allocated(x)
  BY <1>2, <1>3 DEF Tabled
<1>5. Places(x, p) = {i} /\ Value(x, p) = x.chain[Hash[p]][i].value
  BY <1>1, <1>2, <1>4, ValueAt
<1> QED
  BY <1>1, <1>2, <1>4, <1>5 DEF Allocated

LEMMA RemoveAtFacts ==
  ASSUME NEW S, NEW s \in Seq(S), NEW i \in 1..Len(s)
  PROVE  /\ RemoveAt(s, i) \in Seq(S)
         /\ Len(RemoveAt(s, i)) = Len(s) - 1
         /\ \A j \in 1..(Len(s) - 1) : RemoveAt(s, i)[j] = IF j < i THEN s[j] ELSE s[j + 1]
<1> DEFINE a == SubSeq(s, 1, i - 1)
           b == SubSeq(s, i + 1, Len(s))
<1>0. Len(s) \in Nat /\ \A j \in 1..Len(s) : s[j] \in S
  OBVIOUS
<1>1. /\ a \in Seq(S) /\ Len(a) = i - 1
      /\ \A j \in 1..(i - 1) : a[j] = s[j]
  BY <1>0, SubSeqProperties
<1>2. /\ b \in Seq(S) /\ Len(b) = Len(s) - i
      /\ \A j \in 1..(Len(s) - i) : b[j] = s[i + j]
  BY <1>0, SubSeqProperties
<1>3. /\ a \o b \in Seq(S) /\ Len(a \o b) = Len(s) - 1
      /\ \A j \in 1..(Len(s) - 1) : (a \o b)[j] = IF j <= i - 1 THEN a[j] ELSE b[j - (i - 1)]
  <2> HIDE DEF a, b
  <2>1. /\ a \o b \in Seq(S) /\ Len(a \o b) = Len(a) + Len(b)
        /\ \A j \in 1..(Len(a) + Len(b)) :
             (a \o b)[j] = IF j <= Len(a) THEN a[j] ELSE b[j - Len(a)]
    BY <1>1, <1>2, ConcatProperties
  <2>2. Len(a) + Len(b) = Len(s) - 1
    BY <1>0, <1>1, <1>2
  <2> QED
    BY <1>1, <2>1, <2>2
<1>4. \A j \in 1..(Len(s) - 1) : (a \o b)[j] = IF j < i THEN s[j] ELSE s[j + 1]
  <2> HIDE DEF a, b
  <2> TAKE j \in 1..(Len(s) - 1)
  <2>1. CASE j < i
    BY <1>0, <1>1, <1>3, <2>1
  <2>2. CASE ~(j < i)
    <3>1. j - (i - 1) \in 1..(Len(s) - i)
      BY <1>0, <2>2
    <3>2. (a \o b)[j] = b[j - (i - 1)]
      BY <1>0, <1>3, <2>2
    <3>3. b[j - (i - 1)] = s[i + (j - (i - 1))]
      BY <1>2, <3>1
    <3> QED
      BY <1>0, <3>2, <3>3, <2>2
  <2> QED
    BY <2>1, <2>2
<1> QED
  BY <1>3, <1>4 DEF RemoveAt

\* A name that is taken out of the table, and no other.
LEMMA UnmappedTable ==
  ASSUME NEW x, x \in Trees, Tabled(x), NEW p, Value(x, p) # Nil
  PROVE  /\ Unmapped(x, p) \in Trees /\ Tabled(Unmapped(x, p))
         /\ Unmapped(x, p).node = x.node
         /\ \A q : Value(Unmapped(x, p), q) = IF q = p THEN Nil ELSE Value(x, q)
<1> DEFINE y == Unmapped(x, p)
           h == Hash[p]
           c == x.chain[h]
<1>1. PICK i \in DOMAIN c :
        /\ p \in Path /\ c[i].key = p
        /\ \A j \in DOMAIN c : c[j].key = p => i = j
        /\ Places(x, p) = {i}
  BY ValueFrom
<1>2. h \in Bucket /\ c \in Seq(Entry) /\ DOMAIN c = 1..Len(c) /\ Len(c) \in Nat
  BY <1>1, NilFacts DEF Trees
<1>3. (CHOOSE k \in Places(x, p) : TRUE) = i
  BY <1>1
<1> DEFINE r == RemoveAt(c, i)
<1>4. /\ r \in Seq(Entry) /\ Len(r) = Len(c) - 1
      /\ \A j \in 1..(Len(c) - 1) : r[j] = IF j < i THEN c[j] ELSE c[j + 1]
  BY <1>2, RemoveAtFacts
<1>5. y = [x EXCEPT !.chain[h] = r]
  BY <1>3 DEF Unmapped
<1>6. /\ y \in Trees /\ y.node = x.node /\ y.chain[h] = r
      /\ \A k \in Bucket \ {h} : y.chain[k] = x.chain[k]
  <2> HIDE DEF r, y, c
  <2> QED
    BY <1>2, <1>4, <1>5 DEF Trees
<1>7. Allocated(y) = Allocated(x)
  BY <1>6 DEF Allocated
<1>8. DOMAIN r = 1..(Len(c) - 1)
  BY <1>4
<1> DEFINE At(j) == IF j < i THEN j ELSE j + 1
<1>9. \A j \in DOMAIN r : At(j) \in DOMAIN c /\ At(j) # i /\ r[j] = c[At(j)]
  <2> HIDE DEF r, y, c
  <2> TAKE j \in DOMAIN r
  <2>1. j \in 1..(Len(c) - 1) /\ r[j] = IF j < i THEN c[j] ELSE c[j + 1]
    BY <1>4, <1>8
  <2>2. CASE j < i
    BY <1>2, <2>1, <2>2
  <2>3. CASE ~(j < i)
    BY <1>2, <2>1, <2>3
  <2>4. j < i \/ ~(j < i)
    OBVIOUS
  <2> QED
    BY <2>2, <2>3, <2>4
<1>10. \A j, k \in DOMAIN r : At(j) = At(k) => j = k
  <2> HIDE DEF r, y, c
  <2>1. i \in Int /\ \A j \in DOMAIN r : j \in Int
    BY <1>2, <1>8
  <2> QED
    BY <2>1
<1>11. \A j \in DOMAIN c \ {i} : \E k \in DOMAIN r : At(k) = j
  <2> TAKE j \in DOMAIN c \ {i}
  <2>1. CASE j < i
    BY <1>2, <1>8, <2>1
  <2>2. CASE ~(j < i)
    <3>1. j - 1 \in DOMAIN r /\ At(j - 1) = j
      BY <1>2, <1>8, <2>2
    <3> QED
      BY <3>1
  <2> QED
    BY <2>1, <2>2
<1>12. Tabled(y)
  <2> SUFFICES ASSUME NEW k \in Bucket, NEW j \in DOMAIN y.chain[k]
               PROVE  /\ Hash[y.chain[k][j].key] = k
                      /\ y.chain[k][j].value \in Allocated(x)
                      /\ \A l \in DOMAIN y.chain[k] : y.chain[k][j].key = y.chain[k][l].key => j = l
    BY <1>7 DEF Tabled
  <2>1. CASE k # h
    BY <2>1, <1>6 DEF Tabled
  <2>2. CASE k = h
    <3> HIDE DEF y, r, At, c
    <3>1. /\ Hash[c[At(j)].key] = h /\ c[At(j)].value \in Allocated(x)
          /\ \A l \in DOMAIN r : c[At(j)].key = c[At(l)].key => At(j) = At(l)
      BY <2>2, <1>2, <1>6, <1>9 DEF Tabled, c
    <3> QED
      BY <2>2, <3>1, <1>6, <1>9, <1>10
  <2> QED
    BY <2>1, <2>2
<1>13. ASSUME NEW q  PROVE Value(y, q) = IF q = p THEN Nil ELSE Value(x, q)
  <2>1. CASE q \notin Path
    BY <2>1, <1>1, ValueNone
  <2>2. CASE q \in Path /\ Hash[q] # h
    <3> HIDE DEF y, r, At, c
    <3>1. y.chain[Hash[q]] = x.chain[Hash[q]]
      BY <2>2, <1>6, NilFacts
    <3>2. Places(y, q) = Places(x, q)
      BY <3>1 DEF Places
    <3>3. Value(y, q) = Value(x, q)
      BY <3>1, <3>2 DEF Value
    <3> QED
      BY <2>2, <3>3
  <2>3. CASE q \in Path /\ Hash[q] = h /\ q = p
    <3> HIDE DEF y, r, At, c
    <3>1. \A j \in DOMAIN r : r[j].key # p
      BY <1>1, <1>9
    <3> QED
      BY <2>3, <3>1, <1>6, ValueNone
  <2>4. CASE q \in Path /\ Hash[q] = h /\ q # p /\ Value(x, q) = Nil
    <3> HIDE DEF y, r, At, c
    <3>1. \A j \in DOMAIN c : c[j].key # q
      <4> SUFFICES ASSUME NEW j \in DOMAIN c, c[j].key = q  PROVE FALSE
        OBVIOUS
      <4>1. \A l \in DOMAIN c : c[l].key = q => j = l
        BY <1>2 DEF Tabled, c
      <4>2. Value(x, q) = c[j].value
        BY <2>4, <4>1, ValueAt DEF c
      <4>3. c[j].value \in Addr
        <5>1. c[j] \in Entry
          BY <1>2
        <5> QED
          BY <5>1 DEF Entry
      <4> QED
        BY <4>2, <4>3, <2>4, NilFacts
    <3>2. \A j \in DOMAIN r : r[j].key # q
      BY <3>1, <1>9
    <3> QED
      BY <2>4, <3>2, <1>6, ValueNone
  <2>5. CASE q \in Path /\ Hash[q] = h /\ q # p /\ Value(x, q) # Nil
    <3> HIDE DEF y, r, At
    <3>1. PICK j \in DOMAIN c :
            /\ c[j].key = q /\ \A l \in DOMAIN c : c[l].key = q => j = l
            /\ Value(x, q) = c[j].value
      BY <2>5, ValueFrom
    <3> HIDE DEF c
    <3>2. PICK k \in DOMAIN r : At(k) = j
      BY <1>1, <2>5, <3>1, <1>11
    <3>3. r[k] = c[j] /\ \A l \in DOMAIN r : r[l].key = q => k = l
      BY <3>1, <3>2, <1>9, <1>10
    <3>4. Value(y, q) = r[k].value
      BY <2>5, <3>1, <3>3, <1>6, ValueAt
    <3> QED
      BY <2>5, <3>1, <3>3, <3>4
  <2> QED
    BY <2>1, <2>2, <2>3, <2>4, <2>5
<1> QED
  BY <1>6, <1>12, <1>13

LEMMA ReachesAny ==
  ASSUME NEW x, x \in Trees, Tabled(x), NEW p, Value(x, p) # Nil, ~Reaches(x, p)
  PROVE  \E h \in Bucket : Len(x.chain[h]) > 2
<1>1. PICK i \in DOMAIN x.chain[Hash[p]] : p \in Path /\ Places(x, p) = {i}
  BY ValueFrom
<1>2. Hash[p] \in Bucket /\ x.chain[Hash[p]] \in Seq(Entry)
  BY <1>1, NilFacts DEF Trees
<1>3. i # 1 /\ i # 2
  BY <1>1 DEF Reaches
<1>4. i \in 1..Len(x.chain[Hash[p]]) /\ Len(x.chain[Hash[p]]) \in Nat
  BY <1>1, <1>2
<1> QED
  BY <1>2, <1>3, <1>4

-----------------------------------------------------------------------------
(* Recursion: over a domain where nothing goes on for ever, an equation    *)
(* that looks only at what comes next has a solution.                      *)

\* No set of D in which every element has a successor, P, in the set.
Ends(D, P) == \A S \in SUBSET D : (\A b \in S : P[b] \cap S # {}) => S = {}

\* G[b] depends on nothing but the values at b's successors.
Local(D, W, P, G) ==
  \A b \in D : \A g, h \in W : (\A c \in P[b] : g[c] = h[c]) => G[b][g] = G[b][h]

LEMMA LocalAt ==
  ASSUME NEW D, NEW W, NEW P, NEW G, Local(D, W, P, G),
         NEW b \in D, NEW g \in W, NEW h \in W, \A c \in P[b] : g[c] = h[c]
  PROVE  G[b][g] = G[b][h]
BY DEF Local

\* An equation f[b] = G[b][f] for functions f of W, from D to V.
Equation(D, V, W, P, G) ==
  /\ V # {} /\ W = [D -> V] /\ P \in [D -> SUBSET D] /\ G \in [D -> [W -> V]]
  /\ Ends(D, P) /\ Local(D, W, P, G)

LEMMA Recursion ==
  ASSUME NEW D, NEW V, NEW W, NEW P, NEW G, Equation(D, V, W, P, G)
  PROVE  \E f \in W : \A b \in D : f[b] = G[b][f]
<1> SUFFICES ASSUME V # {}, W = [D -> V], P \in [D -> SUBSET D], G \in [D -> [W -> V]],
                    Ends(D, P), Local(D, W, P, G)
             PROVE  \E f \in W : \A b \in D : f[b] = G[b][f]
  BY DEF Equation
<1> DEFINE Part(C, g) == /\ C \subseteq D /\ g \in W
                         /\ \A b \in C : P[b] \subseteq C /\ g[b] = G[b][g]
           Some(b) == \E C \in SUBSET D, g \in W : b \in C /\ Part(C, g)
           K == {b \in D : Some(b)}
\* Two partial solutions agree where both are solutions.
<1>1. ASSUME NEW C1, NEW g1, NEW C2, NEW g2, Part(C1, g1), Part(C2, g2),
             NEW b \in C1 \cap C2
      PROVE  g1[b] = g2[b]
  <2> DEFINE S == {c \in C1 \cap C2 : g1[c] # g2[c]}
  <2>1. S \in SUBSET D
    BY <1>1
  <2>2. ASSUME NEW c \in S  PROVE P[c] \cap S # {}
    <3> SUFFICES ASSUME P[c] \cap S = {}  PROVE FALSE
      OBVIOUS
    <3>1. /\ c \in D /\ g1 \in W /\ g2 \in W
          /\ P[c] \subseteq C1 /\ P[c] \subseteq C2
          /\ g1[c] = G[c][g1] /\ g2[c] = G[c][g2] /\ g1[c] # g2[c]
      BY <1>1, <2>2
    <3>2. \A e \in P[c] : g1[e] = g2[e]
      BY <3>1
    <3>3. G[c][g1] = G[c][g2]
      BY <3>1, <3>2, LocalAt
    <3> QED
      BY <3>1, <3>3
  <2>3. S = {}
    BY <2>1, <2>2 DEF Ends
  <2> QED
    BY <1>1, <2>3
<1> DEFINE Sol(b) == CHOOSE g \in W : \E C \in SUBSET D : b \in C /\ Part(C, g)
           Else == CHOOSE v \in V : TRUE
           F == [b \in D |-> IF b \in K THEN Sol(b)[b] ELSE Else]
<1>2. ASSUME NEW b \in K
      PROVE  \E C \in SUBSET D : b \in C /\ Part(C, Sol(b)) /\ Sol(b) \in W
  <2> HIDE DEF Part
  <2>1. \E g \in W : \E C \in SUBSET D : b \in C /\ Part(C, g)
    BY <1>2
  <2> QED
    BY <2>1
<1>3. ASSUME NEW C \in SUBSET D, NEW g \in W, Part(C, g), NEW b \in C
      PROVE  b \in K /\ F[b] = g[b]
  <2>1. b \in K
    BY <1>3
  <2>2. PICK C2 \in SUBSET D : b \in C2 /\ Part(C2, Sol(b))
    BY <2>1, <1>2
  <2> HIDE DEF Part, Sol, K
  <2>3. Sol(b)[b] = g[b]
    BY <1>1, <1>3, <2>2
  <2>4. b \in D
    BY <1>3
  <2> QED
    BY <2>1, <2>3, <2>4
<1>4. ASSUME NEW b \in D
      PROVE  F[b] \in V
  <2>1. CASE b \in K
    <3>1. Sol(b) \in W
      BY <2>1, <1>2
    <3> HIDE DEF Sol, K
    <3> QED
      BY <3>1, <2>1
  <2>2. CASE b \notin K
    <3> HIDE DEF Sol, K
    <3> QED
      BY <2>2
  <2> QED
    BY <2>1, <2>2
<1>5. F \in W
  <2> HIDE DEF Sol, K, Else
  <2> QED
    BY <1>4
<1>6. Part(K, F)
  <2>1. ASSUME NEW b \in K  PROVE P[b] \subseteq K /\ F[b] = G[b][F]
    <3>1. PICK C \in SUBSET D : b \in C /\ Part(C, Sol(b)) /\ Sol(b) \in W
      BY <2>1, <1>2
    <3> DEFINE g == Sol(b)
    <3>2. b \in D /\ g \in W /\ P[b] \subseteq C /\ g[b] = G[b][g]
      BY <3>1, <2>1
    <3>3. \A c \in C : c \in K /\ F[c] = g[c]
      <4> HIDE DEF Part, K, F, Sol
      <4> QED
        BY <3>1, <1>3
    <3> HIDE DEF Sol, K, F, Part, g
    <3>4. G[b][F] = G[b][g]
      BY <3>2, <3>3, <1>5 DEF Local
    <3> QED
      BY <3>1, <3>2, <3>3, <3>4
  <2>2. K \subseteq D
    OBVIOUS
  <2> HIDE DEF K, F, Sol
  <2> QED
    BY <2>1, <2>2, <1>5
<1>7. ASSUME NEW b \in D \ K, P[b] \subseteq K
      PROVE  FALSE
  <2> DEFINE H == [F EXCEPT ![b] = G[b][F]]
  <2>0. K \subseteq D /\ \A c \in K : P[c] \subseteq K /\ F[c] = G[c][F]
    BY <1>6
  <2>1. G[b][F] \in V
    <3> HIDE DEF F, K
    <3>1. G[b] \in [W -> V]
      BY <1>7
    <3> QED
      BY <1>5, <3>1
  <2>2. H \in W /\ H[b] = G[b][F] /\ \A c \in K : H[c] = F[c]
    <3> HIDE DEF F, K
    <3> QED
      BY <1>5, <1>7, <2>0, <2>1
  <2>3. \A c \in K \cup {b} : G[c][H] = G[c][F]
    <3> TAKE c \in K \cup {b}
    <3>1. c \in D /\ \A e \in P[c] : H[e] = F[e]
      <4> HIDE DEF F, K, H
      <4> QED
        BY <1>7, <2>0, <2>2
    <3> HIDE DEF F, K, H
    <3> QED
      BY <3>1, <1>5, <2>2, LocalAt
  <2>4. Part(K \cup {b}, H)
    <3> HIDE DEF F, K, H
    <3> QED
      BY <1>7, <2>0, <2>2, <2>3
  <2>5. Some(b)
    <3> HIDE DEF F, K, H, Part
    <3>1. K \cup {b} \in SUBSET D /\ b \in K \cup {b}
      BY <1>7, <2>0
    <3> QED
      BY <2>2, <2>4, <3>1
  <2>6. b \in K
    BY <2>5
  <2> QED
    BY <1>7, <2>6
<1>8. K = D
  <2> DEFINE S == D \ K
  <2>1. \A b \in S : P[b] \cap S # {}
    <3> HIDE DEF K
    <3> QED
      BY <1>7
  <2>2. S = {}
    BY <2>1 DEF Ends
  <2> QED
    BY <2>2
<1>9. \A b \in D : F[b] = G[b][F]
  <2> HIDE DEF K, F
  <2> QED
    BY <1>6, <1>8
<1> QED
  <2> HIDE DEF F
  <2> QED
    BY <1>5, <1>9

-----------------------------------------------------------------------------
(* Nodes.                                                                  *)

\* Links lead to nodes in memory and are mutual; nothing leads to the root;
\* a list hangs in one node at most, by its first element.
Pointers(x) ==
  \A a \in Allocated(x) :
    /\ x.node[a].children \in Allocated(x) \cup {Nil}
    /\ x.node[a].next \in Allocated(x) \cup {Nil}
    /\ x.node[a].last \in Allocated(x) \cup {Nil}
    /\ x.node[a].next # Nil => x.node[x.node[a].next].last = a
    /\ x.node[a].last # Nil => x.node[x.node[a].last].next = a
    /\ x.node[a].children # Nil => x.node[x.node[a].children].last = Nil
    /\ \A b \in Allocated(x) :
         x.node[a].children = x.node[b].children /\ x.node[a].children # Nil => a = b

Kinds(x) ==
  /\ \A a \in Allocated(x) :
       /\ x.node[a].children # 1 /\ x.node[a].next # 1
       /\ a # 1 => x.node[a].name \in Name
       /\ IsFile(x.node[a]) => x.node[a].children = Nil
  /\ 1 \in Allocated(x) /\ ~IsFile(x.node[1])
  /\ x.node[1].next = Nil /\ x.node[1].last = Nil /\ x.node[1].parent = Wild

\* The links go round in no circle, and on for ever nowhere.
Grounded(x) ==
  \A S \in SUBSET Allocated(x) :
    (\A a \in S : x.node[a].children \in S \/ x.node[a].next \in S) => S = {}

Sound(x) ==
  x \in Trees /\ Tabled(x) /\ OneName(x) /\ Pointers(x) /\ Kinds(x) /\ Grounded(x)

LEMMA FreeFacts ==
  /\ Free \notin Node
  /\ \A n \in Node : n # Free
<1>1. ASSUME NEW n \in Node  PROVE n # Free
  <2>1. "name" \in DOMAIN n
    BY DEF Node
  <2>2. "name" \notin DOMAIN Free
    BY DEF Free
  <2> QED
    BY <2>1, <2>2
<1> QED
  BY <1>1

LEMMA NodeOf ==
  ASSUME NEW x, x \in Trees, NEW a \in Allocated(x)
  PROVE  a \in Addr /\ a # Nil /\ x.node[a] \in Node
BY NilFacts DEF Allocated, Trees

LEMMA LastOfUnfolds ==
  ASSUME NEW x, x \in Trees, Pointers(x), Kinds(x), Grounded(x)
  PROVE  \E f \in [Allocated(x) -> Allocated(x)] :
           /\ \A b \in Allocated(x) :
                f[b] = IF x.node[b].next = Nil THEN b ELSE f[x.node[b].next]
           /\ \A b : LastOf(x, b) = f[b]
<1> DEFINE D == Allocated(x)
           W == [D -> D]
           P == [b \in D |-> {x.node[b].next} \cap D]
           G == [b \in D |-> [g \in W |-> IF x.node[b].next = Nil THEN b ELSE g[x.node[b].next]]]
           E(f) == [b \in D |-> IF x.node[b].next = Nil THEN b ELSE f[x.node[b].next]]
<1>0. Nil \notin D
  BY NodeOf
<1>1. D # {}
  BY DEF Kinds
<1>2. P \in [D -> SUBSET D]
  OBVIOUS
<1>3. G \in [D -> [W -> D]]
  <2> SUFFICES ASSUME NEW b \in D, NEW g \in W
               PROVE  (IF x.node[b].next = Nil THEN b ELSE g[x.node[b].next]) \in D
    OBVIOUS
  <2> QED
    BY DEF Pointers
<1>4. Ends(D, P)
  <2> SUFFICES ASSUME NEW S \in SUBSET D, \A b \in S : P[b] \cap S # {}  PROVE S = {}
    BY DEF Ends
  <2>1. \A b \in S : x.node[b].next \in S
    OBVIOUS
  <2> QED
    BY <2>1 DEF Grounded
<1>5. Local(D, W, P, G)
  <2> SUFFICES ASSUME NEW b \in D, NEW g \in W, NEW h \in W, \A c \in P[b] : g[c] = h[c]
               PROVE  G[b][g] = G[b][h]
    BY DEF Local
  <2>1. x.node[b].next # Nil => x.node[b].next \in P[b]
    BY DEF Pointers
  <2> QED
    BY <2>1
<1> HIDE DEF D, P, G, W
<1>6. W = [D -> D]
  BY DEF W
<1>7. PICK f \in W : \A b \in D : f[b] = G[b][f]
  <2>1. Equation(D, D, W, P, G)
    BY <1>1, <1>2, <1>3, <1>4, <1>5, <1>6 DEF Equation
  <2> QED
    BY <2>1, Recursion
<1>8. \A b \in D : f[b] = IF x.node[b].next = Nil THEN b ELSE f[x.node[b].next]
  BY <1>7 DEF G
<1>9. f = E(f)
  BY <1>6, <1>7, <1>8
<1> DEFINE c == CHOOSE g : g = E(g)
<1>10. c = E(c)
  BY <1>9
<1>11. \A b : LastOf(x, b) = c[b]
  BY DEF LastOf, D
<1>12. \A b \in D : c[b] = IF x.node[b].next = Nil THEN b ELSE c[x.node[b].next]
  <2> HIDE DEF c
  <2> QED
    BY <1>10
<1>13. c \in [D -> D]
  <2> DEFINE S == {b \in D : c[b] \notin D}
  <2>1. \A b \in S : x.node[b].next \in S
    <3> HIDE DEF c
    <3> QED
      BY <1>12 DEF Pointers, D
  <2>2. S = {}
    BY <2>1 DEF Grounded, D
  <2> HIDE DEF c
  <2>3. c = [b \in D |-> c[b]]
    BY <1>10
  <2> QED
    BY <2>2, <2>3
<1> QED
  BY <1>11, <1>12, <1>13 DEF D

\* The end of a list is in every set that has its first and goes on with it.
LEMMA LastOfFacts ==
  ASSUME NEW x, x \in Trees, Pointers(x), Kinds(x), Grounded(x),
         NEW S \in SUBSET Allocated(x), NEW a \in S,
         \A b \in S : x.node[b].next # Nil => x.node[b].next \in S
  PROVE  LastOf(x, a) \in S /\ x.node[LastOf(x, a)].next = Nil
<1>1. PICK f \in [Allocated(x) -> Allocated(x)] :
        /\ \A b \in Allocated(x) :
             f[b] = IF x.node[b].next = Nil THEN b ELSE f[x.node[b].next]
        /\ \A b : LastOf(x, b) = f[b]
  BY LastOfUnfolds
<1> DEFINE T == {b \in S : ~(f[b] \in S /\ x.node[f[b]].next = Nil)}
<1>2. \A b \in T : x.node[b].next \in T
  <2> SUFFICES ASSUME NEW b \in T  PROVE x.node[b].next \in T
    OBVIOUS
  <2>1. f[b] = IF x.node[b].next = Nil THEN b ELSE f[x.node[b].next]
    BY <1>1
  <2>2. x.node[b].next # Nil
    BY <2>1
  <2>3. f[b] = f[x.node[b].next] /\ x.node[b].next \in S
    BY <2>1, <2>2
  <2> QED
    BY <2>3
<1>3. T = {}
  BY <1>2 DEF Grounded
<1> QED
  BY <1>1, <1>3

LEMMA Smallest ==
  ASSUME NEW S \in SUBSET Nat, S # {}
  PROVE  \E a \in S : \A b \in S : a <= b
<1> DEFINE R == OpToRel(<, Nat)
<1>1. IsWellFoundedOn(R, Nat)
  BY NatLessThanWellFounded
<1>2. \A a, b \in Nat : a < b => <<a, b>> \in R
  BY DEF OpToRel
<1> HIDE DEF R
<1>3. PICK a \in S : \A b \in S : ~(<<b, a>> \in R)
  BY <1>1, WFMin
<1>4. ASSUME NEW b \in S
      PROVE  a <= b
  <2>1. a \in Nat /\ b \in Nat /\ ~(b < a)
    BY <1>2, <1>3
  <2> QED
    BY <2>1
<1> QED
  BY <1>4

\* The address of a new node.
Fresh(x) == CHOOSE b \in Addr \ Allocated(x) : \A c \in Addr \ Allocated(x) : b <= c

LEMMA FreshFacts ==
  ASSUME NEW x, Allocated(x) # Addr
  PROVE  Fresh(x) \in Addr \ Allocated(x)
<1>1. Addr \ Allocated(x) \in SUBSET Nat /\ Addr \ Allocated(x) # {}
  BY TreeAssumption DEF Allocated
<1>2. \E b \in Addr \ Allocated(x) : \A c \in Addr \ Allocated(x) : b <= c
  BY <1>1, Smallest
<1> QED
  BY <1>2 DEF Fresh

\* y has a node more than x: a, in d, after l.
Grown(x, y, a, d, l, name, id) ==
  /\ a \in Addr \ Allocated(x) /\ d \in Allocated(x) /\ ~IsFile(x.node[d])
  /\ IF x.node[d].children = Nil THEN l = Nil
     ELSE /\ l \in Allocated(x) /\ x.node[l].next = Nil
          /\ \A S \in SUBSET Allocated(x) :
               /\ x.node[d].children \in S
               /\ \A b \in S : x.node[b].next # Nil => x.node[b].next \in S
               => l \in S
  /\ name \in Name /\ id \in File \cup {Nil}
  /\ y.node \in [Addr -> Node \cup {Free}]
  /\ Allocated(y) = Allocated(x) \cup {a}
  /\ /\ y.node[a].name = name /\ y.node[a].metaID = id
     /\ y.node[a].children = Nil /\ y.node[a].next = Nil /\ y.node[a].last = l
  /\ \A b \in Allocated(x) :
       /\ y.node[b].name = x.node[b].name /\ y.node[b].metaID = x.node[b].metaID
       /\ y.node[b].last = x.node[b].last /\ y.node[b].parent = x.node[b].parent
       /\ y.node[b].children = IF b = d /\ l = Nil THEN a ELSE x.node[b].children
       /\ y.node[b].next = IF b = l THEN a ELSE x.node[b].next

LEMMA GrownEnd ==
  ASSUME NEW x, Sound(x), NEW y, NEW a, NEW d, NEW l, NEW name, NEW id,
         Grown(x, y, a, d, l, name, id)
  PROVE  l # 1 /\ a # 1 /\ a # Nil /\ a # d /\ a # l
<1>1. 1 \in Allocated(x) /\ Nil # 1 /\ a \notin Allocated(x) /\ a # Nil
  BY NilFacts DEF Sound, Kinds, Grown, Nil
<1>2. CASE x.node[d].children = Nil
  BY <1>1, <1>2 DEF Grown
<1>3. CASE x.node[d].children # Nil
  <2> DEFINE S == Allocated(x) \ {1}
  <2>1. S \in SUBSET Allocated(x) /\ x.node[d].children \in S
    BY <1>3 DEF Grown, Sound, Pointers, Kinds
  <2>2. \A b \in S : x.node[b].next # Nil => x.node[b].next \in S
    BY DEF Sound, Pointers, Kinds
  <2>3. l \in S
    BY <1>3, <2>1, <2>2 DEF Grown
  <2> QED
    BY <1>1, <2>3 DEF Grown
<1> QED
  BY <1>2, <1>3

LEMMA GrownPointers ==
  ASSUME NEW x, Sound(x), NEW y, NEW a, NEW d, NEW l, NEW name, NEW id,
         Grown(x, y, a, d, l, name, id)
  PROVE  Pointers(y) /\ Kinds(y) /\ Grounded(y)
<1>0. /\ Pointers(x) /\ Kinds(x) /\ Grounded(x) /\ x \in Trees
      /\ l # 1 /\ a # 1 /\ a # Nil /\ a # d /\ a # l /\ Nil \notin Allocated(x)
  BY GrownEnd, NodeOf DEF Sound
<1>1. /\ a \notin Allocated(x) /\ d \in Allocated(x) /\ l \in Allocated(x) \cup {Nil}
      /\ x.node[d].children = Nil <=> l = Nil
      /\ l # Nil => x.node[l].next = Nil
      /\ Allocated(y) = Allocated(x) \cup {a}
  BY <1>0 DEF Grown
<1>2. /\ y.node[a].name = name /\ name \in Name /\ y.node[a].metaID = id
      /\ y.node[a].children = Nil /\ y.node[a].next = Nil /\ y.node[a].last = l
  BY DEF Grown
<1>3. ASSUME NEW b \in Allocated(x)
      PROVE  /\ y.node[b].name = x.node[b].name /\ y.node[b].metaID = x.node[b].metaID
             /\ y.node[b].last = x.node[b].last /\ y.node[b].parent = x.node[b].parent
             /\ y.node[b].children = IF b = d /\ l = Nil THEN a ELSE x.node[b].children
             /\ y.node[b].next = IF b = l THEN a ELSE x.node[b].next
  BY DEF Grown
<1>4. ASSUME NEW b \in Allocated(y)
      PROVE  /\ y.node[b].children \in Allocated(y) \cup {Nil}
             /\ y.node[b].next \in Allocated(y) \cup {Nil}
             /\ y.node[b].last \in Allocated(y) \cup {Nil}
             /\ y.node[b].next # Nil => y.node[y.node[b].next].last = b
             /\ y.node[b].last # Nil => y.node[y.node[b].last].next = b
             /\ y.node[b].children # Nil => y.node[y.node[b].children].last = Nil
             /\ \A c \in Allocated(y) :
                  y.node[b].children = y.node[c].children /\ y.node[b].children # Nil => b = c
  <2>1. CASE b = a
    BY <2>1, <1>0, <1>1, <1>2, <1>3
  <2>2. CASE b \in Allocated(x)
    <3>1. /\ x.node[b].children \in Allocated(x) \cup {Nil}
          /\ x.node[b].next \in Allocated(x) \cup {Nil}
          /\ x.node[b].last \in Allocated(x) \cup {Nil}
          /\ x.node[b].next # Nil => x.node[x.node[b].next].last = b
          /\ x.node[b].last # Nil => x.node[x.node[b].last].next = b
          /\ x.node[b].children # Nil => x.node[x.node[b].children].last = Nil
          /\ \A c \in Allocated(x) :
               x.node[b].children = x.node[c].children /\ x.node[b].children # Nil => b = c
      BY <1>0, <2>2 DEF Pointers
    <3>2. y.node[b].last # Nil => y.node[y.node[b].last].next = b
      BY <2>2, <3>1, <1>0, <1>1, <1>3
    <3>3. y.node[b].next # Nil => y.node[y.node[b].next].last = b
      BY <2>2, <3>1, <1>0, <1>1, <1>2, <1>3
    <3>4. y.node[b].children # Nil => y.node[y.node[b].children].last = Nil
      BY <2>2, <3>1, <1>0, <1>1, <1>2, <1>3
    <3>5. \A c \in Allocated(y) :
                  y.node[b].children = y.node[c].children /\ y.node[b].children # Nil => b = c
      <4> SUFFICES ASSUME NEW c \in Allocated(x),
                          y.node[b].children = y.node[c].children, y.node[b].children # Nil
                   PROVE  b = c
        BY <1>1, <1>2
      <4>1. /\ y.node[b].children = IF b = d /\ l = Nil THEN a ELSE x.node[b].children
            /\ y.node[c].children = IF c = d /\ l = Nil THEN a ELSE x.node[c].children
        BY <2>2, <1>3
      <4>2. x.node[b].children # a /\ x.node[c].children # a
        BY <2>2, <1>0, <1>1 DEF Pointers
      <4> QED
        BY <3>1, <4>1, <4>2
    <3> QED
      BY <2>2, <3>1, <3>2, <3>3, <3>4, <3>5, <1>1, <1>3
  <2> QED
    BY <2>1, <2>2, <1>1
<1>5. Kinds(y)
  <2>1. ASSUME NEW b \in Allocated(y)
        PROVE  /\ y.node[b].children # 1 /\ y.node[b].next # 1
               /\ b # 1 => y.node[b].name \in Name
               /\ IsFile(y.node[b]) => y.node[b].children = Nil
    <3>1. CASE b = a
      BY <3>1, <1>2, <1>0 DEF Nil
    <3>2. CASE b \in Allocated(x)
      BY <3>2, <1>0, <1>1, <1>3 DEF Kinds, IsFile, Grown
    <3> QED
      BY <3>1, <3>2, <1>1
  <2>2. /\ 1 \in Allocated(y) /\ ~IsFile(y.node[1])
        /\ y.node[1].next = Nil /\ y.node[1].last = Nil /\ y.node[1].parent = Wild
    BY <1>0, <1>1, <1>3 DEF Kinds, IsFile
  <2> QED
    BY <2>1, <2>2 DEF Kinds
<1>6. Grounded(y)
  <2> SUFFICES ASSUME NEW S \in SUBSET Allocated(y),
                      \A b \in S : y.node[b].children \in S \/ y.node[b].next \in S
               PROVE  S = {}
    BY DEF Grounded
  <2>1. a \notin S
    <3>1. Nil \notin S
      BY <1>0, <1>1
    <3> QED
      BY <3>1, <1>2
  <2>2. S \in SUBSET Allocated(x)
    BY <2>1, <1>1
  <2>3. \A b \in S : x.node[b].children \in S \/ x.node[b].next \in S
    BY <2>1, <2>2, <1>3
  <2> QED
    BY <1>0, <2>2, <2>3 DEF Grounded
<1> QED
  BY <1>4, <1>5, <1>6 DEF Pointers

LEMMA PathParts ==
  ASSUME NEW p \in Path
  PROVE  /\ p \in Seq(Name)
         /\ p # Root => /\ Front(p) \in Path /\ Last(p) \in Name
                        /\ p = Append(Front(p), Last(p)) /\ Len(p) = Len(Front(p)) + 1
<1>1. p \in Seq(Name) /\ (p # Root => Front(p) \in Path)
  BY TreeAssumption
<1>2. ASSUME p # Root
      PROVE  Last(p) \in Name /\ p = Append(Front(p), Last(p)) /\ Len(p) = Len(Front(p)) + 1
  <2>1. Len(p) \in Nat \ {0} /\ DOMAIN p = 1..Len(p)
    BY <1>1, <1>2, EmptySeq DEF Root
  <2>2. Last(p) \in Name
    BY <1>1, <2>1 DEF Last
  <2>3. /\ Front(p) \in Seq(Name) /\ Len(Front(p)) = Len(p) - 1
        /\ \A i \in 1..(Len(p) - 1) : Front(p)[i] = p[i]
    <3>1. \A i \in 1..(Len(p) - 1) : p[i] \in Name
      BY <1>1, <2>1
    <3> QED
      BY <2>1, <3>1, SubSeqProperties DEF Front
  <2>4. /\ Append(Front(p), Last(p)) \in Seq(Name)
        /\ Len(Append(Front(p), Last(p))) = Len(p)
        /\ \A i \in 1..(Len(p) - 1) : Append(Front(p), Last(p))[i] = p[i]
        /\ Append(Front(p), Last(p))[Len(p)] = p[Len(p)]
    <3> DEFINE s == Front(p)
               e == Last(p)
    <3>1. p[Len(p)] = e
      BY DEF Last
    <3> HIDE DEF s, e
    <3>2. /\ Append(s, e) \in Seq(Name) /\ Len(Append(s, e)) = Len(s) + 1
          /\ \A i \in 1..Len(s) : Append(s, e)[i] = s[i]
          /\ Append(s, e)[Len(s) + 1] = e
      BY <2>2, <2>3, AppendProperties DEF s, e
    <3>3. Len(s) = Len(p) - 1 /\ Len(s) + 1 = Len(p)
      BY <2>1, <2>3 DEF s
    <3>4. \A i \in 1..(Len(p) - 1) : Append(s, e)[i] = p[i]
      BY <2>3, <3>2, <3>3 DEF s
    <3> QED
      BY <3>1, <3>2, <3>3, <3>4 DEF s, e
  <2>5. \A i \in 1..Len(p) : Append(Front(p), Last(p))[i] = p[i]
    BY <2>1, <2>4
  <2>6. Append(Front(p), Last(p)) = p
    BY <1>1, <2>4, <2>5, SeqEqual
  <2> QED
    BY <2>1, <2>2, <2>3, <2>6
<1> QED
  BY <1>1, <1>2

LEMMA FitsFacts ==
  ASSUME NEW x, Sound(x), NEW p, Fits(x, p)
  PROVE  /\ p \in Path /\ p # Root /\ Last(p) \in Name /\ Front(p) \in Path
         /\ Value(x, p) = Nil /\ Allocated(x) # Addr
         /\ Value(x, Front(p)) \in Allocated(x)
         /\ ~IsFile(x.node[Value(x, Front(p))])
  BY ValueFrom, PathParts DEF Fits, Sound

LEMMA AddedNode ==
  ASSUME NEW x, Sound(x), NEW p, Fits(x, p), NEW id \in File \cup {Nil}
  PROVE  /\ Grown(x, Added(x, p, id), Fresh(x), Value(x, Front(p)), 
                  Added(x, p, id).node[Fresh(x)].last, Last(p), id)
         /\ Added(x, p, id).chain =
              [x.chain EXCEPT ![Hash[p]] = Append(@, [key |-> p, value |-> Fresh(x)])]
<1> DEFINE a == Fresh(x)
           d == Value(x, Front(p))
           y == Added(x, p, id)
           n == NewNode(Last(p), id)
           z == [x EXCEPT !.node[a] = n]
           first == x.node[d].children
<1>1. /\ a \in Addr \ Allocated(x) /\ Last(p) \in Name
      /\ d \in Allocated(x) /\ ~IsFile(x.node[d])
  BY FitsFacts, FreshFacts
<1>2. y = [node |-> Linked(z, d, a),
           chain |-> [x.chain EXCEPT ![Hash[p]] = Append(@, [key |-> p, value |-> a])]]
  BY DEF Added, Fresh
<1>3. /\ n \in Node /\ n.name = Last(p) /\ n.metaID = id /\ n.children = Nil /\ n.next = Nil
      /\ n.last = Nil
  BY <1>1 DEF NewNode, Node
<1> HIDE DEF n, a, d, y
<1>4. /\ z \in Trees /\ z.node[a] = n /\ \A b \in Addr \ {a} : z.node[b] = x.node[b]
      /\ z.node \in [Addr -> Node \cup {Free}]
  BY <1>1, <1>3 DEF Sound, Trees
<1> HIDE DEF z
<1>5. Allocated(z) = Allocated(x) \cup {a} /\ Allocated(x) \subseteq Addr
  BY <1>1, <1>3, <1>4, FreeFacts DEF Allocated
<1>6. first \in Allocated(x) \cup {Nil} /\ z.node[d] = x.node[d] /\ Nil \notin Allocated(x) /\ d # a
  BY <1>1, <1>4, <1>5, NodeOf DEF Sound, Pointers
<1>7. CASE first = Nil
  <2>1. y.node = [z.node EXCEPT ![d].children = a, ![a].parent = d]
    BY <1>2, <1>6, <1>7 DEF Linked
  <2>2. /\ y.node[d] = [x.node[d] EXCEPT !.children = a] /\ y.node[a] = [n EXCEPT !.parent = d]
        /\ \A b \in Addr \ {a, d} : y.node[b] = x.node[b]
        /\ DOMAIN y.node = Addr
    BY <2>1, <1>1, <1>4, <1>5, <1>6
  <2>3. x.node[d] \in Node /\ d \in Addr /\ a \in Addr
    BY <1>1, NodeOf DEF Sound
  <2>4. y.node[d] \in Node /\ y.node[a] \in Node
    BY <2>2, <2>3, <1>3 DEF Node
  <2>5. y.node \in [Addr -> Node \cup {Free}]
    <3>1. \A b \in Addr : x.node[b] \in Node \cup {Free}
      BY DEF Sound, Trees
    <3>2. \A b \in Addr : y.node[b] \in Node \cup {Free}
      BY <2>2, <2>4, <3>1
    <3>3. y.node = [b \in Addr |-> y.node[b]]
      BY <2>1, <2>2, <1>4
    <3> QED
      BY <3>2, <3>3
  <2>6. Allocated(y) = Allocated(x) \cup {a}
    BY <2>2, <2>4, <1>1, FreeFacts DEF Allocated
  <2>7. /\ y.node[a].name = Last(p) /\ y.node[a].metaID = id
        /\ y.node[a].children = Nil /\ y.node[a].next = Nil /\ y.node[a].last = Nil
    BY <2>2, <1>3 DEF Node
  <2>8. ASSUME NEW b \in Allocated(x)
        PROVE  /\ y.node[b].name = x.node[b].name /\ y.node[b].metaID = x.node[b].metaID
               /\ y.node[b].last = x.node[b].last /\ y.node[b].parent = x.node[b].parent
               /\ y.node[b].children = IF b = d THEN a ELSE x.node[b].children
               /\ y.node[b].next = x.node[b].next
    BY <2>2, <2>3, <1>1, <1>5 DEF Node
  <2>9. \A b \in Allocated(x) : b # Nil
    BY <1>6
  <2> QED
    <3>1. Grown(x, y, a, d, Nil, Last(p), id)
      BY <1>1, <1>7, <2>5, <2>6, <2>7, <2>8, <2>9 DEF Grown
    <3>2. y.chain = [x.chain EXCEPT ![Hash[p]] = Append(@, [key |-> p, value |-> a])]
      BY <1>2
    <3>3. Grown(x, y, a, d, y.node[a].last, Last(p), id)
      BY <2>7, <3>1
    <3> QED
      BY <3>2, <3>3 DEF y, a, d
<1>8. CASE first # Nil
  <2> DEFINE l == LastOf(z, first)
  <2>0. x \in Trees /\ Pointers(x) /\ Kinds(x) /\ Grounded(x) /\ a # 1 /\ 1 # Nil
    BY <1>1 DEF Sound, Kinds, Nil
  <2>1. Pointers(z) /\ Kinds(z) /\ Grounded(z)
    <3>1. Pointers(z)
      BY <2>0, <1>1, <1>3, <1>4, <1>5, <1>6 DEF Pointers
    <3>2. Kinds(z)
      BY <2>0, <1>1, <1>3, <1>4, <1>5, <1>6 DEF Kinds
    <3>3. ASSUME NEW S \in SUBSET Allocated(z),
                 \A b \in S : z.node[b].children \in S \/ z.node[b].next \in S
          PROVE  S = {}
      <4>1. a \notin S
        <5>1. Nil \notin S
          BY <1>1, <1>5, NilFacts
        <5> QED
          BY <3>3, <5>1, <1>3, <1>4
      <4>2. S \in SUBSET Allocated(x)
        BY <4>1, <1>5
      <4>3. \A b \in S : x.node[b].children \in S \/ x.node[b].next \in S
        BY <3>3, <4>1, <4>2, <1>4, <1>5
      <4> QED
        BY <2>0, <4>2, <4>3 DEF Grounded
    <3> QED
      BY <3>1, <3>2, <3>3 DEF Grounded
  <2>2. ASSUME NEW S \in SUBSET Allocated(x), first \in S,
               \A b \in S : x.node[b].next # Nil => x.node[b].next \in S
        PROVE  l \in S /\ x.node[l].next = Nil
    <3>1. S \in SUBSET Allocated(z) /\ \A b \in S : z.node[b] = x.node[b]
      BY <1>1, <1>4, <1>5
    <3>2. l \in S /\ z.node[l].next = Nil
      BY <2>1, <2>2, <3>1, <1>4, LastOfFacts
    <3> QED
      BY <3>1, <3>2
  <2>3. l \in Allocated(x) /\ x.node[l].next = Nil /\ l # a /\ l # Nil
    <3>1. \A b \in Allocated(x) : x.node[b].next # Nil => x.node[b].next \in Allocated(x)
      BY <2>0 DEF Pointers
    <3> QED
      BY <3>1, <2>2, <1>1, <1>6, <1>8
  <2> HIDE DEF l
  <2>4. y.node = [z.node EXCEPT ![l].next = a, ![a].last = l]
    BY <1>2, <1>6, <1>8 DEF Linked, l
  <2>5. /\ y.node[l] = [x.node[l] EXCEPT !.next = a] /\ y.node[a] = [n EXCEPT !.last = l]
        /\ \A b \in Addr \ {a, l} : y.node[b] = x.node[b]
        /\ DOMAIN y.node = Addr
    BY <2>3, <2>4, <1>1, <1>4, <1>5
  <2>6. x.node[l] \in Node /\ l \in Addr /\ a \in Addr
    BY <1>1, <2>3, NodeOf DEF Sound
  <2>7. y.node[l] \in Node /\ y.node[a] \in Node
    BY <2>5, <2>6, <1>3 DEF Node
  <2>8. y.node \in [Addr -> Node \cup {Free}]
    <3>1. \A b \in Addr : x.node[b] \in Node \cup {Free}
      BY DEF Sound, Trees
    <3>2. \A b \in Addr : y.node[b] \in Node \cup {Free}
      BY <2>5, <2>7, <3>1
    <3>3. y.node = [b \in Addr |-> y.node[b]]
      BY <2>4, <2>5, <1>4
    <3> QED
      BY <3>2, <3>3
  <2>9. Allocated(y) = Allocated(x) \cup {a}
    BY <2>5, <2>7, <1>1, <2>3, FreeFacts DEF Allocated
  <2>10. /\ y.node[a].name = Last(p) /\ y.node[a].metaID = id
         /\ y.node[a].children = Nil /\ y.node[a].next = Nil /\ y.node[a].last = l
    BY <2>5, <2>6, <1>3 DEF Node
  <2>11. ASSUME NEW b \in Allocated(x)
        PROVE  /\ y.node[b].name = x.node[b].name /\ y.node[b].metaID = x.node[b].metaID
               /\ y.node[b].last = x.node[b].last /\ y.node[b].parent = x.node[b].parent
               /\ y.node[b].children = x.node[b].children
               /\ y.node[b].next = IF b = l THEN a ELSE x.node[b].next
    BY <2>5, <2>6, <1>1, <1>5 DEF Node
  <2>12. \A S \in SUBSET Allocated(x) :
               /\ x.node[d].children \in S
               /\ \A b \in S : x.node[b].next # Nil => x.node[b].next \in S
               => l \in S
    BY <2>2
  <2> QED
    <3>1. Grown(x, y, a, d, l, Last(p), id)
      BY <1>1, <1>8, <2>3, <2>8, <2>9, <2>10, <2>11, <2>12 DEF Grown
    <3>2. y.chain = [x.chain EXCEPT ![Hash[p]] = Append(@, [key |-> p, value |-> a])]
      BY <1>2
    <3>3. Grown(x, y, a, d, y.node[a].last, Last(p), id)
      BY <2>10, <3>1
    <3> QED
      BY <3>2, <3>3 DEF y, a, d
<1> QED
  BY <1>7, <1>8

LEMMA AddedTable ==
  ASSUME NEW x, Sound(x), NEW p, Fits(x, p), NEW id \in File \cup {Nil}
  PROVE  /\ Added(x, p, id) \in Trees /\ Tabled(Added(x, p, id))
         /\ \A q : Value(Added(x, p, id), q) = IF q = p THEN Fresh(x) ELSE Value(x, q)
<1> DEFINE a == Fresh(x)
           y == Added(x, p, id)
           h == Hash[p]
           c == x.chain[h]
           e == [key |-> p, value |-> a]
           r == Append(c, e)
<1>1. /\ p \in Path /\ h \in Bucket /\ a \in Addr \ Allocated(x) /\ a # Nil
      /\ x \in Trees /\ Tabled(x) /\ Value(x, p) = Nil
  BY FitsFacts, FreshFacts, NilFacts DEF Sound
<1>2. /\ Grown(x, y, a, Value(x, Front(p)), y.node[a].last, Last(p), id)
      /\ y.chain = [x.chain EXCEPT ![h] = r]
  BY AddedNode
<1>3. /\ c \in Seq(Entry) /\ DOMAIN c = 1..Len(c) /\ Len(c) \in Nat /\ e \in Entry
      /\ e.key = p /\ e.value = a
  <2>1. c \in Seq(Entry)
    BY <1>1 DEF Trees
  <2>2. e \in Entry /\ e.key = p /\ e.value = a
    BY <1>1 DEF Entry
  <2> HIDE DEF c, e
  <2> QED
    BY <2>1, <2>2
<1>4. /\ r \in Seq(Entry) /\ Len(r) = Len(c) + 1 /\ r[Len(c) + 1] = e
      /\ \A i \in DOMAIN c : r[i] = c[i]
  <2> HIDE DEF c, e
  <2> QED
    BY <1>3, AppendProperties
<1>5. DOMAIN r = DOMAIN c \cup {Len(c) + 1} /\ Len(c) + 1 \notin DOMAIN c
  <2> HIDE DEF c, e, r
  <2> QED
    BY <1>3, <1>4
<1>6. /\ y.chain[h] = r /\ \A k \in Bucket \ {h} : y.chain[k] = x.chain[k]
      /\ y.chain \in [Bucket -> Seq(Entry)]
  <2> HIDE DEF r, y
  <2> QED
    BY <1>1, <1>2, <1>4 DEF Trees
<1>7. y.node \in [Addr -> Node \cup {Free}] /\ Allocated(y) = Allocated(x) \cup {a}
  <2> HIDE DEF y, a
  <2> QED
    BY <1>2 DEF Grown
<1>8. y \in Trees
  <2>1. y = [node |-> y.node, chain |-> y.chain]
    BY DEF Added
  <2> HIDE DEF y
  <2> QED
    BY <2>1, <1>6, <1>7 DEF Trees
\* p was not in the chain.
<1>9. \A i \in DOMAIN c : c[i].key # p
  <2> SUFFICES ASSUME NEW i \in DOMAIN c, c[i].key = p  PROVE FALSE
    OBVIOUS
  <2>1. \A j \in DOMAIN c : c[j].key = p => i = j
    BY <1>1 DEF Tabled
  <2>2. Value(x, p) = c[i].value
    BY <1>1, <2>1, ValueAt
  <2>3. c[i] \in Entry
    BY <1>3
  <2> QED
    BY <1>1, <2>2, <2>3, NilFacts DEF Entry
<1> HIDE DEF y, r, c, e
<1>10. Tabled(y)
  <2> SUFFICES ASSUME NEW k \in Bucket, NEW j \in DOMAIN y.chain[k]
               PROVE  /\ Hash[y.chain[k][j].key] = k
                      /\ y.chain[k][j].value \in Allocated(y)
                      /\ \A l \in DOMAIN y.chain[k] : y.chain[k][j].key = y.chain[k][l].key => j = l
    BY DEF Tabled
  <2>1. CASE k # h
    BY <2>1, <1>1, <1>6, <1>7 DEF Tabled
  <2>2. CASE k = h /\ j \in DOMAIN c
    <3>1. /\ Hash[c[j].key] = h /\ c[j].value \in Allocated(x)
          /\ \A l \in DOMAIN c : c[j].key = c[l].key => j = l
      BY <1>1, <2>2 DEF Tabled, c
    <3> QED
      BY <2>2, <3>1, <1>3, <1>4, <1>5, <1>6, <1>7, <1>9
  <2>3. CASE k = h /\ j = Len(c) + 1
    BY <2>3, <1>1, <1>3, <1>4, <1>5, <1>6, <1>7, <1>9
  <2> QED
    BY <2>1, <2>2, <2>3, <1>5, <1>6
<1>11. ASSUME NEW q  PROVE Value(y, q) = IF q = p THEN a ELSE Value(x, q)
  <2>1. CASE q \notin Path
    BY <2>1, <1>1, ValueNone
  <2>2. CASE q \in Path /\ Hash[q] # h
    <3>1. y.chain[Hash[q]] = x.chain[Hash[q]]
      BY <2>2, <1>6, NilFacts
    <3>2. Places(y, q) = Places(x, q)
      BY <3>1 DEF Places
    <3>3. Value(y, q) = Value(x, q)
      BY <3>1, <3>2 DEF Value
    <3> QED
      BY <2>2, <3>3
  <2>3. CASE q = p
    <3>1. Len(c) + 1 \in DOMAIN r /\ r[Len(c) + 1].key = p /\ r[Len(c) + 1].value = a
      BY <1>3, <1>4, <1>5
    <3>2. \A j \in DOMAIN r : r[j].key = p => Len(c) + 1 = j
      BY <1>4, <1>5, <1>9
    <3> QED
      BY <2>3, <3>1, <3>2, <1>1, <1>6, ValueAt
  <2>4. CASE q \in Path /\ Hash[q] = h /\ q # p /\ Value(x, q) = Nil
    <3>1. \A j \in DOMAIN c : c[j].key # q
      <4> SUFFICES ASSUME NEW j \in DOMAIN c, c[j].key = q  PROVE FALSE
        OBVIOUS
      <4>1. \A l \in DOMAIN c : c[l].key = q => j = l
        BY <1>1 DEF Tabled, c
      <4>2. Value(x, q) = c[j].value
        BY <2>4, <4>1, ValueAt DEF c
      <4>3. c[j] \in Entry
        BY <1>3
      <4> QED
        BY <4>2, <4>3, <2>4, NilFacts DEF Entry
    <3>2. \A j \in DOMAIN r : r[j].key # q
      BY <2>4, <3>1, <1>3, <1>4, <1>5
    <3> QED
      BY <2>4, <3>2, <1>6, ValueNone
  <2>5. CASE q \in Path /\ Hash[q] = h /\ q # p /\ Value(x, q) # Nil
    <3>1. PICK j \in DOMAIN c :
            /\ c[j].key = q /\ \A l \in DOMAIN c : c[l].key = q => j = l
            /\ Value(x, q) = c[j].value
      BY <1>1, <2>5, ValueFrom DEF c
    <3>2. r[j] = c[j] /\ j \in DOMAIN r /\ \A l \in DOMAIN r : r[l].key = q => j = l
      BY <2>5, <3>1, <1>3, <1>4, <1>5
    <3>3. Value(y, q) = r[j].value
      <4>1. y.chain[Hash[q]] = r /\ r[j].key = q
        BY <2>5, <3>1, <3>2, <1>6
      <4> QED
        BY <2>5, <3>2, <4>1, ValueAt
    <3> QED
      BY <2>5, <3>1, <3>2, <3>3
  <2> QED
    BY <2>1, <2>2, <2>3, <2>4, <2>5
<1> QED
  BY <1>8, <1>10, <1>11 DEF y

LEMMA AddedSound ==
  ASSUME NEW x, Sound(x), NEW p, Fits(x, p), NEW id \in File \cup {Nil}
  PROVE  Sound(Added(x, p, id))
<1> DEFINE y == Added(x, p, id)
<1>1. /\ y \in Trees /\ Tabled(y)
      /\ \A q : Value(y, q) = IF q = p THEN Fresh(x) ELSE Value(x, q)
  BY AddedTable
<1>2. Pointers(y) /\ Kinds(y) /\ Grounded(y)
  BY AddedNode, GrownPointers
<1>3. /\ Fresh(x) \notin Allocated(x) /\ p \in Path
      /\ \A q : Value(x, q) # Nil => Value(x, q) \in Allocated(x)
  BY FitsFacts, FreshFacts, ValueFrom DEF Sound
<1> HIDE DEF y
<1>4. OneName(y)
  BY <1>1, <1>3 DEF OneName, Sound
<1> QED
  BY <1>1, <1>2, <1>4 DEF Sound, y

-----------------------------------------------------------------------------
(* A node goes.                                                            *)

LEMMA UnlinkedNode ==
  ASSUME NEW x, x \in Trees, Pointers(x), NEW a \in Allocated(x)
  PROVE  /\ Unlinked(x, a) \in Trees /\ Unlinked(x, a).chain = x.chain
         /\ Allocated(Unlinked(x, a)) = Allocated(x) \ {a}
         /\ \A b \in Allocated(x) \ {a} :
              LET n == x.node[b] m == Unlinked(x, a).node[b] IN
              /\ m.name = n.name /\ m.metaID = n.metaID /\ m.parent = n.parent
              /\ m.next = IF b = x.node[a].last THEN x.node[a].next ELSE n.next
              /\ m.last = IF b = x.node[a].next THEN x.node[a].last ELSE n.last
              /\ m.children = IF n.children = a THEN x.node[a].next ELSE n.children
<1> DEFINE y == Unlinked(x, a)
           o == x.node[a]
           New(b) == [x.node[b] EXCEPT
             !.next = IF b = o.last THEN o.next ELSE @,
             !.last = IF b = o.next THEN o.last ELSE @,
             !.children = IF @ = a THEN o.next ELSE @]
<1>1. y = [x EXCEPT !.node = [b \in Addr |->
             IF b = a THEN Free ELSE IF x.node[b] = Free THEN Free ELSE New(b)]]
  BY DEF Unlinked
<1>2. /\ DOMAIN y.node = Addr /\ y.chain = x.chain /\ y = [node |-> y.node, chain |-> x.chain]
      /\ \A b \in Addr : y.node[b] = IF b = a \/ b \notin Allocated(x) THEN Free ELSE New(b)
      /\ y.node = [b \in Addr |-> y.node[b]]
  <2> HIDE DEF New, y
  <2> QED
    BY <1>1 DEF Trees, Allocated
<1>3. o \in Node /\ o.next \in Addr \cup {Nil} /\ o.last \in Addr \cup {Nil}
  BY NodeOf DEF Node
<1>4. ASSUME NEW b \in Allocated(x)
      PROVE  LET n == x.node[b] m == New(b) IN
             /\ m \in Node
             /\ m.name = n.name /\ m.metaID = n.metaID /\ m.parent = n.parent
             /\ m.next = IF b = o.last THEN o.next ELSE n.next
             /\ m.last = IF b = o.next THEN o.last ELSE n.last
             /\ m.children = IF n.children = a THEN o.next ELSE n.children
  <2> DEFINE n == x.node[b]
             m == New(b)
  <2>1. /\ n \in Node
        /\ m = [n EXCEPT !.next = IF b = o.last THEN o.next ELSE n.next,
                         !.last = IF b = o.next THEN o.last ELSE n.last,
                         !.children = IF n.children = a THEN o.next ELSE n.children]
    BY NodeOf
  <2> HIDE DEF o, n, m
  <2>2. /\ n.next \in Addr \cup {Nil} /\ n.last \in Addr \cup {Nil} /\ n.children \in Addr \cup {Nil}
    BY <2>1 DEF Node
  <2> DEFINE N == IF b = o.last THEN o.next ELSE n.next
             L == IF b = o.next THEN o.last ELSE n.last
             C == IF n.children = a THEN o.next ELSE n.children
  <2>3. N \in Addr \cup {Nil} /\ L \in Addr \cup {Nil} /\ C \in Addr \cup {Nil}
    BY <2>2, <1>3
  <2>4. m = [n EXCEPT !.next = N, !.last = L, !.children = C]
    BY <2>1
  <2> HIDE DEF N, L, C
  <2>5. /\ m \in Node
        /\ m.name = n.name /\ m.metaID = n.metaID /\ m.parent = n.parent
        /\ m.next = N /\ m.last = L /\ m.children = C
    BY <2>1, <2>3, <2>4 DEF Node
  <2> HIDE DEF New
  <2> QED
    BY <2>5 DEF n, m, N, L, C
<1> HIDE DEF New, y, o
<1>5. \A b \in Addr : y.node[b] \in Node \cup {Free}
  BY <1>2, <1>4
<1>6. y \in Trees
  BY <1>2, <1>5 DEF Trees
<1>7. Allocated(y) = Allocated(x) \ {a}
  BY <1>2, <1>4, FreeFacts DEF Allocated
<1>8. \A b \in Allocated(x) \ {a} : y.node[b] = New(b)
  BY <1>2 DEF Allocated
<1> QED
  BY <1>2, <1>4, <1>6, <1>7, <1>8 DEF y, o

LEMMA UnlinkedPointers ==
  ASSUME NEW x, x \in Trees, Pointers(x), Kinds(x), Grounded(x), NEW a \in Allocated(x), a # 1
  PROVE  /\ Pointers(Unlinked(x, a)) /\ Kinds(Unlinked(x, a)) /\ Grounded(Unlinked(x, a))
<1> DEFINE y == Unlinked(x, a)
           o == x.node[a]
<1>1. /\ Allocated(y) = Allocated(x) \ {a} /\ Nil \notin Allocated(x)
      /\ 1 \in Allocated(x) /\ 1 # Nil
  BY UnlinkedNode, NodeOf DEF Kinds, Nil
<1>2. ASSUME NEW b \in Allocated(x) \ {a}
      PROVE  /\ y.node[b].name = x.node[b].name /\ y.node[b].metaID = x.node[b].metaID
             /\ y.node[b].parent = x.node[b].parent
             /\ y.node[b].next = IF b = o.last THEN o.next ELSE x.node[b].next
             /\ y.node[b].last = IF b = o.next THEN o.last ELSE x.node[b].last
             /\ y.node[b].children = IF x.node[b].children = a THEN o.next ELSE x.node[b].children
  BY UnlinkedNode
<1>3. ASSUME NEW b \in Allocated(x)
      PROVE  /\ x.node[b].children \in Allocated(x) \cup {Nil}
             /\ x.node[b].next \in Allocated(x) \cup {Nil}
             /\ x.node[b].last \in Allocated(x) \cup {Nil}
             /\ x.node[b].next # Nil => x.node[x.node[b].next].last = b
             /\ x.node[b].last # Nil => x.node[x.node[b].last].next = b
             /\ x.node[b].children # Nil => x.node[x.node[b].children].last = Nil
             /\ \A c \in Allocated(x) :
                  x.node[b].children = x.node[c].children /\ x.node[b].children # Nil => b = c
  BY DEF Pointers
<1>4. o.next # a /\ o.last # a
  <2>1. o.next # a
    <3> SUFFICES ASSUME o.next = a  PROVE FALSE
      OBVIOUS
    <3>1. {a} \in SUBSET Allocated(x) /\ \A b \in {a} : x.node[b].next \in {a}
      OBVIOUS
    <3>2. {a} = {}
      BY <3>1 DEF Grounded
    <3> QED
      BY <3>2
  <2> QED
    BY <2>1, <1>1, <1>3
<1> HIDE DEF y, o
<1>5. o = x.node[a]
  BY DEF o
<1>6. Pointers(y)
  <2> SUFFICES ASSUME NEW b \in Allocated(y)
      PROVE  /\ y.node[b].children \in Allocated(y) \cup {Nil}
             /\ y.node[b].next \in Allocated(y) \cup {Nil}
             /\ y.node[b].last \in Allocated(y) \cup {Nil}
             /\ y.node[b].next # Nil => y.node[y.node[b].next].last = b
             /\ y.node[b].last # Nil => y.node[y.node[b].last].next = b
             /\ y.node[b].children # Nil => y.node[y.node[b].children].last = Nil
             /\ \A c \in Allocated(y) :
                  y.node[b].children = y.node[c].children /\ y.node[b].children # Nil => b = c
    BY DEF Pointers
  <2>1. b \in Allocated(x) \ {a}
    BY <1>1
  <2>2. /\ y.node[b].children \in Allocated(y) \cup {Nil}
        /\ y.node[b].next \in Allocated(y) \cup {Nil}
        /\ y.node[b].last \in Allocated(y) \cup {Nil}
    BY <2>1, <1>1, <1>2, <1>3, <1>4, <1>5
  <2>3. y.node[b].next # Nil => y.node[y.node[b].next].last = b
    BY <2>1, <2>2, <1>1, <1>2, <1>3, <1>4, <1>5
  <2>4. y.node[b].last # Nil => y.node[y.node[b].last].next = b
    BY <2>1, <2>2, <1>1, <1>2, <1>3, <1>4, <1>5
  <2>5. y.node[b].children # Nil => y.node[y.node[b].children].last = Nil
    BY <2>1, <2>2, <1>1, <1>2, <1>3, <1>4, <1>5
  <2>6. \A c \in Allocated(y) :
          y.node[b].children = y.node[c].children /\ y.node[b].children # Nil => b = c
    BY <2>1, <2>2, <1>1, <1>2, <1>3, <1>4, <1>5
  <2> QED
    BY <2>2, <2>3, <2>4, <2>5, <2>6
<1>7. Kinds(y)
  <2>1. ASSUME NEW b \in Allocated(y)
        PROVE  /\ y.node[b].children # 1 /\ y.node[b].next # 1
               /\ b # 1 => y.node[b].name \in Name
               /\ IsFile(y.node[b]) => y.node[b].children = Nil
    BY <1>1, <1>2, <1>5 DEF Kinds, IsFile
  <2>2. /\ 1 \in Allocated(y) /\ ~IsFile(y.node[1])
        /\ y.node[1].next = Nil /\ y.node[1].last = Nil /\ y.node[1].parent = Wild
    <3>1. o.last # 1 /\ o.next # 1
      BY <1>1, <1>3, <1>5 DEF Kinds
    <3> QED
      BY <3>1, <1>1, <1>2 DEF Kinds, IsFile
  <2> QED
    BY <2>1, <2>2 DEF Kinds
<1>8. Grounded(y)
  <2> SUFFICES ASSUME NEW S \in SUBSET Allocated(y),
                      \A b \in S : y.node[b].children \in S \/ y.node[b].next \in S
               PROVE  S = {}
    BY DEF Grounded
  <2> DEFINE T == IF o.next \in S THEN S \cup {a} ELSE S
  <2>1. T \in SUBSET Allocated(x) /\ S \subseteq T
    BY <1>1
  <2>2. \A b \in T : x.node[b].children \in T \/ x.node[b].next \in T
    <3> SUFFICES ASSUME NEW b \in T  PROVE x.node[b].children \in T \/ x.node[b].next \in T
      OBVIOUS
    <3>1. CASE b = a
      BY <3>1, <1>1, <1>5
    <3>2. CASE b # a
      <4>1. b \in S /\ b \in Allocated(x) \ {a}
        BY <3>2, <1>1
      <4> QED
        BY <4>1, <1>1, <1>2, <1>3, <1>5
    <3> QED
      BY <3>1, <3>2
  <2>3. T = {}
    BY <2>1, <2>2 DEF Grounded
  <2> QED
    BY <2>1, <2>3
<1> QED
  BY <1>6, <1>7, <1>8 DEF y

LEMMA UnlinkedSound ==
  ASSUME NEW x, Sound(x), NEW a \in Allocated(x), a # 1, \A p : Value(x, p) # a
  PROVE  /\ Sound(Unlinked(x, a))
         /\ \A p : Value(Unlinked(x, a), p) = Value(x, p)
<1> DEFINE y == Unlinked(x, a)
<1>1. /\ x \in Trees /\ Pointers(x) /\ Kinds(x) /\ Grounded(x) /\ Tabled(x) /\ OneName(x)
  BY DEF Sound
<1>2. /\ y \in Trees /\ y.chain = x.chain /\ Allocated(y) = Allocated(x) \ {a}
      /\ Pointers(y) /\ Kinds(y) /\ Grounded(y)
  BY <1>1, UnlinkedNode, UnlinkedPointers
<1> HIDE DEF y
<1>3. ASSUME NEW p  PROVE Value(y, p) = Value(x, p)
  <2>1. Places(y, p) = Places(x, p)
    BY <1>2 DEF Places
  <2> QED
    BY <2>1, <1>2 DEF Value
<1>4. Tabled(y)
  <2> SUFFICES ASSUME NEW h \in Bucket, NEW i \in DOMAIN x.chain[h]
               PROVE  /\ Hash[x.chain[h][i].key] = h
                      /\ x.chain[h][i].value \in Allocated(x) /\ x.chain[h][i].value # a
                      /\ \A j \in DOMAIN x.chain[h] :
                           x.chain[h][i].key = x.chain[h][j].key => i = j
    BY <1>2 DEF Tabled
  <2>1. /\ Hash[x.chain[h][i].key] = h
        /\ x.chain[h][i].value \in Allocated(x)
        /\ \A j \in DOMAIN x.chain[h] :
             x.chain[h][i].key = x.chain[h][j].key => i = j
    BY <1>1 DEF Tabled
  <2>2. x.chain[h][i].value # a
    <3> DEFINE p == x.chain[h][i].key
    <3>1. x.chain[h] \in Seq(Entry)
      BY <1>1 DEF Trees
    <3>2. x.chain[h][i] \in Entry
      BY <3>1
    <3>3. p \in Path
      BY <3>2 DEF Entry
    <3>4. Value(x, p) = x.chain[h][i].value
      BY <2>1, <3>3, ValueAt
    <3> QED
      BY <3>4
  <2> QED
    BY <2>1, <2>2
<1>5. OneName(y)
  BY <1>1, <1>3 DEF OneName
<1> QED
  BY <1>2, <1>3, <1>4, <1>5 DEF Sound, y

LEMMA UnmappedSound ==
  ASSUME NEW x, Sound(x), NEW p, Value(x, p) # Nil
  PROVE  /\ Sound(Unmapped(x, p)) /\ Allocated(Unmapped(x, p)) = Allocated(x)
         /\ Unmapped(x, p).node = x.node
         /\ \A q : Value(Unmapped(x, p), q) = IF q = p THEN Nil ELSE Value(x, q)
         /\ \A q : Value(Unmapped(x, p), q) # Value(x, p)
<1> DEFINE y == Unmapped(x, p)
<1>1. /\ y \in Trees /\ Tabled(y) /\ y.node = x.node
      /\ \A q : Value(y, q) = IF q = p THEN Nil ELSE Value(x, q)
  BY UnmappedTable DEF Sound
<1> HIDE DEF y
<1>2. Allocated(y) = Allocated(x)
  BY <1>1 DEF Allocated
<1>3. OneName(y) /\ Pointers(y) /\ Kinds(y)
  BY <1>1, <1>2 DEF Sound, OneName, Pointers, Kinds
<1>4. Grounded(y)
  BY <1>1, <1>2 DEF Sound, Grounded
<1>5. \A q : Value(x, q) = Value(x, p) => q = p
  BY ValueFrom DEF Sound, OneName
<1> QED
  BY <1>1, <1>2, <1>3, <1>4, <1>5 DEF Sound, y

-----------------------------------------------------------------------------
(* Where a node lies: at the path it was added for, by the table, or by the *)
(* frame of removeDir that took that path out of it.                       *)

Lies(x, c, a, p) == Value(x, p) = a \/ \E i \in DOMAIN c : c[i].p = p /\ c[i].d = a

\* Whatever is in memory lies somewhere, and the links agree with the paths.
Placed(x, c) ==
  /\ \A a \in Allocated(x) : \E p \in Path : Lies(x, c, a, p)
  /\ \A a \in Allocated(x), p \in Path : Lies(x, c, a, p) =>
       /\ a = 1 <=> p = Root
       /\ a # 1 => x.node[a].name = Last(p)
       /\ \A b \in Allocated(x), q \in Path : Lies(x, c, b, q) =>
            /\ x.node[a].children = b => Front(q) = p
            /\ x.node[a].next = b => Front(q) = Front(p)

LEMMA NoFrames == DOMAIN <<>> = {} /\ \A x, a, p : Lies(x, <<>>, a, p) <=> Value(x, p) = a
<1>1. DOMAIN <<>> = {}
  OBVIOUS
<1> QED
  BY <1>1 DEF Lies

LEMMA AddedPlaced ==
  ASSUME NEW x, Sound(x), Placed(x, <<>>), NEW p, Fits(x, p), NEW id \in File \cup {Nil}
  PROVE  Placed(Added(x, p, id), <<>>)
<1> DEFINE y == Added(x, p, id)
           n == Fresh(x)
           d == Value(x, Front(p))
           l == y.node[n].last
<1>1. /\ Grown(x, y, n, d, l, Last(p), id) /\ n # 1 /\ n # Nil /\ n # d /\ n # l
  <2>1. Grown(x, y, n, d, l, Last(p), id)
    BY AddedNode
  <2> HIDE DEF y, n, d, l
  <2> QED
    BY <2>1, GrownEnd
<1>2. \A q : Value(y, q) = IF q = p THEN n ELSE Value(x, q)
  BY AddedTable
<1>3. /\ p \in Path /\ p # Root /\ Front(p) \in Path /\ d \in Allocated(x) /\ Value(x, p) = Nil
      /\ Nil \notin Allocated(x) /\ \A q : Value(x, q) # n
      /\ \A q : Value(x, q) # Nil => q \in Path /\ Value(x, q) \in Allocated(x)
  <2>1. \A q : Value(x, q) # Nil => q \in Path /\ Value(x, q) \in Allocated(x)
    BY ValueFrom DEF Sound
  <2>2. /\ p \in Path /\ p # Root /\ Front(p) \in Path /\ d \in Allocated(x) /\ Value(x, p) = Nil
        /\ Allocated(x) # Addr
    BY FitsFacts
  <2>3. n \notin Allocated(x)
    BY <2>2, FreshFacts
  <2>4. Nil \notin Allocated(x)
    BY NodeOf DEF Sound
  <2> HIDE DEF n, d
  <2> QED
    BY <2>1, <2>2, <2>3, <2>4, <1>1
<1>4. /\ Allocated(y) = Allocated(x) \cup {n} /\ y.node[n].name = Last(p)
      /\ y.node[n].children = Nil /\ y.node[n].next = Nil
      /\ x.node[d].children = Nil <=> l = Nil
      /\ l \in Allocated(x) \cup {Nil}
  <2> HIDE DEF y, n, d, l
  <2> QED
    BY <1>1, <1>3 DEF Grown
<1>5. ASSUME NEW b \in Allocated(x)
      PROVE  /\ y.node[b].name = x.node[b].name
             /\ y.node[b].children = IF b = d /\ l = Nil THEN n ELSE x.node[b].children
             /\ y.node[b].next = IF b = l THEN n ELSE x.node[b].next
  <2> HIDE DEF y, n, d, l
  <2> QED
    BY <1>1 DEF Grown
<1>6. \A a, q : Lies(y, <<>>, a, q) <=> Value(y, q) = a
  BY NoFrames
<1>7. \A a, q : Lies(x, <<>>, a, q) <=> Value(x, q) = a
  BY NoFrames
\* The end of the list is in the directory.
<1>8. ASSUME l # Nil, NEW q \in Path, Value(x, q) = l
      PROVE  Front(q) = Front(p)
  <2> DEFINE S == {b \in Allocated(x) : \A r \in Path : Value(x, r) = b => Front(r) = Front(p)}
  <2> HIDE DEF y, n, d, l
  <2>1. x.node[d].children \in S
    <3>1. x.node[d].children \in Allocated(x)
      BY <1>3, <1>4, <1>8 DEF Sound, Pointers
    <3>2. \A r \in Path : Value(x, r) = x.node[d].children => Front(r) = Front(p)
      BY <1>3, <1>7, <3>1 DEF Placed, d
    <3> QED
      BY <3>1, <3>2
  <2>2. \A b \in S : x.node[b].next # Nil => x.node[b].next \in S
    <3> SUFFICES ASSUME NEW b \in S, x.node[b].next # Nil  PROVE x.node[b].next \in S
      OBVIOUS
    <3>1. x.node[b].next \in Allocated(x)
      BY DEF Sound, Pointers
    <3>2. PICK s \in Path : Value(x, s) = b
      BY <1>7 DEF Placed
    <3>3. \A r \in Path : Value(x, r) = x.node[b].next => Front(r) = Front(s)
      BY <1>7, <3>1, <3>2 DEF Placed
    <3> QED
      BY <3>1, <3>2, <3>3
  <2>3. l \in S
    <3> HIDE DEF S
    <3>1. S \in SUBSET Allocated(x)
      BY DEF S
    <3> QED
      BY <2>1, <2>2, <3>1, <1>1, <1>4, <1>8 DEF Grown
  <2> QED
    BY <2>3, <1>8
<1>9. ASSUME NEW q \in Path, Value(x, q) = d
      PROVE  q = Front(p)
  BY <1>3, <1>9 DEF Sound, OneName
<1> HIDE DEF y, n, d, l
<1>10. \A a \in Allocated(y) : \E q \in Path : Lies(y, <<>>, a, q)
  <2> SUFFICES ASSUME NEW a \in Allocated(y)  PROVE \E q \in Path : Value(y, q) = a
    BY <1>6
  <2>1. CASE a = n
    BY <2>1, <1>2, <1>3
  <2>2. CASE a \in Allocated(x)
    <3>1. PICK q \in Path : Value(x, q) = a
      BY <2>2, <1>7 DEF Placed
    <3> QED
      BY <3>1, <2>2, <1>2, <1>3
  <2> QED
    BY <2>1, <2>2, <1>4
<1>11. ASSUME NEW a \in Allocated(y), NEW r \in Path, Value(y, r) = a
       PROVE  /\ a = 1 <=> r = Root
              /\ a # 1 => y.node[a].name = Last(r)
  <2>1. CASE r = p
    BY <2>1, <1>1, <1>2, <1>3, <1>4, <1>11
  <2>2. CASE r # p
    <3>1. Value(x, r) = a /\ a \in Allocated(x)
      BY <2>2, <1>2, <1>3, <1>4, <1>11
    <3> QED
      BY <3>1, <1>5, <1>7 DEF Placed
  <2> QED
    BY <2>1, <2>2
<1>12. ASSUME NEW a \in Allocated(y), NEW r \in Path, Value(y, r) = a,
              NEW b \in Allocated(y), NEW q \in Path, Value(y, q) = b
       PROVE  /\ y.node[a].children = b => Front(q) = r
              /\ y.node[a].next = b => Front(q) = Front(r)
  <2>1. CASE r = p
    BY <2>1, <1>2, <1>3, <1>4, <1>12
  <2>2. CASE r # p /\ q = p
    <3>1. Value(x, r) = a /\ a \in Allocated(x) /\ b = n /\ n \notin Allocated(x)
      BY <2>2, <1>1, <1>2, <1>3, <1>4, <1>12 DEF Grown
    <3>2. x.node[a].children # n /\ x.node[a].next # n
      BY <3>1, <1>1 DEF Sound, Pointers
    <3>3. /\ y.node[a].children = b => a = d
          /\ y.node[a].next = b => a = l
      BY <3>1, <3>2, <1>5
    <3>4. l = Nil => a # l
      BY <3>1, <1>3
    <3> QED
      BY <2>2, <3>1, <3>3, <3>4, <1>8, <1>9
  <2>3. CASE r # p /\ q # p
    <3>1. Value(x, r) = a /\ a \in Allocated(x) /\ Value(x, q) = b /\ b \in Allocated(x) /\ b # n
      BY <2>3, <1>2, <1>3, <1>4, <1>12
    <3>2. /\ x.node[a].children = b => Front(q) = r
          /\ x.node[a].next = b => Front(q) = Front(r)
      BY <3>1, <1>7 DEF Placed
    <3> QED
      BY <3>1, <3>2, <1>5
  <2> QED
    BY <2>1, <2>2, <2>3
<1>13. Placed(y, <<>>)
  BY <1>6, <1>10, <1>11, <1>12 DEF Placed
<1> QED
  BY <1>13 DEF y

\* What lies where is the same.
LEMMA SamePlaced ==
  ASSUME NEW x, NEW y, NEW c, NEW e, Placed(x, c), y.node = x.node,
         \A a \in Allocated(x), p \in Path : Lies(y, e, a, p) <=> Lies(x, c, a, p)
  PROVE  Placed(y, e)
<1>1. Allocated(y) = Allocated(x)
  BY DEF Allocated
<1>2. \A a \in Allocated(y) : \E p \in Path : Lies(y, e, a, p)
  BY <1>1 DEF Placed
<1>3. \A a \in Allocated(y), p \in Path : Lies(y, e, a, p) =>
        /\ a = 1 <=> p = Root
        /\ a # 1 => y.node[a].name = Last(p)
  BY <1>1 DEF Placed
<1>4. \A a \in Allocated(y), p \in Path : Lies(y, e, a, p) =>
        \A b \in Allocated(y), q \in Path : Lies(y, e, b, q) =>
          /\ y.node[a].children = b => Front(q) = p
          /\ y.node[a].next = b => Front(q) = Front(p)
  BY <1>1 DEF Placed
<1> QED
  BY <1>2, <1>3, <1>4 DEF Placed

LEMMA UnlinkedPlaced ==
  ASSUME NEW x, Sound(x), NEW c, Placed(x, c), NEW a \in Allocated(x), NEW y, y = Unlinked(x, a), NEW e,
         \A b \in Allocated(x) \ {a}, p \in Path : Lies(y, e, b, p) <=> Lies(x, c, b, p)
  PROVE  Placed(y, e)
<1> DEFINE o == x.node[a]
<1>1. Allocated(y) = Allocated(x) \ {a} /\ Nil \notin Allocated(x)
  BY UnlinkedNode, NodeOf DEF Sound
<1>2. ASSUME NEW b \in Allocated(x) \ {a}
      PROVE  /\ y.node[b].name = x.node[b].name
             /\ y.node[b].next = IF b = o.last THEN o.next ELSE x.node[b].next
             /\ y.node[b].children = IF x.node[b].children = a THEN o.next ELSE x.node[b].children
  BY UnlinkedNode DEF Sound
<1>3. PICK r \in Path : Lies(x, c, a, r)
  BY DEF Placed
<1>4. \A b \in Allocated(y) : \E p \in Path : Lies(y, e, b, p)
  BY <1>1 DEF Placed
<1>5. \A b \in Allocated(y), p \in Path : Lies(y, e, b, p) =>
        /\ b = 1 <=> p = Root
        /\ b # 1 => y.node[b].name = Last(p)
  BY <1>1, <1>2 DEF Placed
<1>6. ASSUME NEW b \in Allocated(y), NEW p \in Path, Lies(y, e, b, p),
             NEW d \in Allocated(y), NEW q \in Path, Lies(y, e, d, q)
      PROVE  /\ y.node[b].children = d => Front(q) = p
             /\ y.node[b].next = d => Front(q) = Front(p)
  <2>1. /\ b \in Allocated(x) \ {a} /\ d \in Allocated(x) \ {a}
        /\ Lies(x, c, b, p) /\ Lies(x, c, d, q)
    BY <1>1, <1>6
  <2>2. /\ x.node[b].children = d => Front(q) = p
        /\ x.node[b].next = d => Front(q) = Front(p)
        /\ x.node[b].children = a => Front(r) = p
        /\ x.node[b].next = a => Front(r) = Front(p)
        /\ o.next = d => Front(q) = Front(r)
    BY <2>1, <1>3 DEF Placed
  <2>3. b = o.last => x.node[b].next = a
    BY <1>1, <2>1 DEF Sound, Pointers
  <2> HIDE DEF o
  <2> QED
    BY <2>1, <2>2, <2>3, <1>2
<1> QED
  BY <1>4, <1>5, <1>6 DEF Placed

-----------------------------------------------------------------------------
(* The snapshot.                                                           *)

Record == [p : Seq(Name), id : File \cup {Nil}]
Lists == [Seq(Name) -> Seq(Record)]

\* The path and the record of a node of directory dir.
At(x, a, dir) == IF a = 1 THEN Root ELSE Append(dir, x.node[a].name)
RecordOf(x, a, dir) == [p |-> At(x, a, dir), id |-> x.node[a].metaID]

LEMMA AtFacts ==
  ASSUME NEW x, Sound(x), NEW a \in Allocated(x), NEW dir \in Seq(Name)
  PROVE  At(x, a, dir) \in Seq(Name) /\ RecordOf(x, a, dir) \in Record
<1>1. x.node[a] \in Node
  BY NodeOf DEF Sound
<1>2. At(x, a, dir) \in Seq(Name)
  <2>1. CASE a = 1
    <3>1. Root \in Path
      BY TreeAssumption
    <3> QED
      BY <2>1, <3>1, PathParts DEF At
  <2>2. CASE a # 1
    <3>1. x.node[a].name \in Name
      BY <2>2 DEF Sound, Kinds
    <3> QED
      BY <2>2, <3>1, AppendProperties DEF At
  <2> QED
    BY <2>1, <2>2
<1> QED
  BY <1>1, <1>2 DEF RecordOf, Record, Node

\* getTotalNode, unfolded.
Dumps(x, f) ==
  /\ f \in [Allocated(x) \cup {Nil} -> Lists]
  /\ \A dir \in Seq(Name) : f[Nil][dir] = <<>>
  /\ \A a \in Allocated(x) : \A dir \in Seq(Name) :
       f[a][dir] = <<RecordOf(x, a, dir)>>
                   \o f[x.node[a].children][At(x, a, dir)] \o f[x.node[a].next][dir]

LEMMA Concat ==
  ASSUME NEW S, NEW r \in S, NEW s \in Seq(S), NEW u \in Seq(S)
  PROVE  <<r>> \o s \o u \in Seq(S)
OBVIOUS

LEMMA DumpUnfolds ==
  ASSUME NEW x, Sound(x)
  PROVE  \E f : Dumps(x, f) /\ Dump(x) = f[1][Root]
<1> DEFINE D == Allocated(x) \cup {Nil}
           W == [D -> Lists]
           P == [a \in D |-> IF a = Nil THEN {} ELSE {x.node[a].children, x.node[a].next}]
           L(a, dir, g) == IF a = Nil THEN <<>>
                           ELSE <<RecordOf(x, a, dir)>>
                                \o g[x.node[a].children][At(x, a, dir)] \o g[x.node[a].next][dir]
           G == [a \in D |-> [g \in W |-> [dir \in Seq(Name) |-> L(a, dir, g)]]]
           E(f) == [a \in D |-> [dir \in Seq(Name) |-> L(a, dir, f)]]
<1>1. /\ Nil \notin Allocated(x) /\ 1 \in Allocated(x) /\ 1 # Nil
      /\ \A a \in Allocated(x) : x.node[a].children \in D /\ x.node[a].next \in D
  BY NodeOf DEF Sound, Kinds, Pointers, Nil
<1>2. ASSUME NEW a \in D, NEW g, NEW dir \in Seq(Name),
             a # Nil => /\ g[x.node[a].children][At(x, a, dir)] \in Seq(Record)
                        /\ g[x.node[a].next][dir] \in Seq(Record)
      PROVE  L(a, dir, g) \in Seq(Record)
  <2>1. CASE a = Nil
    BY <2>1
  <2>2. CASE a # Nil
    <3>1. RecordOf(x, a, dir) \in Record
      BY <2>2, AtFacts
    <3> DEFINE s == g[x.node[a].children][At(x, a, dir)]
               u == g[x.node[a].next][dir]
               r == RecordOf(x, a, dir)
    <3>2. s \in Seq(Record) /\ u \in Seq(Record) /\ r \in Record
      BY <1>2, <2>2, <3>1
    <3> HIDE DEF r, s, u
    <3>3. <<r>> \o s \o u \in Seq(Record)
      BY <3>2, Concat
    <3> QED
      BY <2>2, <3>3 DEF r, s, u
  <2> QED
    BY <2>1, <2>2
<1>3. ASSUME NEW a \in D, NEW g \in W, NEW dir \in Seq(Name)
      PROVE  L(a, dir, g) \in Seq(Record)
  <2> HIDE DEF L
  <2>1. ASSUME a # Nil
        PROVE  /\ g[x.node[a].children][At(x, a, dir)] \in Seq(Record)
               /\ g[x.node[a].next][dir] \in Seq(Record)
    <3>1. At(x, a, dir) \in Seq(Name) /\ x.node[a].children \in D /\ x.node[a].next \in D
      BY <2>1, <1>1, AtFacts
    <3> HIDE DEF D
    <3> QED
      BY <3>1 DEF Lists
  <2> QED
    BY <2>1, <1>2
<1>4. Equation(D, Lists, W, P, G)
  <2>1. Lists # {}
    <3>1. [dir \in Seq(Name) |-> <<>>] \in Lists
      BY DEF Lists
    <3> QED
      BY <3>1
  <2>2. P \in [D -> SUBSET D]
    BY <1>1
  <2>3. G \in [D -> [W -> Lists]]
    <3>1. \A a \in D, g \in W : [dir \in Seq(Name) |-> L(a, dir, g)] \in Lists
      <4> HIDE DEF L, W, D
      <4> QED
        BY <1>3 DEF Lists
    <3> HIDE DEF L, W, D
    <3> QED
      BY <3>1
  <2>4. Ends(D, P)
    <3> SUFFICES ASSUME NEW S \in SUBSET D, \A a \in S : P[a] \cap S # {}  PROVE S = {}
      BY DEF Ends
    <3>1. Nil \notin S
      OBVIOUS
    <3>2. \A a \in S : x.node[a].children \in S \/ x.node[a].next \in S
      BY <3>1
    <3>3. S \in SUBSET Allocated(x)
      BY <3>1
    <3> QED
      BY <3>2, <3>3 DEF Sound, Grounded
  <2>5. Local(D, W, P, G)
    <3> SUFFICES ASSUME NEW a \in D, NEW g \in W, NEW h \in W, \A c \in P[a] : g[c] = h[c]
                 PROVE  G[a][g] = G[a][h]
      BY DEF Local
    <3>1. a # Nil => /\ g[x.node[a].children] = h[x.node[a].children]
                     /\ g[x.node[a].next] = h[x.node[a].next]
      OBVIOUS
    <3>2. \A dir \in Seq(Name) : L(a, dir, g) = L(a, dir, h)
      BY <3>1
    <3> HIDE DEF L, W, D
    <3> QED
      BY <3>2
  <2> HIDE DEF P, G, D
  <2> QED
    BY <2>1, <2>2, <2>3, <2>4, <2>5 DEF Equation
<1>5. PICK f \in W : \A a \in D : f[a] = G[a][f]
  <2> HIDE DEF P, G, D, W
  <2> QED
    BY <1>4, Recursion
<1>6. f = E(f)
  <2> HIDE DEF L, D
  <2> QED
    BY <1>5
<1> DEFINE c == CHOOSE g : g = E(g)
<1>7. c = E(c)
  <2> HIDE DEF E
  <2> QED
    BY <1>6
<1>8. Dump(x) = c[1][Root]
  BY DEF Dump, RecordOf, At
<1>9. \A a \in D : \A dir \in Seq(Name) : c[a][dir] = L(a, dir, c)
  <2> HIDE DEF c, L, D
  <2> QED
    BY <1>7
<1>10. \A a \in D : c[a] = [dir \in Seq(Name) |-> c[a][dir]]
  <2> HIDE DEF c, L, D
  <2> QED
    BY <1>7
<1>11. c = [a \in D |-> c[a]]
  <2> HIDE DEF c, L, D
  <2> QED
    BY <1>7
<1> HIDE DEF c
<1>12. \A a \in D : \A dir \in Seq(Name) : c[a][dir] \in Seq(Record)
  <2> DEFINE S == {a \in D : \E dir \in Seq(Name) : c[a][dir] \notin Seq(Record)}
  <2>1. Nil \notin S
    <3>1. \A dir \in Seq(Name) : c[Nil][dir] = <<>>
      BY <1>9
    <3>2. <<>> \in Seq(Record)
      BY EmptySeq
    <3> QED
      BY <3>1, <3>2
  <2>2. ASSUME NEW a \in S
        PROVE  x.node[a].children \in S \/ x.node[a].next \in S
    <3> SUFFICES ASSUME x.node[a].children \notin S, x.node[a].next \notin S  PROVE FALSE
      OBVIOUS
    <3>1. PICK dir \in Seq(Name) : c[a][dir] \notin Seq(Record)
      OBVIOUS
    <3>2. a \in Allocated(x) /\ a # Nil
      BY <2>1, <1>1
    <3>3. /\ x.node[a].children \in D /\ x.node[a].next \in D /\ At(x, a, dir) \in Seq(Name)
      BY <1>1, <3>2, AtFacts
    <3>4. /\ c[x.node[a].children][At(x, a, dir)] \in Seq(Record)
          /\ c[x.node[a].next][dir] \in Seq(Record)
      BY <3>3
    <3>5. L(a, dir, c) \in Seq(Record)
      BY <1>2, <3>2, <3>4
    <3> HIDE DEF L
    <3> QED
      BY <1>9, <3>1, <3>2, <3>5
  <2>3. S \in SUBSET Allocated(x)
    BY <2>1
  <2>4. S = {}
    <3> HIDE DEF S
    <3> QED
      BY <2>2, <2>3 DEF Sound, Grounded
  <2> QED
    BY <2>4
<1>13. c \in W
  <2>1. \A a \in D : c[a] \in Lists
    <3> HIDE DEF D
    <3> QED
      BY <1>10, <1>12 DEF Lists
  <2> HIDE DEF D
  <2> QED
    BY <1>11, <2>1
<1>14. Dumps(x, c)
  BY <1>1, <1>9, <1>13 DEF Dumps
<1> QED
  BY <1>8, <1>14

LEMMA EmptySound ==
  /\ Sound(Empty) /\ Placed(Empty, <<>>)
  /\ Allocated(Empty) = {1} /\ Value(Empty, Root) = 1
<1> DEFINE n == NewNode(Nil, Nil)
           e == [key |-> Root, value |-> 1]
           h == Hash[Root]
           x == Empty
<1>1. n \in Node /\ n.metaID = Nil /\ n.children = Nil /\ n.next = Nil /\ n.last = Nil /\ n.parent = Wild
  BY DEF NewNode, Node
<1>2. Root \in Path /\ 1 \in Addr /\ h \in Bucket /\ e \in Entry /\ e.key = Root /\ e.value = 1
  BY NilFacts DEF Entry
<1>3. /\ x = [node |-> x.node, chain |-> x.chain]
      /\ x.node = [a \in Addr |-> IF a = 1 THEN n ELSE Free]
      /\ x.chain = [k \in Bucket |-> IF k = h THEN <<e>> ELSE <<>>]
  BY DEF Empty
<1> HIDE DEF n, e, h, x
<1>4. /\ <<e>> \in Seq(Entry) /\ <<>> \in Seq(Entry)
      /\ DOMAIN <<e>> = {1} /\ <<e>>[1] = e /\ DOMAIN <<>> = {}
  BY <1>2
<1>5. x \in Trees
  <2>1. x.node \in [Addr -> Node \cup {Free}]
    BY <1>1, <1>3
  <2>2. x.chain \in [Bucket -> Seq(Entry)]
    BY <1>3, <1>4
  <2> QED
    BY <1>3, <2>1, <2>2 DEF Trees
<1>6. Allocated(x) = {1} /\ x.node[1] = n
  BY <1>1, <1>2, <1>3, FreeFacts DEF Allocated
<1>7. Tabled(x)
  BY <1>2, <1>3, <1>4, <1>6 DEF Tabled, h
<1>8. \A p : Value(x, p) # Nil => p = Root
  <2> SUFFICES ASSUME NEW p, Value(x, p) # Nil  PROVE p = Root
    OBVIOUS
  <2>1. PICK i \in DOMAIN x.chain[Hash[p]] : p \in Path /\ x.chain[Hash[p]][i].key = p
    BY <1>5, <1>7, ValueFrom
  <2>2. Hash[p] \in Bucket
    BY <2>1, NilFacts
  <2> QED
    BY <2>1, <2>2, <1>2, <1>3, <1>4
<1>9. Value(x, Root) = 1
  <2>1. x.chain[Hash[Root]] = <<e>>
    BY <1>2, <1>3 DEF h
  <2> QED
    BY <2>1, <1>2, <1>4, ValueAt
<1>10. OneName(x)
  BY <1>8 DEF OneName
<1>11. Nil # 1 /\ Nil \notin {1}
  BY DEF Nil
<1>12. Pointers(x) /\ Kinds(x)
  BY <1>1, <1>6, <1>11 DEF Pointers, Kinds, IsFile
<1>13. Grounded(x)
  BY <1>1, <1>6, <1>11 DEF Grounded
<1>14. Placed(x, <<>>)
  BY <1>1, <1>2, <1>6, <1>8, <1>9, <1>11, NoFrames DEF Placed
<1> QED
  BY <1>5, <1>6, <1>7, <1>9, <1>10, <1>12, <1>13, <1>14 DEF Sound, x

Sounds == {x \in Trees : Sound(x) /\ Placed(x, <<>>)}
Then(x, r) == IF Fits(x, r.p) THEN Added(x, r.p, r.id) ELSE x

LEMMA ThenSound ==
  ASSUME NEW x \in Sounds, NEW r \in Record
  PROVE  Then(x, r) \in Sounds
<1>1. Sound(x) /\ Placed(x, <<>>) /\ r.id \in File \cup {Nil}
  BY DEF Sounds, Record
<1>2. CASE Fits(x, r.p)
  <2>1. Sound(Added(x, r.p, r.id)) /\ Placed(Added(x, r.p, r.id), <<>>)
    BY <1>1, <1>2, AddedSound, AddedPlaced
  <2> QED
    BY <1>2, <2>1 DEF Then, Sounds, Sound
<1>3. CASE ~Fits(x, r.p)
  BY <1>3 DEF Then
<1> QED
  BY <1>2, <1>3

\* loadSnapshot, unfolded.
Loads(records, f) ==
  /\ f \in [0..Len(records) -> Sounds]
  /\ f[0] = Empty
  /\ \A n \in 1..Len(records) : f[n] = Then(f[n - 1], records[n])

LEMMA LoadUnfolds ==
  ASSUME NEW records \in Seq(Record)
  PROVE  \E f : Loads(records, f) /\ Load(records) = f[Len(records)]
<1> DEFINE D == 0..Len(records)
           W == [D -> Sounds]
           P == [n \in D |-> IF n = 0 THEN {} ELSE {n - 1}]
           L(n, g) == IF n = 0 THEN Empty ELSE Then(g[n - 1], records[n])
           G == [n \in D |-> [g \in W |-> L(n, g)]]
           E(f) == [n \in D |-> L(n, f)]
<1>1. /\ Len(records) \in Nat /\ Empty \in Sounds
      /\ \A n \in D : n # 0 => n - 1 \in D /\ n \in 1..Len(records) /\ records[n] \in Record
  <2>1. Empty \in Sounds
    BY EmptySound DEF Sounds, Sound
  <2> QED
    BY <2>1
<1>2. ASSUME NEW n \in D, NEW g, n # 0 => g[n - 1] \in Sounds
      PROVE  L(n, g) \in Sounds
  BY <1>1, <1>2, ThenSound
<1>3. Equation(D, Sounds, W, P, G)
  <2>1. Sounds # {}
    BY <1>1
  <2>2. P \in [D -> SUBSET D]
    BY <1>1
  <2>3. G \in [D -> [W -> Sounds]]
    <3> SUFFICES ASSUME NEW n \in D, NEW g \in W  PROVE L(n, g) \in Sounds
      OBVIOUS
    <3>1. n # 0 => g[n - 1] \in Sounds
      BY <1>1
    <3> QED
      BY <1>2, <3>1
  <2>4. Ends(D, P)
    <3> SUFFICES ASSUME NEW S \in SUBSET D, \A n \in S : P[n] \cap S # {}, S # {}  PROVE FALSE
      BY DEF Ends
    <3>1. S \in SUBSET Nat
      BY <1>1
    <3>2. PICK n \in S : \A m \in S : n <= m
      BY <3>1, Smallest
    <3>3. n # 0 /\ n - 1 \in S
      OBVIOUS
    <3> QED
      BY <3>1, <3>2, <3>3
  <2>5. Local(D, W, P, G)
    <3> SUFFICES ASSUME NEW n \in D, NEW g \in W, NEW h \in W, \A c \in P[n] : g[c] = h[c]
                 PROVE  G[n][g] = G[n][h]
      BY DEF Local
    <3>1. n # 0 => g[n - 1] = h[n - 1]
      OBVIOUS
    <3>2. L(n, g) = L(n, h)
      BY <3>1
    <3> HIDE DEF L, W, D
    <3> QED
      BY <3>2
  <2> HIDE DEF P, G, D
  <2> QED
    BY <2>1, <2>2, <2>3, <2>4, <2>5 DEF Equation
<1>4. PICK f \in W : \A n \in D : f[n] = G[n][f]
  <2> HIDE DEF P, G, D, W
  <2> QED
    BY <1>3, Recursion
<1>5. f = E(f)
  <2> HIDE DEF L, D
  <2> QED
    BY <1>4
<1> DEFINE c == CHOOSE g : g = E(g)
<1>6. c = E(c)
  <2> HIDE DEF E
  <2> QED
    BY <1>5
<1>7. Load(records) = c[Len(records)]
  BY DEF Load, Then
<1>8. \A n \in D : c[n] = L(n, c)
  <2> HIDE DEF c, L, D
  <2> QED
    BY <1>6
<1>8a. c = [n \in D |-> c[n]]
  <2> HIDE DEF c, L, D
  <2> QED
    BY <1>6
<1> HIDE DEF c
<1>9. \A n \in D : c[n] \in Sounds
  <2> DEFINE S == {n \in D : c[n] \notin Sounds}
  <2>1. ASSUME S # {}  PROVE FALSE
    <3>1. S \in SUBSET Nat
      BY <1>1
    <3>2. PICK n \in S : \A m \in S : n <= m
      BY <2>1, <3>1, Smallest
    <3>3. n # 0 => n - 1 \in D /\ n - 1 \notin S
      BY <1>1, <3>1, <3>2
    <3>4. L(n, c) \in Sounds
      BY <1>2, <3>3
    <3> HIDE DEF L
    <3> QED
      BY <1>8, <3>4
  <2> QED
    BY <2>1
<1>10. Loads(records, c)
  <2>1. c \in W
    <3> HIDE DEF D
    <3> QED
      BY <1>8a, <1>9
  <2>2. c[0] = Empty
    BY <1>1, <1>8
  <2>3. \A n \in 1..Len(records) : c[n] = Then(c[n - 1], records[n])
    BY <1>1, <1>8
  <2> QED
    BY <2>1, <2>2, <2>3 DEF Loads
<1> QED
  BY <1>7, <1>10

LEMMA RestoredSound ==
  ASSUME NEW x, Sound(x)
  PROVE  Dump(x) \in Seq(Record) /\ Sound(Load(Dump(x))) /\ Placed(Load(Dump(x)), <<>>)
<1>1. PICK f : Dumps(x, f) /\ Dump(x) = f[1][Root]
  BY DumpUnfolds
<1>2. 1 \in Allocated(x) /\ Root \in Seq(Name)
  BY NilFacts, PathParts DEF Sound, Kinds
<1>3. Dump(x) \in Seq(Record)
  <2>1. f[1] \in Lists
    BY <1>1, <1>2 DEF Dumps
  <2> QED
    BY <1>1, <1>2, <2>1 DEF Lists
<1>4. PICK g : Loads(Dump(x), g) /\ Load(Dump(x)) = g[Len(Dump(x))]
  BY <1>3, LoadUnfolds
<1>5. Len(Dump(x)) \in 0..Len(Dump(x))
  BY <1>3
<1> QED
  BY <1>3, <1>4, <1>5 DEF Loads, Sounds

-----------------------------------------------------------------------------
(* The frames of removeDir.                                                *)

Frame == [p : Path, d : Addr, next : Addr \cup {Nil}]

\* All that is removed is in the directory that was asked for; the nodes on
\* their way out are different ones, which no name leads to any more.
Frames(x, c) ==
  /\ c \in Seq(Frame)
  /\ \A i \in DOMAIN c :
       /\ c[i].d \in Allocated(x) /\ \A p : Value(x, p) # c[i].d
       /\ IsPrefix(Last(c).p, c[i].p)
       /\ \A j \in DOMAIN c : c[i].d = c[j].d => i = j

Framed(x, c) ==
  Frames(x, c) /\ (c # <<>> => Head(c).next \in Allocated(x) \cup {Nil})

TreeInv ==
  /\ Sound(t) /\ Placed(t, call) /\ Framed(t, call)
  /\ status \in {"run", "ub", "spin", "dead"}

LEMMA PushFacts ==
  ASSUME NEW S, NEW c \in Seq(S), NEW f \in S
  PROVE  /\ <<f>> \o c \in Seq(S) /\ <<f>> \o c # <<>> /\ Head(<<f>> \o c) = f
         /\ DOMAIN (<<f>> \o c) = 1..(Len(c) + 1)
         /\ (<<f>> \o c)[1] = f
         /\ \A i \in 1..Len(c) : (<<f>> \o c)[i + 1] = c[i]
         /\ Last(<<f>> \o c) = IF c = <<>> THEN f ELSE Last(c)
<1> DEFINE e == <<f>> \o c
<1>1. <<f>> \in Seq(S) /\ Len(<<f>>) = 1 /\ <<f>>[1] = f /\ Len(c) \in Nat
  OBVIOUS
<1>2. /\ e \in Seq(S) /\ Len(e) = 1 + Len(c)
      /\ \A i \in 1..(1 + Len(c)) : e[i] = IF i <= 1 THEN <<f>>[i] ELSE c[i - 1]
  BY <1>1, ConcatProperties
<1> HIDE DEF e
<1>3. e # <<>> /\ DOMAIN e = 1..(Len(c) + 1) /\ e[1] = f /\ Head(e) = f
  BY <1>1, <1>2
<1>4. \A i \in 1..Len(c) : e[i + 1] = c[i]
  BY <1>1, <1>2
<1>5. Last(e) = IF c = <<>> THEN f ELSE Last(c)
  <2>1. CASE c = <<>>
    <3>1. Len(c) = 0
      BY <2>1
    <3> QED
      BY <2>1, <3>1, <1>2, <1>3 DEF Last
  <2>2. CASE c # <<>>
    <3>1. Len(c) \in 1..Len(c) /\ Len(c) + 1 = Len(e)
      BY <2>2, <1>1, <1>2, EmptySeq
    <3> QED
      BY <2>2, <3>1, <1>4 DEF Last
  <2> QED
    BY <2>1, <2>2
<1> QED
  BY <1>2, <1>3, <1>4, <1>5 DEF e

LEMMA PopFacts ==
  ASSUME NEW S, NEW c \in Seq(S), c # <<>>
  PROVE  /\ Len(c) \in Nat \ {0} /\ DOMAIN c = 1..Len(c)
         /\ Head(c) = c[1] /\ c[1] \in S
         /\ Tail(c) \in Seq(S) /\ Len(Tail(c)) = Len(c) - 1
         /\ DOMAIN Tail(c) = 1..(Len(c) - 1)
         /\ \A i \in 1..(Len(c) - 1) : Tail(c)[i] = c[i + 1]
         /\ Tail(c) # <<>> => Last(Tail(c)) = Last(c)
<1>1. Len(c) \in Nat \ {0} /\ DOMAIN c = 1..Len(c) /\ Head(c) = c[1] /\ c[1] \in S
  BY EmptySeq
<1>2. /\ Tail(c) \in Seq(S) /\ Len(Tail(c)) = Len(c) - 1
      /\ DOMAIN Tail(c) = 1..(Len(c) - 1)
      /\ \A i \in 1..(Len(c) - 1) : Tail(c)[i] = c[i + 1]
  BY <1>1, HeadTailProperties
<1>3. ASSUME Tail(c) # <<>>  PROVE Last(Tail(c)) = Last(c)
  <2>1. Len(Tail(c)) \in Nat \ {0}
    BY <1>2, <1>3, EmptySeq
  <2>2. Len(c) - 1 \in 1..(Len(c) - 1) /\ (Len(c) - 1) + 1 = Len(c)
    BY <1>1, <1>2, <2>1
  <2> QED
    BY <1>2, <2>2 DEF Last
<1> QED
  BY <1>1, <1>2, <1>3

\* Prefixes, element by element.
LEMMA PrefixIs ==
  ASSUME NEW S, NEW s \in Seq(S), NEW u \in Seq(S)
  PROVE  IsPrefix(s, u) <=> Len(s) <= Len(u) /\ \A i \in 1..Len(s) : s[i] = u[i]
<1>1. Len(s) \in Nat /\ Len(u) \in Nat /\ \A i \in 1..Len(s) : s[i] \in S
  OBVIOUS
<1>2. SubSeq(s, 1, Len(s)) = s
  BY SubSeqFull
<1>3. ASSUME Len(s) <= Len(u)
      PROVE  /\ SubSeq(u, 1, Len(s)) \in Seq(S) /\ Len(SubSeq(u, 1, Len(s))) = Len(s)
             /\ \A i \in 1..Len(s) : SubSeq(u, 1, Len(s))[i] = u[i]
  <2>1. \A i \in 1..Len(s) : u[i] \in S
    BY <1>1, <1>3
  <2> QED
    BY <1>1, <2>1, SubSeqProperties
<1>4. ASSUME Len(s) <= Len(u), \A i \in 1..Len(s) : s[i] = u[i]
      PROVE  SubSeq(u, 1, Len(s)) = s
  BY <1>3, <1>4, SeqEqual
<1> QED
  BY <1>2, <1>3, <1>4 DEF IsPrefix

LEMMA PrefixSelf ==
  ASSUME NEW p \in Path
  PROVE  IsPrefix(p, p)
<1>1. p \in Seq(Name) /\ Len(p) \in Nat
  BY PathParts
<1> QED
  BY <1>1, PrefixIs

\* What removeDir looks for is in the directory.
LEMMA JoinFacts ==
  ASSUME NEW p \in Path, NEW name, Join(p, name) \in Path
  PROVE  /\ p # Root /\ Join(p, name) # Root /\ Front(Join(p, name)) = p
         /\ \A r \in Path : IsPrefix(r, p) => IsPrefix(r, Join(p, name))
<1> DEFINE q == Join(p, name)
<1>1. p # Root
  <2> SUFFICES ASSUME p = Root  PROVE FALSE
    OBVIOUS
  <2>1. NoPath \in Path
    BY DEF Join
  <2>2. NoPath \in Seq(Name) /\ NoPath = <<Nil>>
    BY <2>1, PathParts DEF NoPath
  <2>3. Nil \in Name
    BY <2>2
  <2> QED
    BY <2>3, TreeAssumption
<1>2. q = Append(p, name) /\ p \in Seq(Name) /\ q \in Seq(Name)
  BY <1>1, PathParts DEF Join
<1> HIDE DEF q
<1>3. /\ Len(p) \in Nat /\ Len(q) = Len(p) + 1 /\ \A i \in 1..Len(p) : q[i] = p[i]
  BY <1>2
<1>4. q # Root
  BY <1>3 DEF Root
<1>5. Front(q) = p
  <2>1. \A i \in 1..Len(p) : q[i] \in Name
    BY <1>2, <1>3
  <2>2. /\ Front(q) \in Seq(Name) /\ Len(Front(q)) = Len(p)
        /\ \A i \in 1..Len(p) : Front(q)[i] = q[i]
    BY <1>3, <2>1, SubSeqProperties DEF Front
  <2> QED
    BY <1>2, <1>3, <2>2, SeqEqual
<1>6. ASSUME NEW r \in Path, IsPrefix(r, p)  PROVE IsPrefix(r, q)
  <2>1. r \in Seq(Name) /\ Len(r) \in Nat
    BY PathParts
  <2>2. Len(r) <= Len(p) /\ \A i \in 1..Len(r) : r[i] = p[i]
    BY <1>2, <1>6, <2>1, PrefixIs
  <2>3. Len(r) <= Len(q) /\ \A i \in 1..Len(r) : r[i] = q[i]
    BY <1>3, <2>1, <2>2
  <2> QED
    BY <1>2, <2>1, <2>3, PrefixIs
<1> QED
  BY <1>1, <1>4, <1>5, <1>6 DEF q


\* The loop of the last frame goes on.
LEMMA GoneOn ==
  ASSUME NEW x, Sound(x), NEW c, Frames(x, c)
  PROVE  /\ Framed(x, GoOn(c, x))
         /\ \A a, p : Lies(x, GoOn(c, x), a, p) <=> Lies(x, c, a, p)
         /\ c # <<>> => Head(GoOn(c, x)).next = x.node[Head(c).d].next
<1>1. CASE c = <<>>
  <2>1. GoOn(c, x) = c
    BY <1>1 DEF GoOn
  <2> QED
    BY <1>1, <2>1 DEF Framed
<1>2. CASE c # <<>>
  <2> DEFINE f == [Head(c) EXCEPT !.next = x.node[Head(c).d].next]
             e == GoOn(c, x)
  <2>1. /\ c \in Seq(Frame) /\ Len(c) \in Nat \ {0} /\ DOMAIN c = 1..Len(c)
        /\ Head(c) = c[1] /\ c[1] \in Frame
        /\ Tail(c) \in Seq(Frame) /\ Len(Tail(c)) = Len(c) - 1
        /\ \A i \in 1..(Len(c) - 1) : Tail(c)[i] = c[i + 1]
        /\ Tail(c) # <<>> => Last(Tail(c)) = Last(c)
    BY <1>2, PopFacts DEF Frames
  <2>2. c[1].d \in Allocated(x) /\ x.node[c[1].d].next \in Allocated(x) \cup {Nil}
    BY <2>1 DEF Frames, Sound, Pointers
  <2>3. f \in Frame /\ f.p = c[1].p /\ f.d = c[1].d /\ f.next = x.node[c[1].d].next
    BY <2>1, <2>2, NodeOf DEF Frame, Sound
  <2>4. e = <<f>> \o Tail(c)
    BY <1>2 DEF GoOn
  <2> HIDE DEF f, e
  <2>5. /\ e \in Seq(Frame) /\ e # <<>> /\ Head(e) = f
        /\ DOMAIN e = 1..(Len(Tail(c)) + 1)
        /\ e[1] = f
        /\ \A i \in 1..Len(Tail(c)) : e[i + 1] = Tail(c)[i]
        /\ Last(e) = IF Tail(c) = <<>> THEN f ELSE Last(Tail(c))
    <3> DEFINE r == Tail(c)
    <3>1. r \in Seq(Frame) /\ f \in Frame /\ e = <<f>> \o r
      BY <2>1, <2>3, <2>4
    <3> HIDE DEF r
    <3>2. /\ e \in Seq(Frame) /\ e # <<>> /\ Head(e) = f
          /\ DOMAIN e = 1..(Len(r) + 1) /\ e[1] = f
          /\ \A i \in 1..Len(r) : e[i + 1] = r[i]
          /\ Last(e) = IF r = <<>> THEN f ELSE Last(r)
      BY <3>1, PushFacts
    <3> QED
      BY <3>2 DEF r
  <2>6. DOMAIN e = DOMAIN c
    BY <2>1, <2>5
  <2>7. ASSUME NEW i \in DOMAIN c  PROVE e[i].p = c[i].p /\ e[i].d = c[i].d
    <3>1. CASE i = 1
      BY <3>1, <2>3, <2>5
    <3>2. CASE i # 1
      <4>1. i - 1 \in 1..(Len(c) - 1) /\ (i - 1) + 1 = i /\ Len(Tail(c)) = Len(c) - 1
        BY <2>1, <3>2
      <4>2. e[i] = c[i]
        BY <2>1, <2>5, <4>1
      <4> QED
        BY <4>2
    <3> QED
      BY <3>1, <3>2
  <2>8. Last(e).p = Last(c).p
    <3>1. CASE Tail(c) = <<>>
      <4>1. Len(Tail(c)) = 0
        BY <3>1
      <4>2. Len(c) \in Nat /\ 0 = Len(c) - 1
        BY <2>1, <4>1
      <4>3. Len(c) = 1
        BY <4>2
      <4> QED
        BY <2>3, <2>5, <3>1, <4>3 DEF Last
    <3>2. CASE Tail(c) # <<>>
      BY <2>1, <2>5, <3>2
    <3> QED
      BY <3>1, <3>2
  <2>9. Frames(x, e)
    BY <2>5, <2>6, <2>7, <2>8 DEF Frames
  <2>10. \A a, p : Lies(x, e, a, p) <=> Lies(x, c, a, p)
    BY <2>6, <2>7 DEF Lies
  <2> QED
    BY <2>1, <2>2, <2>3, <2>5, <2>9, <2>10 DEF Framed, e
<1> QED
  BY <1>1, <1>2

\* Names go, and no node of a frame.
LEMMA FramesKept ==
  ASSUME NEW x, NEW c, Frames(x, c), NEW y,
         \A p : Value(y, p) = Value(x, p) \/ Value(y, p) = Nil,
         \A i \in DOMAIN c : c[i].d \in Allocated(y)
  PROVE  Frames(y, c)
<1>1. \A i \in DOMAIN c : c[i].d # Nil
  BY NilFacts DEF Frames, Allocated
<1> QED
  BY <1>1 DEF Frames

\* removeDir, its name out of the table and its frame in.
LEMMA EnterFacts ==
  ASSUME NEW x, Sound(x), NEW c, Placed(x, c), Framed(x, c), NEW p, Value(x, p) # Nil,
         c # <<>> => IsPrefix(Last(c).p, p), NEW f,
         f = [p |-> p, d |-> Value(x, p), next |-> x.node[Value(x, p)].children]
  PROVE  /\ Sound(Unmapped(x, p)) /\ Placed(Unmapped(x, p), <<f>> \o c)
         /\ Framed(Unmapped(x, p), <<f>> \o c)
<1> DEFINE y == Unmapped(x, p)
           d == Value(x, p)
           e == <<f>> \o c
<1>1. p \in Path /\ d \in Allocated(x) /\ d \in Addr
  BY ValueFrom DEF Sound
<1>2. /\ Sound(y) /\ Allocated(y) = Allocated(x) /\ y.node = x.node
      /\ \A q : Value(y, q) = IF q = p THEN Nil ELSE Value(x, q)
      /\ \A q : Value(y, q) # d
  BY UnmappedSound
<1>3. x.node[d].children \in Allocated(x) \cup {Nil}
  BY <1>1 DEF Sound, Pointers
<1>4. f \in Frame /\ f.p = p /\ f.d = d /\ f.next = x.node[d].children
  BY <1>1, <1>3, NodeOf DEF Frame, Sound
<1>5. c \in Seq(Frame) /\ Len(c) \in Nat /\ DOMAIN c = 1..Len(c)
  BY DEF Framed, Frames
<1> HIDE DEF y, d, e
<1>6. /\ e \in Seq(Frame) /\ e # <<>> /\ Head(e) = f
      /\ DOMAIN e = 1..(Len(c) + 1) /\ e[1] = f
      /\ \A i \in 1..Len(c) : e[i + 1] = c[i]
      /\ Last(e) = IF c = <<>> THEN f ELSE Last(c)
  BY <1>4, <1>5, PushFacts DEF e
<1>7. \A i \in DOMAIN e : i = 1 \/ (i - 1 \in DOMAIN c /\ e[i] = c[i - 1])
  <2> SUFFICES ASSUME NEW i \in DOMAIN e, i # 1
               PROVE  i - 1 \in DOMAIN c /\ e[i] = c[i - 1]
    OBVIOUS
  <2>1. i - 1 \in 1..Len(c) /\ (i - 1) + 1 = i
    BY <1>5, <1>6
  <2> QED
    BY <1>5, <1>6, <2>1
<1>8. Frames(y, e)
  <2>1. ASSUME NEW i \in DOMAIN e
        PROVE  /\ e[i].d \in Allocated(y) /\ \A q : Value(y, q) # e[i].d
    <3>1. CASE i = 1
      BY <1>1, <1>2, <1>4, <1>6, <3>1
    <3>2. CASE i # 1
      <4>1. i - 1 \in DOMAIN c /\ e[i] = c[i - 1]
        BY <1>7, <3>2
      <4>2. c[i - 1].d \in Allocated(x) /\ \A q : Value(x, q) # c[i - 1].d
        BY <4>1 DEF Framed, Frames
      <4>3. c[i - 1].d # Nil
        BY <4>2, NodeOf DEF Sound
      <4> QED
        BY <1>2, <4>1, <4>2, <4>3
    <3> QED
      BY <3>1, <3>2
  <2>2. ASSUME NEW i \in DOMAIN e  PROVE IsPrefix(Last(e).p, e[i].p)
    <3>1. CASE c = <<>>
      <4>1. i = 1
        BY <1>7, <3>1
      <4> QED
        BY <1>1, <1>4, <1>6, <3>1, <4>1, PrefixSelf
    <3>2. CASE c # <<>> /\ i = 1
      BY <1>4, <1>6, <3>2
    <3>3. CASE c # <<>> /\ i # 1
      <4>1. i - 1 \in DOMAIN c /\ e[i] = c[i - 1]
        BY <1>7, <3>3
      <4> QED
        BY <4>1, <3>3, <1>6 DEF Framed, Frames
    <3> QED
      BY <3>1, <3>2, <3>3
  <2>3. ASSUME NEW i \in DOMAIN e, NEW j \in DOMAIN e, e[i].d = e[j].d
        PROVE  i = j
    <3>1. \A k \in DOMAIN c : c[k].d # d
      BY <1>4 DEF Framed, Frames, d
    <3>2. \A k \in DOMAIN e : k # 1 => e[k].d # d /\ k - 1 \in DOMAIN c /\ e[k] = c[k - 1]
      BY <1>7, <3>1
    <3>3. (i = 1) <=> (j = 1)
      BY <1>4, <1>6, <2>3, <3>2
    <3>4. CASE i # 1
      <4>1. i - 1 \in DOMAIN c /\ j - 1 \in DOMAIN c /\ c[i - 1].d = c[j - 1].d
        BY <2>3, <3>2, <3>3, <3>4
      <4>2. i - 1 = j - 1
        BY <4>1 DEF Framed, Frames
      <4> QED
        BY <4>2, <1>6
    <3> QED
      BY <3>3, <3>4
  <2> QED
    BY <1>6, <2>1, <2>2, <2>3 DEF Frames
<1>9. ASSUME NEW a \in Allocated(x), NEW q \in Path
      PROVE  Lies(y, e, a, q) <=> Lies(x, c, a, q)
  <2>1. a # Nil
    BY NodeOf DEF Sound
  <2>2. \A i \in DOMAIN c : i + 1 \in DOMAIN e /\ e[i + 1] = c[i]
    BY <1>5, <1>6
  <2>3. 1 \in DOMAIN e
    BY <1>5, <1>6
  <2>4. ASSUME Lies(y, e, a, q)  PROVE Lies(x, c, a, q)
    <3>1. CASE Value(y, q) = a
      BY <1>2, <2>1, <3>1 DEF Lies
    <3>2. ASSUME NEW i \in DOMAIN e, e[i].p = q, e[i].d = a
          PROVE  Lies(x, c, a, q)
      <4>1. CASE i = 1
        BY <1>4, <1>6, <3>2, <4>1 DEF Lies, d
      <4>2. CASE i # 1
        <5>1. i - 1 \in DOMAIN c /\ e[i] = c[i - 1]
          BY <1>7, <4>2
        <5> QED
          BY <3>2, <5>1 DEF Lies
      <4> QED
        BY <4>1, <4>2
    <3> QED
      BY <2>4, <3>1, <3>2 DEF Lies
  <2>5. ASSUME Lies(x, c, a, q)  PROVE Lies(y, e, a, q)
    <3>1. CASE Value(x, q) = a /\ q = p
      BY <1>4, <1>6, <2>3, <3>1 DEF Lies, d
    <3>2. CASE Value(x, q) = a /\ q # p
      BY <1>2, <3>2 DEF Lies
    <3>3. ASSUME NEW i \in DOMAIN c, c[i].p = q, c[i].d = a
          PROVE  Lies(y, e, a, q)
      BY <2>2, <3>3 DEF Lies
    <3> QED
      BY <2>5, <3>1, <3>2, <3>3 DEF Lies
  <2> QED
    BY <2>4, <2>5
<1>10. Placed(y, e)
  BY <1>2, <1>9, SamePlaced
<1> QED
  BY <1>2, <1>3, <1>4, <1>6, <1>8, <1>10 DEF Framed, y, e


\* A node goes that no name leads to and no frame is of.
LEMMA FreedFacts ==
  ASSUME NEW x, Sound(x), NEW c, Frames(x, c), NEW a \in Allocated(x), a # 1,
         \A p : Value(x, p) # a, \A i \in DOMAIN c : c[i].d # a,
         NEW e, Placed(x, e),
         \A b \in Allocated(x) \ {a}, p \in Path : Lies(x, e, b, p) <=> Lies(x, c, b, p)
  PROVE  /\ Sound(Unlinked(x, a)) /\ Frames(Unlinked(x, a), c) /\ Placed(Unlinked(x, a), c)
         /\ \A p : Value(Unlinked(x, a), p) = Value(x, p)
<1> DEFINE y == Unlinked(x, a)
<1>1. /\ Sound(y) /\ \A p : Value(y, p) = Value(x, p)
  BY UnlinkedSound
<1>2. Allocated(y) = Allocated(x) \ {a}
  BY UnlinkedNode DEF Sound
<1> HIDE DEF y
<1>3. Frames(y, c)
  <2>1. \A i \in DOMAIN c : c[i].d \in Allocated(y)
    BY <1>2 DEF Frames
  <2> QED
    BY <1>1, <2>1, FramesKept
<1>4. \A b \in Allocated(x) \ {a}, p \in Path : Lies(y, c, b, p) <=> Lies(x, e, b, p)
  BY <1>1 DEF Lies
<1>5. Placed(y, c)
  BY <1>4, UnlinkedPlaced DEF y
<1> QED
  BY <1>1, <1>3, <1>5 DEF y

\* removeFile, its name out of the table and its node out of memory.
LEMMA DroppedFacts ==
  ASSUME NEW x, Sound(x), NEW c, Placed(x, c), Frames(x, c), NEW p, Value(x, p) # Nil,
         IsFile(x.node[Value(x, p)]), NEW y, y = Unlinked(Unmapped(x, p), Value(x, p))
  PROVE  /\ Sound(y) /\ Frames(y, c) /\ Placed(y, c)
         /\ \A q : Value(y, q) = IF q = p THEN Nil ELSE Value(x, q)
<1> DEFINE u == Unmapped(x, p)
           a == Value(x, p)
<1>1. p \in Path /\ a \in Allocated(x) /\ a # Nil /\ a # 1
  <2>1. p \in Path /\ a \in Allocated(x) /\ a # Nil /\ IsFile(x.node[a])
    BY ValueFrom DEF Sound
  <2> HIDE DEF a
  <2> QED
    BY <2>1 DEF Sound, Kinds
<1>2. /\ Sound(u) /\ Allocated(u) = Allocated(x) /\ u.node = x.node
      /\ \A q : Value(u, q) = IF q = p THEN Nil ELSE Value(x, q)
      /\ \A q : Value(u, q) # a
  BY UnmappedSound
<1>3. \A i \in DOMAIN c : c[i].d # a /\ c[i].d \in Allocated(x)
  BY DEF Frames
<1> DEFINE e == <<[p |-> p, d |-> a, next |-> Nil]>> \o c
<1> HIDE DEF u, a
<1>4. Frames(u, c)
  BY <1>2, <1>3, FramesKept
<1>5. ASSUME NEW b \in Allocated(x) \ {a}, NEW q \in Path
      PROVE  Lies(x, c, b, q) <=> Lies(u, c, b, q)
  <2>1. b # Nil
    BY NodeOf DEF Sound
  <2> QED
    BY <1>2, <2>1 DEF Lies, a
<1>6. /\ y = Unlinked(u, a) /\ Allocated(y) = Allocated(x) \ {a}
      /\ Sound(y) /\ \A q : Value(y, q) = Value(u, q)
  <2>1. y = Unlinked(u, a)
    BY DEF u, a
  <2>2. Allocated(Unlinked(u, a)) = Allocated(u) \ {a}
    BY <1>1, <1>2, UnlinkedNode DEF Sound
  <2>3. Sound(Unlinked(u, a)) /\ \A q : Value(Unlinked(u, a), q) = Value(u, q)
    BY <1>1, <1>2, UnlinkedSound
  <2> QED
    BY <1>2, <2>1, <2>2, <2>3
<1>7. Frames(y, c)
  <2>1. \A i \in DOMAIN c : c[i].d \in Allocated(y)
    BY <1>3, <1>6
  <2>2. \A q : Value(y, q) = Value(u, q) \/ Value(y, q) = Nil
    BY <1>6
  <2> QED
    BY <1>4, <2>1, <2>2, FramesKept
<1>8. Placed(y, c)
  <2> DEFINE z == Unlinked(x, a)
  <2>1. y.node = z.node
    <3>1. x \in Trees /\ u \in Trees
      BY <1>2 DEF Sound
    <3> DEFINE w(m) == [b \in Addr |->
                 IF b = a THEN Free
                 ELSE IF m[b] = Free THEN Free
                 ELSE [m[b] EXCEPT
                         !.next = IF b = m[a].last THEN m[a].next ELSE @,
                         !.last = IF b = m[a].next THEN m[a].last ELSE @,
                         !.children = IF @ = a THEN m[a].next ELSE @]]
    <3>2. z = [x EXCEPT !.node = w(x.node)]
      BY DEF Unlinked
    <3>3. y = [u EXCEPT !.node = w(u.node)]
      BY <1>6 DEF Unlinked
    <3> HIDE DEF w, z
    <3>4. z.node = w(x.node) /\ y.node = w(u.node)
      BY <3>1, <3>2, <3>3 DEF Trees
    <3> QED
      BY <1>2, <3>4
  <2>2. \A b \in Allocated(x) \ {a}, q \in Path : Lies(z, c, b, q) <=> Lies(x, c, b, q)
    <3>1. z.chain = x.chain
      BY <1>1, UnlinkedNode DEF Sound
    <3> HIDE DEF z
    <3>3. ASSUME NEW q  PROVE Value(z, q) = Value(x, q)
      <4>1. Places(z, q) = Places(x, q)
        BY <3>1 DEF Places
      <4> QED
        BY <3>1, <4>1 DEF Value
    <3> QED
      BY <3>3 DEF Lies
  <2>3. Placed(z, c)
    BY <1>1, <2>2, UnlinkedPlaced
  <2>4. Allocated(z) = Allocated(x) \ {a}
    BY <1>1, UnlinkedNode DEF Sound
  <2>5. \A b \in Allocated(z), q \in Path : Lies(y, c, b, q) <=> Lies(z, c, b, q)
    <3>1. \A b, q : Lies(y, c, b, q) <=> Lies(u, c, b, q)
      BY <1>6 DEF Lies
    <3> HIDE DEF z
    <3> QED
      BY <1>5, <2>2, <2>4, <3>1
  <2> QED
    BY <2>1, <2>3, <2>5, SamePlaced
<1> QED
  BY <1>2, <1>6, <1>7, <1>8


-----------------------------------------------------------------------------
(* The invariant.                                                          *)

LEMMA InitInv ==
  ASSUME Init
  PROVE  TreeInv
<1>1. Frames(t, call)
  BY NoFrames DEF Init, Frames
<1> QED
  BY <1>1, EmptySound DEF Init, TreeInv, Framed

LEMMA AddFileInv ==
  ASSUME TreeInv, NEW p \in Path, NEW id \in File \cup {Nil}, AddFile(p, id)
  PROVE  TreeInv'
<1>1. /\ call = <<>> /\ call' = <<>> /\ status' = status /\ Fits(t, p) /\ t' = Added(t, p, id)
      /\ Sound(t) /\ Placed(t, <<>>)
  BY DEF AddFile, Ready, TreeInv
<1>2. Sound(t') /\ Placed(t', <<>>)
  BY <1>1, AddedSound, AddedPlaced
<1>3. Framed(t', <<>>)
  BY NoFrames DEF Framed, Frames
<1> QED
  BY <1>1, <1>2, <1>3 DEF TreeInv

LEMMA RemoveFileInv ==
  ASSUME TreeInv, NEW p \in Path, RemoveFile(p)
  PROVE  TreeInv'
<1> DEFINE a == Value(t, p)
<1>1. /\ call = <<>> /\ call' = <<>> /\ status = "run" /\ a # Nil /\ IsFile(t.node[a])
      /\ Sound(t) /\ Placed(t, call) /\ Framed(t, call)
  BY DEF RemoveFile, Ready, TreeInv
<1>2. \/ t' = Unlinked(Unmapped(t, p), a) /\ status' = status
      \/ t' = t /\ status' = "ub"
      \/ t' = t /\ status' = "spin"
  BY DEF RemoveFile, RemoveNode
<1>3. CASE t' = Unlinked(Unmapped(t, p), a) /\ status' = status
  <2>1. Sound(t') /\ Frames(t', call) /\ Placed(t', call)
    BY <1>1, <1>3, DroppedFacts DEF Framed
  <2> QED
    BY <1>1, <1>3, <2>1 DEF TreeInv, Framed
<1>4. CASE t' = t /\ status' \in {"ub", "spin"}
  BY <1>1, <1>4 DEF TreeInv
<1> QED
  BY <1>2, <1>3, <1>4

LEMMA EnterInv ==
  ASSUME TreeInv, NEW p, Value(t, p) # Nil, call # <<>> => IsPrefix(Last(call).p, p), Enter(p)
  PROVE  TreeInv'
<1>1. Sound(t) /\ Placed(t, call) /\ Framed(t, call)
  BY DEF TreeInv
<1>2. CASE /\ t' = Unmapped(t, p) /\ status' = status
           /\ call' = <<[p |-> p, d |-> Value(t, p), next |-> t.node[Value(t, p)].children]>> \o call
  <2>1. Sound(t') /\ Placed(t', call') /\ Framed(t', call')
    BY <1>1, <1>2, EnterFacts
  <2> QED
    BY <1>2, <2>1 DEF TreeInv
<1>3. CASE t' = t /\ call' = call /\ status' = "spin"
  BY <1>1, <1>3 DEF TreeInv
<1> QED
  BY <1>2, <1>3 DEF Enter

LEMMA RemoveDirInv ==
  ASSUME TreeInv, NEW p \in Path, RemoveDir(p)
  PROVE  TreeInv'
BY EnterInv DEF RemoveDir, Ready

\* What the loop is at, and the name removeDir makes of it.
LEMMA ChildFacts ==
  ASSUME TreeInv, InLoop, Found
  PROVE  /\ Child \in Path /\ Target \in Allocated(t) /\ Value(t, Child) = Target
         /\ IsPrefix(Last(call).p, Child) /\ Front(Child) = Head(call).p
<1>1. Sound(t) /\ call \in Seq(Frame) /\ call # <<>> /\ Frames(t, call)
  BY DEF TreeInv, InLoop, Framed, Frames
<1>2. Value(t, Child) # Nil /\ Target = Value(t, Child)
  BY DEF Found, Target
<1>3. Child \in Path /\ Value(t, Child) \in Allocated(t)
  BY <1>1, <1>2, ValueFrom DEF Sound
<1>4. Head(call) = call[1] /\ call[1] \in Frame /\ 1 \in DOMAIN call
  BY <1>1, PopFacts
<1>5. Head(call).p \in Path
  BY <1>4 DEF Frame
<1>6. Last(call).p \in Path /\ IsPrefix(Last(call).p, Head(call).p)
  <2>1. Last(call) \in Frame
    BY <1>1, PopFacts DEF Last
  <2> QED
    BY <1>1, <1>4, <2>1 DEF Frame, Frames
<1>7. /\ Front(Child) = Head(call).p
      /\ \A r \in Path : IsPrefix(r, Head(call).p) => IsPrefix(r, Child)
  BY <1>3, <1>5, JoinFacts DEF Child
<1> QED
  BY <1>2, <1>3, <1>6, <1>7

LEMMA MissInv ==
  ASSUME TreeInv, Miss
  PROVE  TreeInv'
<1>1. /\ Sound(t) /\ Placed(t, call) /\ Frames(t, call)
      /\ t' = t /\ call' = GoOn(call, t) /\ status' \in {"run", "spin"}
  BY DEF TreeInv, Miss, Framed
<1>2. /\ Framed(t, call')
      /\ \A a \in Allocated(t), p \in Path : Lies(t, call', a, p) <=> Lies(t, call, a, p)
  BY <1>1, GoneOn
<1>3. Placed(t, call')
  BY <1>1, <1>2, SamePlaced
<1> QED
  BY <1>1, <1>2, <1>3 DEF TreeInv

LEMMA DropFileInv ==
  ASSUME TreeInv, DropFile
  PROVE  TreeInv'
<1>1. /\ Sound(t) /\ Placed(t, call) /\ Framed(t, call) /\ Frames(t, call)
      /\ status = "run" /\ IsFile(t.node[Target]) /\ Value(t, Child) = Target /\ Target # Nil
  BY DEF TreeInv, DropFile, InLoop, Framed, Found, Target
<1>2. \/ /\ t' = Unlinked(Unmapped(t, Child), Target) /\ status' = status
         /\ call' = IF status' = "run" THEN GoOn(call, t') ELSE call
      \/ /\ t' = t /\ status' = "ub"
         /\ call' = IF status' = "run" THEN GoOn(call, t') ELSE call
      \/ t' = t /\ call' = call /\ status' = "spin"
  BY DEF DropFile, RemoveNode
<1>3. CASE t' = Unlinked(Unmapped(t, Child), Target) /\ status' = status /\ call' = GoOn(call, t')
  <2>1. Sound(t') /\ Frames(t', call) /\ Placed(t', call)
    BY <1>1, <1>3, DroppedFacts
  <2>2. /\ Framed(t', call')
        /\ \A a \in Allocated(t'), p \in Path : Lies(t', call', a, p) <=> Lies(t', call, a, p)
    BY <1>3, <2>1, GoneOn
  <2>3. Placed(t', call')
    BY <2>1, <2>2, SamePlaced
  <2> QED
    BY <1>1, <1>3, <2>1, <2>2, <2>3 DEF TreeInv
<1>4. CASE t' = t /\ call' = call /\ status' \in {"ub", "spin"}
  BY <1>1, <1>4 DEF TreeInv
<1> QED
  BY <1>1, <1>2, <1>3, <1>4

LEMMA DropDirInv ==
  ASSUME TreeInv, DropDir
  PROVE  TreeInv'
<1>1. InLoop /\ Found /\ Enter(Child)
  BY DEF DropDir
<1>2. Value(t, Child) # Nil /\ IsPrefix(Last(call).p, Child)
  BY <1>1, ChildFacts DEF Found, Target
<1> QED
  BY <1>1, <1>2, EnterInv


LEMMA TailFrames ==
  ASSUME NEW x, NEW c, Frames(x, c), c # <<>>
  PROVE  /\ Frames(x, Tail(c)) /\ Head(c).d \in Allocated(x) /\ \A p : Value(x, p) # Head(c).d
         /\ \A i \in DOMAIN Tail(c) : Tail(c)[i].d # Head(c).d
         /\ \A b, p : b # Head(c).d => (Lies(x, c, b, p) <=> Lies(x, Tail(c), b, p))
<1> DEFINE r == Tail(c)
           h == Head(c)
<1>1. /\ Len(c) \in Nat \ {0} /\ DOMAIN c = 1..Len(c)
      /\ h = c[1] /\ r \in Seq(Frame) /\ DOMAIN r = 1..(Len(c) - 1)
      /\ \A i \in 1..(Len(c) - 1) : r[i] = c[i + 1]
      /\ r # <<>> => Last(r) = Last(c)
  BY PopFacts DEF Frames
<1> HIDE DEF r, h
<1>2. \A i \in DOMAIN r : i + 1 \in DOMAIN c /\ i + 1 # 1 /\ r[i] = c[i + 1]
  BY <1>1
<1>3. 1 \in DOMAIN c /\ \A i \in DOMAIN c : i # 1 => i - 1 \in DOMAIN r /\ c[i] = r[i - 1]
  <2> SUFFICES ASSUME NEW i \in DOMAIN c, i # 1  PROVE i - 1 \in DOMAIN r /\ c[i] = r[i - 1]
    BY <1>1
  <2>1. i - 1 \in 1..(Len(c) - 1) /\ (i - 1) + 1 = i
    BY <1>1
  <2> QED
    BY <1>1, <2>1
<1>4. Frames(x, r)
  <2>1. ASSUME NEW i \in DOMAIN r
        PROVE  /\ r[i].d \in Allocated(x) /\ \A p : Value(x, p) # r[i].d
    BY <1>2 DEF Frames
  <2>2. ASSUME NEW i \in DOMAIN r  PROVE IsPrefix(Last(r).p, r[i].p)
    <3>1. r # <<>>
      OBVIOUS
    <3> QED
      BY <1>1, <1>2, <3>1 DEF Frames
  <2>3. ASSUME NEW i \in DOMAIN r, NEW j \in DOMAIN r, r[i].d = r[j].d  PROVE i = j
    <3>1. i + 1 = j + 1
      BY <1>2, <2>3 DEF Frames
    <3> QED
      BY <3>1, <1>1
  <2> QED
    BY <1>1, <2>1, <2>2, <2>3 DEF Frames
<1>5. h.d \in Allocated(x) /\ \A p : Value(x, p) # h.d
  BY <1>1, <1>3 DEF Frames
<1>6. \A i \in DOMAIN r : r[i].d # h.d
  BY <1>1, <1>2, <1>3 DEF Frames
<1>7. ASSUME NEW b, NEW p, b # h.d  PROVE Lies(x, c, b, p) <=> Lies(x, r, b, p)
  <2>1. ASSUME NEW i \in DOMAIN c, c[i].p = p, c[i].d = b  PROVE Lies(x, r, b, p)
    BY <1>1, <1>3, <1>7, <2>1 DEF Lies
  <2>2. ASSUME NEW i \in DOMAIN r, r[i].p = p, r[i].d = b  PROVE Lies(x, c, b, p)
    BY <1>2, <2>2 DEF Lies
  <2> QED
    BY <2>1, <2>2 DEF Lies
<1> QED
  BY <1>4, <1>5, <1>6, <1>7 DEF r, h

LEMMA LeaveInv ==
  ASSUME TreeInv, Leave
  PROVE  TreeInv'
<1> DEFINE a == Head(call).d
           r == Tail(call)
<1>1. /\ Sound(t) /\ Placed(t, call) /\ Framed(t, call) /\ Frames(t, call)
      /\ status = "run" /\ call # <<>>
  BY DEF TreeInv, Leave, Framed
<1>2. \/ /\ a # 1 /\ t' = Unlinked(t, a) /\ status' = status /\ call' = GoOn(r, t')
      \/ t' = t /\ status' = "ub" /\ call' = call
  BY <1>1 DEF Leave, RemoveNode
<1>3. CASE a # 1 /\ t' = Unlinked(t, a) /\ status' = status /\ call' = GoOn(r, t')
  <2>1. /\ Frames(t, r) /\ a \in Allocated(t) /\ \A p : Value(t, p) # a
        /\ \A i \in DOMAIN r : r[i].d # a
        /\ \A b, p : b # a => (Lies(t, call, b, p) <=> Lies(t, r, b, p))
    BY <1>1, TailFrames
  <2>2. Sound(t') /\ Frames(t', r) /\ Placed(t', r)
    <3> HIDE DEF a, r
    <3> QED
      BY <1>1, <1>3, <2>1, FreedFacts
  <2>3. /\ Framed(t', call')
        /\ \A b \in Allocated(t'), p \in Path : Lies(t', call', b, p) <=> Lies(t', r, b, p)
    BY <1>3, <2>2, GoneOn
  <2>4. Placed(t', call')
    BY <2>2, <2>3, SamePlaced
  <2> QED
    BY <1>1, <1>3, <2>2, <2>3, <2>4 DEF TreeInv
<1>4. CASE t' = t /\ call' = call /\ status' = "ub"
  BY <1>1, <1>4 DEF TreeInv
<1> QED
  BY <1>2, <1>3, <1>4

LEMMA RestartInv ==
  ASSUME TreeInv, Restart
  PROVE  TreeInv'
<1>1. /\ call = <<>> /\ call' = <<>> /\ status = "run"
      /\ Sound(t) /\ Placed(t, call) /\ Framed(t, call)
      /\ \/ t' = t /\ status' = "dead"
         \/ t' = Load(Dump(t)) /\ status' = status
  BY DEF Restart, Ready, TreeInv
<1>2. CASE t' = t /\ status' = "dead"
  BY <1>1, <1>2 DEF TreeInv
<1>3. CASE t' = Load(Dump(t)) /\ status' = status
  <2>1. Sound(t') /\ Placed(t', <<>>)
    BY <1>1, <1>3, RestoredSound
  <2>2. Framed(t', <<>>)
    BY NoFrames DEF Framed, Frames
  <2> QED
    BY <1>1, <1>3, <2>1, <2>2 DEF TreeInv
<1> QED
  BY <1>1, <1>2, <1>3

\* The tree and its table stay sound, whatever removeDir is in the middle of.
LEMMA TreeInvCorrect == Spec => []TreeInv
<1>1. Init => TreeInv
  BY InitInv
<1>2. TreeInv /\ [Next]_tvars => TreeInv'
  <2> SUFFICES ASSUME TreeInv, [Next]_tvars  PROVE TreeInv'
    OBVIOUS
  <2>1. ASSUME NEW p \in Path, RemoveFile(p)  PROVE TreeInv'
    BY <2>1, RemoveFileInv
  <2>2. ASSUME NEW p \in Path, RemoveDir(p)  PROVE TreeInv'
    BY <2>2, RemoveDirInv
  <2>3. ASSUME NEW p \in Path, NEW id \in File \cup {Nil}, AddFile(p, id)  PROVE TreeInv'
    BY <2>3, AddFileInv
  <2>4. CASE Miss
    BY <2>4, MissInv
  <2>5. CASE DropFile
    BY <2>5, DropFileInv
  <2>6. CASE DropDir
    BY <2>6, DropDirInv
  <2>7. CASE Leave
    BY <2>7, LeaveInv
  <2>8. CASE Restart
    BY <2>8, RestartInv
  <2>9. CASE UNCHANGED tvars
    BY <2>9 DEF tvars, TreeInv
  <2> QED
    BY <2>1, <2>2, <2>3, <2>4, <2>5, <2>6, <2>7, <2>8, <2>9 DEF Next, Removing
<1> QED
  BY <1>1, <1>2, PTL DEF Spec


\* Links lead to nodes in memory, are mutual, and a list hangs in one node,
\* whatever was added, removed and restored (addFile, removeNode, loadSnapshot).
THEOREM TreeTypeCorrect == Spec => []TreeTypeOK
<1>1. TreeInv => TreeTypeOK
  <2> SUFFICES ASSUME TreeInv  PROVE TreeTypeOK
    OBVIOUS
  <2>1. /\ t \in Trees /\ Pointers(t) /\ Frames(t, call)
        /\ status \in {"run", "ub", "spin", "dead"}
    BY DEF TreeInv, Sound, Framed
  <2>2. ASSUME NEW a \in Allocated(t)
        PROVE  /\ t.node[a].parent \in Addr \cup {Wild}
               /\ \A b \in {t.node[a].children, t.node[a].next, t.node[a].last} \ {Nil} :
                    b \in Allocated(t)
               /\ t.node[a].next # Nil => t.node[t.node[a].next].last = a
               /\ t.node[a].last # Nil => t.node[t.node[a].last].next = a
    BY <2>1, NodeOf DEF Pointers, Node
  <2>3. ASSUME NEW a \in Allocated(t)  PROVE Cardinality(Holds(t, a)) <= 1
    <3>1. a # Nil
      BY <2>1, NodeOf
    <3>2. \A b, c \in Holds(t, a) : b = c
      BY <2>1, <3>1 DEF Holds, Pointers
    <3>3. CASE Holds(t, a) = {}
      BY <3>3, FS_EmptySet
    <3>4. ASSUME NEW b \in Holds(t, a)  PROVE Cardinality(Holds(t, a)) <= 1
      <4>1. Holds(t, a) = {b}
        BY <3>2
      <4>2. Cardinality({b}) = 1
        BY FS_Singleton
      <4> QED
        BY <4>1, <4>2
    <3> QED
      BY <3>3, <3>4
  <2>4. ASSUME NEW f \in Range(call)  PROVE f.p \in Path /\ f.d \in Allocated(t)
    <3>1. PICK i \in DOMAIN call : f = call[i]
      BY DEF Range
    <3>2. call[i] \in Frame /\ call[i].d \in Allocated(t)
      BY <2>1 DEF Frames
    <3> QED
      BY <3>1, <3>2 DEF Frame
  <2> QED
    BY <2>1, <2>2, <2>3, <2>4 DEF TreeTypeOK
<1> QED
  BY <1>1, TreeInvCorrect, PTL

\* HashList::remove and removeDir's loop run for ever in two cases only: a path
\* is third in its chain, or a directory has a sibling added after it.
THEOREM SpinsCorrect == Spec => []SpinsOnlyFor
<1>1. Init => SpinsOnlyFor
  BY DEF Init, SpinsOnlyFor
<1>2. TreeInv /\ SpinsOnlyFor /\ [Next]_tvars => SpinsOnlyFor'
  <2> SUFFICES ASSUME TreeInv, SpinsOnlyFor, [Next]_tvars, status' = "spin"
               PROVE  SpinsOnlyFor'
    BY DEF SpinsOnlyFor
  <2>1. /\ t \in Trees /\ Tabled(t) /\ Sound(t) /\ Frames(t, call)
    BY DEF TreeInv, Sound, Framed
  <2>2. ASSUME NEW p, Value(t, p) # Nil, ~Reaches(t, p), t' = t  PROVE SpinsOnlyFor'
    BY <2>1, <2>2, ReachesAny DEF SpinsOnlyFor
  <2>3. ASSUME NEW p, Value(t, p) # Nil, Enter(p), status = "run"  PROVE SpinsOnlyFor'
    BY <2>2, <2>3 DEF Enter
  <2>4. ASSUME NEW p \in Path, RemoveFile(p)  PROVE SpinsOnlyFor'
    BY <2>2, <2>4 DEF RemoveFile, RemoveNode, Ready
  <2>5. ASSUME NEW p \in Path, RemoveDir(p)  PROVE SpinsOnlyFor'
    BY <2>3, <2>5 DEF RemoveDir, Ready
  <2>6. CASE Miss
    <3>1. /\ call # <<>> /\ Head(call).next # Nil /\ t' = t /\ call' = GoOn(call, t)
          /\ call' = call
      BY <2>6 DEF Miss, InLoop
    <3>2. Head(call').next = t.node[Head(call).d].next
      BY <2>1, <3>1, GoneOn
    <3> QED
      BY <3>1, <3>2 DEF SpinsOnlyFor
  <2>7. CASE DropFile
    <3>1. Value(t, Child) # Nil /\ status = "run"
      BY <2>7 DEF DropFile, InLoop, Found, Target
    <3>2. ~Reaches(t, Child) /\ t' = t
      BY <2>7, <3>1 DEF DropFile, RemoveNode
    <3> QED
      BY <2>2, <3>1, <3>2
  <2>8. CASE DropDir
    BY <2>3, <2>8 DEF DropDir, InLoop, Found, Target
  <2>9. CASE UNCHANGED tvars
    BY <2>9 DEF tvars, SpinsOnlyFor
  <2>10. ASSUME \/ \E p \in Path, id \in File \cup {Nil} : AddFile(p, id)
                \/ Leave \/ Restart
         PROVE  FALSE
    BY <2>10 DEF AddFile, Leave, RemoveNode, Restart, Ready
  <2> QED
    BY <2>4, <2>5, <2>6, <2>7, <2>8, <2>9, <2>10 DEF Next, Removing
<1> QED
  BY <1>1, <1>2, TreeInvCorrect, PTL DEF Spec

\* Once removeDir runs, what leaves the table lies in the directory that was
\* asked for, though its loop goes on with the directory's own siblings.
THEOREM RemoveDirCorrect == Spec => RemoveDirStays
<1>1. TreeInv /\ [Next]_tvars =>
        [call # <<>> =>
           \A p \in Path : Value(t', p) # Value(t, p) =>
                             IsPrefix(Last(call).p, p) /\ Value(t', p) = Nil]_tvars
  <2> SUFFICES ASSUME TreeInv, Next, call # <<>>, NEW p \in Path, Value(t', p) # Value(t, p)
               PROVE  IsPrefix(Last(call).p, p) /\ Value(t', p) = Nil
    OBVIOUS
  <2>1. Sound(t) /\ Placed(t, call) /\ Frames(t, call)
    BY DEF TreeInv, Framed
  <2>2. \/ Miss \/ DropFile \/ DropDir \/ Leave
    BY DEF Next, Removing, AddFile, RemoveFile, RemoveDir, Restart, Ready
  <2>3. CASE Miss
    BY <2>3 DEF Miss
  <2>4. CASE DropFile
    <3>1. InLoop /\ Found /\ Value(t, Child) # Nil /\ Target = Value(t, Child) /\ IsFile(t.node[Target])
      BY <2>4 DEF DropFile, Found, Target
    <3>2. t' = Unlinked(Unmapped(t, Child), Target) \/ t' = t
      BY <2>4 DEF DropFile, RemoveNode
    <3>3. t' = Unlinked(Unmapped(t, Child), Target)
      BY <3>2
    <3>4. \A q : Value(t', q) = IF q = Child THEN Nil ELSE Value(t, q)
      BY <2>1, <3>1, <3>3, DroppedFacts
    <3> QED
      BY <3>1, <3>4, ChildFacts
  <2>5. CASE DropDir
    <3>1. InLoop /\ Found /\ Value(t, Child) # Nil
      BY <2>5 DEF DropDir, Found, Target
    <3>2. t' = Unmapped(t, Child)
      BY <2>5 DEF DropDir, Enter
    <3>3. \A q : Value(t', q) = IF q = Child THEN Nil ELSE Value(t, q)
      BY <2>1, <3>1, <3>2, UnmappedSound
    <3> QED
      BY <3>1, <3>3, ChildFacts
  <2>6. CASE Leave
    <3>1. Head(call).d # 1 /\ t' = Unlinked(t, Head(call).d)
      BY <2>6 DEF Leave, RemoveNode
    <3>2. Head(call).d \in Allocated(t) /\ \A q : Value(t, q) # Head(call).d
      BY <2>1, TailFrames
    <3>3. \A q : Value(t', q) = Value(t, q)
      BY <2>1, <3>1, <3>2, UnlinkedSound
    <3> QED
      BY <3>3
  <2> QED
    BY <2>2, <2>3, <2>4, <2>5, <2>6
<1> QED
  BY <1>1, TreeInvCorrect, PTL DEF Spec, RemoveDirStays


-----------------------------------------------------------------------------
(* Listings.                                                               *)

LEMMA PrefixFacts ==
  ASSUME NEW p \in Path, NEW q \in Path
  PROVE  /\ Len(p) \in Nat
         /\ IsPrefix(q, p) => Len(q) <= Len(p)
         /\ IsPrefix(q, p) /\ q # p => p # Root /\ IsPrefix(q, Front(p)) /\ Len(q) < Len(p)
         /\ \A r \in Path : /\ IsPrefix(r, q) /\ IsPrefix(q, p) => IsPrefix(r, p)
                            /\ IsPrefix(r, p) /\ IsPrefix(q, p) /\ Len(r) = Len(q) => r = q
         /\ IsPrefix(Root, p)
         /\ p # Root => IsPrefix(Front(p), p)
<1>1. /\ p \in Seq(Name) /\ q \in Seq(Name) /\ Len(p) \in Nat /\ Len(q) \in Nat
      /\ IsPrefix(q, p) <=> Len(q) <= Len(p) /\ \A i \in 1..Len(q) : q[i] = p[i]
  <2>1. p \in Seq(Name) /\ q \in Seq(Name)
    BY PathParts
  <2>2. IsPrefix(q, p) <=> Len(q) <= Len(p) /\ \A i \in 1..Len(q) : q[i] = p[i]
    BY <2>1, PrefixIs
  <2> QED
    BY <2>1, <2>2
<1>2. /\ p # Root => /\ Front(p) \in Path /\ Front(p) \in Seq(Name) /\ Len(p) = Len(Front(p)) + 1
                     /\ \A i \in 1..Len(Front(p)) : Front(p)[i] = p[i]
  <2>1. p # Root => /\ Front(p) \in Path /\ Last(p) \in Name
                    /\ p = Append(Front(p), Last(p)) /\ Len(p) = Len(Front(p)) + 1
    BY PathParts
  <2>2. p # Root => Front(p) \in Seq(Name)
    BY <2>1, PathParts
  <2>3. ASSUME NEW s \in Seq(Name), NEW n \in Name  PROVE \A i \in 1..Len(s) : Append(s, n)[i] = s[i]
    OBVIOUS
  <2> QED
    BY <2>1, <2>2, <2>3
<1>3. ASSUME IsPrefix(q, p), q # p  PROVE p # Root /\ IsPrefix(q, Front(p)) /\ Len(q) < Len(p)
  <2>1. Len(q) < Len(p)
    BY <1>1, <1>3, SeqEqual
  <2>2. p # Root
    BY <1>1, <2>1 DEF Root
  <2>3. Len(q) <= Len(Front(p)) /\ \A i \in 1..Len(q) : q[i] = Front(p)[i]
    BY <1>1, <1>2, <1>3, <2>1, <2>2
  <2> QED
    BY <1>1, <1>2, <2>1, <2>2, <2>3, PrefixIs
<1>4. ASSUME NEW r \in Path
      PROVE  /\ IsPrefix(r, q) /\ IsPrefix(q, p) => IsPrefix(r, p)
             /\ IsPrefix(r, p) /\ IsPrefix(q, p) /\ Len(r) = Len(q) => r = q
  <2>1. r \in Seq(Name) /\ Len(r) \in Nat
    BY PathParts
  <2>2. /\ IsPrefix(r, p) <=> Len(r) <= Len(p) /\ \A i \in 1..Len(r) : r[i] = p[i]
        /\ IsPrefix(r, q) <=> Len(r) <= Len(q) /\ \A i \in 1..Len(r) : r[i] = q[i]
    BY <1>1, <2>1, PrefixIs
  <2>3. ASSUME IsPrefix(r, p), IsPrefix(q, p), Len(r) = Len(q)  PROVE r = q
    <3>1. \A i \in 1..Len(r) : r[i] = q[i]
      BY <1>1, <2>2, <2>3
    <3> QED
      BY <1>1, <2>1, <2>3, <3>1, SeqEqual
  <2>4. ASSUME IsPrefix(r, q), IsPrefix(q, p)  PROVE IsPrefix(r, p)
    BY <1>1, <2>1, <2>2, <2>4
  <2> QED
    BY <2>3, <2>4
<1>5. IsPrefix(Root, p)
  <2>1. Root \in Seq(Name) /\ Len(Root) = 0
    BY DEF Root
  <2>2. Len(Root) <= Len(p) /\ \A i \in 1..Len(Root) : Root[i] = p[i]
    BY <1>1, <2>1
  <2> HIDE DEF Root
  <2> QED
    BY <1>1, <2>1, <2>2, PrefixIs
<1>6. p # Root => IsPrefix(Front(p), p)
  BY <1>1, <1>2, PrefixIs
<1> QED
  BY <1>1, <1>3, <1>4, <1>5, <1>6

\* e is r, s and u.
Parts(e, r, s, u) ==
  /\ Len(e) = 1 + Len(s) + Len(u) /\ e[1] = r
  /\ DOMAIN e = 1..(1 + Len(s) + Len(u)) /\ Len(s) \in Nat /\ Len(u) \in Nat
  /\ \A i \in 1..Len(s) : e[1 + i] = s[i]
  /\ \A i \in 1..Len(u) : e[1 + Len(s) + i] = u[i]
  /\ \A i \in DOMAIN e : \/ i = 1
                         \/ \E j \in DOMAIN s : i = 1 + j /\ e[i] = s[j]
                         \/ \E j \in DOMAIN u : i = 1 + Len(s) + j /\ e[i] = u[j]

LEMMA ThreeParts ==
  ASSUME NEW S, NEW r \in S, NEW s \in Seq(S), NEW u \in Seq(S), NEW e, e = <<r>> \o s \o u
  PROVE  e \in Seq(S) /\ Parts(e, r, s, u)
<1> DEFINE v == <<r>> \o s
<1>1. /\ <<r>> \in Seq(S) /\ Len(<<r>>) = 1 /\ <<r>>[1] = r /\ Len(s) \in Nat /\ Len(u) \in Nat
      /\ DOMAIN s = 1..Len(s) /\ DOMAIN u = 1..Len(u)
  OBVIOUS
<1>2. /\ v \in Seq(S) /\ Len(v) = 1 + Len(s)
      /\ \A i \in 1..(1 + Len(s)) : v[i] = IF i <= 1 THEN <<r>>[i] ELSE s[i - 1]
  BY <1>1, ConcatProperties
<1> HIDE DEF v
<1>3. /\ e \in Seq(S) /\ Len(e) = Len(v) + Len(u)
      /\ \A i \in 1..(Len(v) + Len(u)) : e[i] = IF i <= Len(v) THEN v[i] ELSE u[i - Len(v)]
  BY <1>2, ConcatProperties DEF v
<1>4. e[1] = r /\ Len(e) = 1 + Len(s) + Len(u) /\ DOMAIN e = 1..(1 + Len(s) + Len(u))
  BY <1>1, <1>2, <1>3
<1>5. ASSUME NEW i \in 1..Len(s)  PROVE e[1 + i] = s[i]
  <2>1. 1 + i \in 1..(1 + Len(s)) /\ ~(1 + i <= 1) /\ (1 + i) - 1 = i
    BY <1>1
  <2>2. v[1 + i] = s[i]
    BY <1>2, <2>1
  <2>3. e[1 + i] = v[1 + i]
    BY <1>1, <1>2, <1>3, <2>1
  <2> QED
    BY <2>2, <2>3
<1>6. ASSUME NEW i \in 1..Len(u)  PROVE e[1 + Len(s) + i] = u[i]
  <2>1. /\ 1 + Len(s) + i \in 1..(Len(v) + Len(u)) /\ ~(1 + Len(s) + i <= Len(v))
        /\ (1 + Len(s) + i) - Len(v) = i
    BY <1>1, <1>2
  <2> QED
    BY <1>3, <2>1
<1>7. ASSUME NEW i \in DOMAIN e, i # 1
      PROVE  \/ \E j \in DOMAIN s : i = 1 + j /\ e[i] = s[j]
             \/ \E j \in DOMAIN u : i = 1 + Len(s) + j /\ e[i] = u[j]
  <2>1. CASE i <= 1 + Len(s)
    <3>1. i - 1 \in 1..Len(s) /\ i = 1 + (i - 1)
      BY <1>1, <1>4, <1>7, <2>1
    <3> QED
      BY <1>1, <1>5, <3>1
  <2>2. CASE ~(i <= 1 + Len(s))
    <3> DEFINE j == i - (1 + Len(s))
    <3>1. i \in Nat /\ i > 1 + Len(s) /\ i <= 1 + Len(s) + Len(u)
      BY <1>1, <1>4, <2>2
    <3>2. j \in 1..Len(u) /\ i = 1 + Len(s) + j
      BY <1>1, <3>1
    <3> QED
      BY <1>1, <1>6, <3>2
  <2> QED
    BY <2>1, <2>2
<1>8. \A i \in DOMAIN e : \/ i = 1
                          \/ \E j \in DOMAIN s : i = 1 + j /\ e[i] = s[j]
                          \/ \E j \in DOMAIN u : i = 1 + Len(s) + j /\ e[i] = u[j]
  BY <1>7
<1>9. Parts(e, r, s, u)
  BY <1>1, <1>4, <1>5, <1>6, <1>8 DEF Parts
<1> QED
  BY <1>3, <1>9


\* A record of what the table has, in a directory.
Shown(x, r) ==
  /\ r.p \in Path /\ r.p # Root
  /\ Value(x, r.p) \in Allocated(x) /\ x.node[Value(x, r.p)].metaID = r.id
  /\ Value(x, Front(r.p)) \in Allocated(x) /\ ~IsFile(x.node[Value(x, Front(r.p))])

\* s lists, in preorder, a part of what is in dir: first a node there, and each
\* after the one before it in the directory that it is in, or after what is in
\* that.  f is the dump: the list from a node on is longer than from the next.
Listing(x, f, s, dir) ==
  /\ s \in Seq(Record)
  /\ s # <<>> => Front(s[1].p) = dir
  /\ \A i \in DOMAIN s : Shown(x, s[i]) /\ IsPrefix(dir, s[i].p) /\ s[i].p # dir
  /\ \A i \in DOMAIN s : i + 1 \in DOMAIN s => IsPrefix(Front(s[i + 1].p), s[i].p)
  /\ \A i, j \in DOMAIN s : s[i].p = s[j].p => i = j
  /\ \A i \in DOMAIN s : \E q \in Path :
       /\ q # Root /\ Value(x, q) \in Allocated(x) /\ Front(q) = dir /\ IsPrefix(q, s[i].p)
       /\ Len(f[Value(x, q)][dir]) \in 0..Len(s)

LEMMA ListingStep ==
  ASSUME NEW x, NEW f, NEW p \in Path, p # Root, NEW r \in Record, r.p = p, Shown(x, r),
         NEW s, Listing(x, f, s, p), NEW u, Listing(x, f, u, Front(p)),
         NEW e, e = <<r>> \o s \o u, f[Value(x, p)][Front(p)] = e
  PROVE  Listing(x, f, e, Front(p))
<1> DEFINE dir == Front(p)
<1>1. /\ s \in Seq(Record) /\ u \in Seq(Record) /\ dir \in Path /\ Len(p) = Len(dir) + 1
      /\ Len(dir) \in Nat /\ Len(p) \in Nat /\ IsPrefix(dir, p) /\ IsPrefix(p, p) /\ p # dir
  BY PathParts, PrefixFacts, PrefixSelf DEF Listing
<1> HIDE DEF dir
<1>2. /\ e \in Seq(Record) /\ Len(e) = 1 + Len(s) + Len(u) /\ e[1] = r
      /\ DOMAIN e = 1..(1 + Len(s) + Len(u)) /\ Len(s) \in Nat /\ Len(u) \in Nat
      /\ \A i \in 1..Len(s) : e[1 + i] = s[i]
      /\ \A i \in 1..Len(u) : e[1 + Len(s) + i] = u[i]
      /\ \A i \in DOMAIN e : \/ i = 1
                             \/ \E j \in DOMAIN s : i = 1 + j /\ e[i] = s[j]
                             \/ \E j \in DOMAIN u : i = 1 + Len(s) + j /\ e[i] = u[j]
  <2>1. e \in Seq(Record) /\ Parts(e, r, s, u)
    BY <1>1, ThreeParts
  <2> QED
    BY <2>1 DEF Parts
<1>3. DOMAIN s = 1..Len(s) /\ DOMAIN u = 1..Len(u)
  BY <1>1
\* What is in p, and what comes after it.
<1>4. ASSUME NEW j \in DOMAIN s
      PROVE  /\ Shown(x, s[j]) /\ s[j].p \in Path /\ IsPrefix(p, s[j].p) /\ s[j].p # p
             /\ IsPrefix(dir, s[j].p) /\ s[j].p # dir
  <2>1. Shown(x, s[j]) /\ s[j].p \in Path /\ IsPrefix(p, s[j].p) /\ s[j].p # p
    BY DEF Listing, Shown
  <2>2. IsPrefix(dir, s[j].p) /\ Len(dir) < Len(s[j].p)
    BY <2>1, <1>1, PrefixFacts
  <2> QED
    BY <2>1, <2>2, <1>1
<1>5. ASSUME NEW j \in DOMAIN u
      PROVE  /\ Shown(x, u[j]) /\ u[j].p \in Path /\ IsPrefix(dir, u[j].p) /\ u[j].p # dir
             /\ ~IsPrefix(p, u[j].p)
  <2>1. Shown(x, u[j]) /\ u[j].p \in Path /\ IsPrefix(dir, u[j].p) /\ u[j].p # dir
    BY DEF Listing, Shown, dir
  <2>2. PICK q \in Path : /\ q # Root /\ Front(q) = dir /\ IsPrefix(q, u[j].p)
                          /\ Len(f[Value(x, q)][dir]) \in 0..Len(u)
    BY DEF Listing, dir
  <2>3. Len(q) = Len(dir) + 1
    BY <2>2, PathParts
  <2>4. IsPrefix(p, u[j].p) => p = q
    BY <2>1, <2>2, <2>3, <1>1, PrefixFacts
  <2>5. p # q
    BY <2>2, <1>2 DEF dir
  <2> QED
    BY <2>1, <2>4, <2>5
<1>6. ASSUME NEW i \in DOMAIN e
      PROVE  Shown(x, e[i]) /\ IsPrefix(dir, e[i].p) /\ e[i].p # dir
  BY <1>1, <1>2, <1>4, <1>5
<1>7. ASSUME NEW i \in DOMAIN e, i + 1 \in DOMAIN e
      PROVE  IsPrefix(Front(e[i + 1].p), e[i].p)
  <2>1. i + 1 # 1
    BY <1>2
  <2>2. ASSUME NEW j \in DOMAIN s, i + 1 = 1 + j, e[i + 1] = s[j]
        PROVE  IsPrefix(Front(e[i + 1].p), e[i].p)
    <3>1. CASE j = 1
      <4>1. Front(s[j].p) = p /\ i = 1
        BY <2>2, <3>1, <1>2 DEF Listing
      <4> QED
        BY <2>2, <4>1, <1>1, <1>2
    <3>2. CASE j # 1
      <4>1. j - 1 \in DOMAIN s /\ (j - 1) + 1 = j /\ i = 1 + (j - 1)
        BY <2>2, <3>2, <1>2, <1>3
      <4>2. e[i] = s[j - 1] /\ IsPrefix(Front(s[j].p), s[j - 1].p)
        BY <4>1, <1>2, <1>3 DEF Listing
      <4> QED
        BY <2>2, <4>2
    <3> QED
      BY <3>1, <3>2
  <2>3. ASSUME NEW j \in DOMAIN u, i + 1 = 1 + Len(s) + j, e[i + 1] = u[j]
        PROVE  IsPrefix(Front(e[i + 1].p), e[i].p)
    <3>1. CASE j = 1
      <4>1. Front(u[j].p) = dir
        BY <3>1 DEF Listing, dir
      <4> QED
        BY <2>3, <4>1, <1>6
    <3>2. CASE j # 1
      <4>1. j - 1 \in DOMAIN u /\ (j - 1) + 1 = j /\ i = 1 + Len(s) + (j - 1)
        <5>1. i \in Nat /\ j \in Nat /\ j >= 1 /\ j <= Len(u) /\ Len(u) \in Nat /\ Len(s) \in Nat
          BY <1>2, <1>3
        <5>2. j - 1 \in 1..Len(u) /\ (j - 1) + 1 = j
          BY <5>1, <3>2
        <5>3. i = 1 + Len(s) + (j - 1)
          BY <5>1, <2>3
        <5> QED
          BY <5>2, <5>3, <1>3
      <4>2. e[i] = u[j - 1] /\ IsPrefix(Front(u[j].p), u[j - 1].p)
        BY <4>1, <1>2, <1>3 DEF Listing
      <4> QED
        BY <2>3, <4>2
    <3> QED
      BY <3>1, <3>2
  <2> QED
    BY <2>1, <2>2, <2>3, <1>2, <1>7
<1>8. ASSUME NEW i \in DOMAIN e, NEW j \in DOMAIN e, e[i].p = e[j].p
      PROVE  i = j
  <2>1. \A k \in DOMAIN s, m \in DOMAIN s : s[k].p = s[m].p => k = m
    BY DEF Listing
  <2>2. \A k \in DOMAIN u, m \in DOMAIN u : u[k].p = u[m].p => k = m
    BY DEF Listing
  <2>3. \A k \in DOMAIN s, m \in DOMAIN u : s[k].p # u[m].p
    BY <1>4, <1>5
  <2>4. \A k \in DOMAIN s : s[k].p # p
    BY <1>4
  <2>5. \A k \in DOMAIN u : u[k].p # p
    BY <1>1, <1>5
  <2>6. CASE i = 1
    BY <2>4, <2>5, <2>6, <1>2, <1>8
  <2>7. ASSUME NEW k \in DOMAIN s, i = 1 + k, e[i] = s[k]  PROVE i = j
    BY <2>1, <2>3, <2>4, <2>7, <1>2, <1>8
  <2>8. ASSUME NEW k \in DOMAIN u, i = 1 + Len(s) + k, e[i] = u[k]  PROVE i = j
    BY <2>2, <2>3, <2>5, <2>8, <1>2, <1>8
  <2> QED
    BY <2>6, <2>7, <2>8, <1>2
<1>9. ASSUME NEW i \in DOMAIN e
      PROVE  \E q \in Path :
               /\ q # Root /\ Value(x, q) \in Allocated(x) /\ Front(q) = dir /\ IsPrefix(q, e[i].p)
               /\ Len(f[Value(x, q)][dir]) \in 0..Len(e)
  <2>1. Value(x, p) \in Allocated(x) /\ f[Value(x, p)][dir] = e /\ Len(e) <= Len(e)
    BY <1>2 DEF Shown, dir
  <2>2. CASE i = 1 \/ \E j \in DOMAIN s : e[i] = s[j]
    <3>1. IsPrefix(p, e[i].p)
      BY <2>2, <1>1, <1>2, <1>4
    <3> QED
      BY <2>1, <3>1 DEF dir
  <2>3. ASSUME NEW j \in DOMAIN u, e[i] = u[j]
        PROVE  \E q \in Path :
                 /\ q # Root /\ Value(x, q) \in Allocated(x) /\ Front(q) = dir /\ IsPrefix(q, e[i].p)
                 /\ Len(f[Value(x, q)][dir]) \in 0..Len(e)
    <3>1. PICK q \in Path : /\ q # Root /\ Value(x, q) \in Allocated(x) /\ Front(q) = dir
                            /\ IsPrefix(q, u[j].p) /\ Len(f[Value(x, q)][dir]) \in 0..Len(u)
      BY DEF Listing, dir
    <3>2. Len(f[Value(x, q)][dir]) \in 0..Len(e)
      BY <3>1, <1>2
    <3> QED
      BY <2>3, <3>1, <3>2
  <2> QED
    BY <2>2, <2>3, <1>2
<1>10. e # <<>> /\ Front(e[1].p) = dir
  BY <1>2 DEF dir
<1> QED
  BY <1>2, <1>6, <1>7, <1>8, <1>9, <1>10 DEF Listing, dir


\* A path in a directory.
Inside(x, p) ==
  /\ p \in Path /\ p # Root
  /\ Value(x, Front(p)) \in Allocated(x) /\ ~IsFile(x.node[Value(x, Front(p))])

LEMMA NoListing ==
  ASSUME NEW x, NEW f, NEW dir
  PROVE  Listing(x, f, <<>>, dir)
<1>1. DOMAIN <<>> = {} /\ <<>> \in Seq(Record)
  OBVIOUS
<1> QED
  BY <1>1 DEF Listing

\* A node's part of the dump, and its place.
Part(x, f, a, p) ==
  /\ a # 1 /\ At(x, a, Front(p)) = p
  /\ RecordOf(x, a, Front(p)) = [p |-> p, id |-> x.node[a].metaID]
  /\ [p |-> p, id |-> x.node[a].metaID] \in Record
  /\ f[a][Front(p)] = <<[p |-> p, id |-> x.node[a].metaID]>>
                      \o f[x.node[a].children][p] \o f[x.node[a].next][Front(p)]
  /\ x.node[a].children # Nil =>
       /\ x.node[a].children \in Allocated(x)
       /\ \E q \in Path : Value(x, q) = x.node[a].children /\ Inside(x, q) /\ Front(q) = p
  /\ x.node[a].next # Nil =>
       /\ x.node[a].next \in Allocated(x)
       /\ \E q \in Path : Value(x, q) = x.node[a].next /\ Inside(x, q) /\ Front(q) = Front(p)

LEMMA PartFacts ==
  ASSUME NEW x, Sound(x), Placed(x, <<>>), NEW f, Dumps(x, f),
         NEW a \in Allocated(x), NEW p \in Path, Value(x, p) = a, Inside(x, p)
  PROVE  Part(x, f, a, p)
<1> DEFINE n == x.node[a]
<1>1. \A b \in Allocated(x), q \in Path : Lies(x, <<>>, b, q) <=> Value(x, q) = b
  BY NoFrames
<1>2. a # 1 /\ n.name = Last(p) /\ p # Root
  BY <1>1 DEF Placed, Inside
<1>3. /\ \A b \in Allocated(x), q \in Path : Value(x, q) = b =>
           /\ n.children = b => Front(q) = p
           /\ n.next = b => Front(q) = Front(p)
      /\ \A b \in Allocated(x) : \E q \in Path : Value(x, q) = b
  BY <1>1 DEF Placed
<1>4. Front(p) \in Seq(Name) /\ p = Append(Front(p), Last(p))
  BY <1>2, PathParts
<1>5. At(x, a, Front(p)) = p
  BY <1>2, <1>4 DEF At
<1>6. RecordOf(x, a, Front(p)) = [p |-> p, id |-> n.metaID]
  BY <1>5 DEF RecordOf
<1>7. f[a][Front(p)] = <<[p |-> p, id |-> n.metaID]>> \o f[n.children][p] \o f[n.next][Front(p)]
  BY <1>4, <1>5, <1>6 DEF Dumps
<1>8. RecordOf(x, a, Front(p)) \in Record
  BY <1>4, AtFacts
<1>9. ASSUME n.children # Nil
      PROVE  /\ n.children \in Allocated(x)
             /\ \E q \in Path : Value(x, q) = n.children /\ Inside(x, q) /\ Front(q) = p
  <2>1. n.children \in Allocated(x) /\ n.children # 1 /\ ~IsFile(n)
    BY <1>9 DEF Sound, Pointers, Kinds
  <2>2. PICK q \in Path : Value(x, q) = n.children
    BY <2>1, <1>3
  <2>3. q # Root
    BY <1>1, <2>1, <2>2 DEF Placed
  <2> QED
    BY <1>3, <2>1, <2>2, <2>3 DEF Inside
<1>10. ASSUME n.next # Nil
       PROVE  /\ n.next \in Allocated(x)
              /\ \E q \in Path : Value(x, q) = n.next /\ Inside(x, q) /\ Front(q) = Front(p)
  <2>1. n.next \in Allocated(x) /\ n.next # 1
    BY <1>10 DEF Sound, Pointers, Kinds
  <2>2. PICK q \in Path : Value(x, q) = n.next
    BY <2>1, <1>3
  <2>3. q # Root
    BY <1>1, <2>1, <2>2 DEF Placed
  <2> QED
    BY <1>3, <2>1, <2>2, <2>3 DEF Inside
<1> QED
  BY <1>2, <1>5, <1>6, <1>7, <1>8, <1>9, <1>10 DEF Part

LEMMA PartListing ==
  ASSUME NEW x, Sound(x), Placed(x, <<>>), NEW f, Dumps(x, f)
  PROVE  \A a \in Allocated(x), p \in Path :
           Value(x, p) = a /\ Inside(x, p) => Listing(x, f, f[a][Front(p)], Front(p))
<1> DEFINE Bad(a) == \E p \in Path : /\ Value(x, p) = a /\ Inside(x, p)
                                     /\ ~Listing(x, f, f[a][Front(p)], Front(p))
           S == {a \in Allocated(x) : Bad(a)}
<1>1. ASSUME NEW a \in S
      PROVE  x.node[a].children \in S \/ x.node[a].next \in S
  <2>1. PICK p \in Path : /\ Value(x, p) = a /\ Inside(x, p)
                          /\ ~Listing(x, f, f[a][Front(p)], Front(p))
    OBVIOUS
  <2> DEFINE n == x.node[a]
             r == [p |-> p, id |-> n.metaID]
  <2>2. /\ a \in Allocated(x) /\ r \in Record /\ p # Root /\ Shown(x, r) /\ r.p = p
    <3>1. a \in Allocated(x)
      OBVIOUS
    <3>2. Part(x, f, a, p)
      BY <2>1, <3>1, PartFacts
    <3> QED
      BY <2>1, <3>1, <3>2 DEF Inside, Shown, Part
  <2>7. Part(x, f, a, p)
    BY <2>1, <2>2, PartFacts
  <2>3. f[a][Front(p)] = <<r>> \o f[n.children][p] \o f[n.next][Front(p)]
    BY <2>7 DEF Part
  <2>4. n.children \notin S => Listing(x, f, f[n.children][p], p)
    <3>1. CASE n.children = Nil
      <4>1. f[Nil][p] = <<>>
        BY PathParts DEF Dumps
      <4> QED
        BY <3>1, <4>1, NoListing
    <3>2. CASE n.children # Nil
      <4>1. PICK q \in Path : Value(x, q) = n.children /\ Inside(x, q) /\ Front(q) = p
        BY <3>2, <2>7 DEF Part
      <4>2. n.children \in Allocated(x)
        BY <3>2, <2>7 DEF Part
      <4> QED
        BY <4>1, <4>2
    <3> QED
      BY <3>1, <3>2
  <2>5. n.next \notin S => Listing(x, f, f[n.next][Front(p)], Front(p))
    <3>1. CASE n.next = Nil
      <4>1. f[Nil][Front(p)] = <<>>
        BY <2>2, PathParts DEF Dumps
      <4> QED
        BY <3>1, <4>1, NoListing
    <3>2. CASE n.next # Nil
      <4>1. PICK q \in Path : Value(x, q) = n.next /\ Inside(x, q) /\ Front(q) = Front(p)
        BY <3>2, <2>7 DEF Part
      <4>2. n.next \in Allocated(x)
        BY <3>2, <2>7 DEF Part
      <4> QED
        BY <4>1, <4>2
    <3> QED
      BY <3>1, <3>2
  <2> HIDE DEF S, n, r
  <2>6. ASSUME Listing(x, f, f[n.children][p], p), Listing(x, f, f[n.next][Front(p)], Front(p))
        PROVE  Listing(x, f, f[a][Front(p)], Front(p))
    BY <2>1, <2>2, <2>3, <2>6, ListingStep
  <2> QED
    BY <2>1, <2>4, <2>5, <2>6 DEF n
<1>2. S = {}
  <2> HIDE DEF Bad
  <2> QED
    BY <1>1 DEF Sound, Grounded
<1> QED
  BY <1>2

\* The root has its own record.
RootRecord == [p |-> Root, id |-> Nil]

LEMMA DumpListing ==
  ASSUME NEW x, Sound(x), Placed(x, <<>>), NEW f, Dumps(x, f)
  PROVE  /\ Value(x, Root) = 1 /\ RootRecord \in Record
         /\ f[x.node[1].children][Root] \in Seq(Record)
         /\ Listing(x, f, f[x.node[1].children][Root], Root)
         /\ f[1][Root] = <<RootRecord>> \o f[x.node[1].children][Root]
<1> DEFINE n == x.node[1]
           u == f[n.children][Root]
<1>1. \A b \in Allocated(x), q \in Path : Lies(x, <<>>, b, q) <=> Value(x, q) = b
  BY NoFrames
<1>2. /\ 1 \in Allocated(x) /\ n.next = Nil /\ ~IsFile(n) /\ Root \in Seq(Name) /\ Root \in Path
      /\ n.children # 1 /\ n.children \in Allocated(x) \cup {Nil}
  BY NilFacts, PathParts DEF Sound, Kinds, Pointers
<1>3. Value(x, Root) = 1
  BY <1>1, <1>2 DEF Placed
<1>4. RecordOf(x, 1, Root) = RootRecord /\ RootRecord \in Record /\ At(x, 1, Root) = Root
  BY <1>2 DEF RecordOf, At, RootRecord, IsFile, Record
<1>5. f[1][Root] = <<RootRecord>> \o u \o <<>>
  BY <1>2, <1>4 DEF Dumps
<1>6. Listing(x, f, u, Root)
  <2>1. CASE n.children = Nil
    <3>1. u = <<>>
      BY <1>2, <2>1 DEF Dumps
    <3> QED
      BY <3>1, NoListing
  <2>2. CASE n.children # Nil
    <3>1. PICK q \in Path : Value(x, q) = n.children
      BY <1>1, <1>2, <2>2 DEF Placed
    <3>2. q # Root /\ Front(q) = Root
      BY <1>1, <1>2, <1>3, <2>2, <3>1 DEF Placed
    <3>3. Inside(x, q)
      BY <1>2, <1>3, <3>2 DEF Inside
    <3>4. Listing(x, f, f[n.children][Front(q)], Front(q))
      BY <1>2, <2>2, <3>1, <3>3, PartListing
    <3> QED
      BY <3>2, <3>4
  <2> QED
    BY <2>1, <2>2
<1>7. u \in Seq(Record)
  BY <1>6 DEF Listing
<1>8. <<RootRecord>> \o u \o <<>> = <<RootRecord>> \o u
  <2> HIDE DEF u, RootRecord
  <2> QED
    BY <1>4, <1>7
<1> QED
  BY <1>3, <1>4, <1>5, <1>6, <1>7, <1>8


LEMMA RootFirst ==
  ASSUME NEW S, NEW r \in S, NEW u \in Seq(S), NEW e, e = <<r>> \o u
  PROVE  /\ e \in Seq(S) /\ e[1] = r /\ Len(e) = Len(u) + 1 /\ Len(u) \in Nat
         /\ DOMAIN e = 1..(Len(u) + 1) /\ DOMAIN u = 1..Len(u)
         /\ \A i \in DOMAIN u : e[i + 1] = u[i]
         /\ \A i \in DOMAIN e : i # 1 => i - 1 \in DOMAIN u /\ e[i] = u[i - 1]
<1>1. /\ e \in Seq(S) /\ DOMAIN e = 1..(Len(u) + 1) /\ e[1] = r
      /\ \A i \in 1..Len(u) : e[i + 1] = u[i]
  BY PushFacts
<1>2. Len(u) \in Nat /\ DOMAIN u = 1..Len(u) /\ Len(e) = Len(u) + 1
  BY <1>1
<1>3. ASSUME NEW i \in DOMAIN e, i # 1  PROVE i - 1 \in DOMAIN u /\ e[i] = u[i - 1]
  <2>1. i - 1 \in 1..Len(u) /\ (i - 1) + 1 = i
    BY <1>1, <1>2, <1>3
  <2> QED
    BY <2>1, <1>1, <1>2
<1> QED
  BY <1>1, <1>2, <1>3

\* What a dump shows, and in which order.
Dumped(x, s) ==
  /\ s \in Seq(Record) /\ s # <<>> /\ s[1] = RootRecord /\ Value(x, Root) = 1
  /\ \A i \in DOMAIN s : i # 1 => Shown(x, s[i])
  /\ \A i \in DOMAIN s : i + 1 \in DOMAIN s => IsPrefix(Front(s[i + 1].p), s[i].p)
  /\ \A i, j \in DOMAIN s : s[i].p = s[j].p => i = j

LEMMA DumpedFacts ==
  ASSUME NEW x, Sound(x), Placed(x, <<>>)
  PROVE  Dumped(x, Dump(x))
<1>1. PICK f : Dumps(x, f) /\ Dump(x) = f[1][Root]
  BY DumpUnfolds
<1> DEFINE u == f[x.node[1].children][Root]
           s == Dump(x)
<1>2. /\ Value(x, Root) = 1 /\ RootRecord \in Record /\ u \in Seq(Record)
      /\ Listing(x, f, u, Root) /\ s = <<RootRecord>> \o u
  BY <1>1, DumpListing
<1> HIDE DEF u, s
<1>3. /\ s \in Seq(Record) /\ s[1] = RootRecord /\ Len(s) = Len(u) + 1 /\ Len(u) \in Nat
      /\ DOMAIN s = 1..(Len(u) + 1) /\ DOMAIN u = 1..Len(u)
      /\ \A i \in DOMAIN u : s[i + 1] = u[i]
      /\ \A i \in DOMAIN s : i # 1 => i - 1 \in DOMAIN u /\ s[i] = u[i - 1]
  BY <1>2, RootFirst
<1>4. \A i \in DOMAIN s : i # 1 => Shown(x, s[i]) /\ s[i].p # Root
  BY <1>2, <1>3 DEF Listing
<1>5. ASSUME NEW i \in DOMAIN s, i + 1 \in DOMAIN s
      PROVE  IsPrefix(Front(s[i + 1].p), s[i].p)
  <2>1. i \in DOMAIN u /\ s[i + 1] = u[i]
    BY <1>3, <1>5
  <2>2. CASE i = 1
    <3>1. Front(u[1].p) = Root
      BY <1>2, <2>1, <2>2 DEF Listing
    <3>2. s[1].p = Root /\ Root \in Path
      BY <1>3, NilFacts DEF RootRecord
    <3> QED
      BY <2>1, <2>2, <3>1, <3>2, PrefixSelf
  <2>3. CASE i # 1
    <3>1. i - 1 \in DOMAIN u /\ s[i] = u[i - 1] /\ (i - 1) + 1 = i
      BY <1>3, <2>3
    <3>2. IsPrefix(Front(u[i].p), u[i - 1].p)
      BY <1>2, <2>1, <3>1 DEF Listing
    <3> QED
      BY <2>1, <3>1, <3>2
  <2> QED
    BY <2>2, <2>3
<1>6. ASSUME NEW i \in DOMAIN s, NEW j \in DOMAIN s, s[i].p = s[j].p
      PROVE  i = j
  <2>1. s[1].p = Root
    BY <1>3 DEF RootRecord
  <2>2. CASE i = 1 \/ j = 1
    BY <1>4, <1>6, <2>1, <2>2
  <2>3. CASE i # 1 /\ j # 1
    <3>1. i - 1 = j - 1
      BY <1>2, <1>3, <1>6, <2>3 DEF Listing
    <3>2. i \in Nat /\ j \in Nat
      BY <1>3
    <3> QED
      BY <3>1, <3>2
  <2> QED
    BY <2>2, <2>3
<1>7. s # <<>>
  BY <1>3
<1> QED
  BY <1>2, <1>3, <1>4, <1>5, <1>6, <1>7 DEF Dumped, s

\* Every name that a listing shows can be opened, under the node it is shown for,
\* and is shown once: getTotalNode's links and _fileMap agree after any calls.
THEOREM ListedCorrect == Spec => []ListedOpens
<1>1. TreeInv => ListedOpens
  <2> SUFFICES ASSUME TreeInv, Ready  PROVE ListedOpens
    BY DEF ListedOpens
  <2> DEFINE s == Dump(t)
  <2>1. Sound(t) /\ Placed(t, <<>>)
    BY DEF TreeInv, Ready
  <2>2. Dumped(t, s)
    BY <2>1, DumpedFacts
  <2> HIDE DEF s
  <2>3. ASSUME NEW i \in DOMAIN s
        PROVE  Value(t, s[i].p) # Nil /\ t.node[Value(t, s[i].p)].metaID = s[i].id
    <3>1. CASE i = 1
      <4>1. s[i] = RootRecord /\ Value(t, Root) = 1 /\ t.node[1].metaID = Nil
        BY <2>1, <2>2, <3>1 DEF Dumped, Sound, Kinds, IsFile
      <4> QED
        BY <4>1 DEF RootRecord, Nil
    <3>2. CASE i # 1
      BY <2>1, <2>2, <3>2, NodeOf DEF Dumped, Shown, Sound
    <3> QED
      BY <3>1, <3>2
  <2>4. IsInjective([i \in DOMAIN s |-> s[i].p])
    BY <2>2 DEF Dumped, IsInjective
  <2> QED
    BY <2>3, <2>4 DEF ListedOpens, s
<1> QED
  BY <1>1, TreeInvCorrect, PTL


-----------------------------------------------------------------------------
(* Loading.                                                                *)

LEMMA AppendThird ==
  ASSUME NEW S, NEW r \in S, NEW s \in Seq(S), NEW u \in Seq(S), NEW e \in S
  PROVE  <<r>> \o s \o Append(u, e) = Append(<<r>> \o s \o u, e)
OBVIOUS

LEMMA AppendSecond ==
  ASSUME NEW S, NEW r \in S, NEW s \in Seq(S), NEW e \in S
  PROVE  <<r>> \o Append(s, e) \o <<>> = Append(<<r>> \o s \o <<>>, e)
OBVIOUS

LEMMA AppendFacts ==
  ASSUME NEW S, NEW s \in Seq(S), NEW e \in S
  PROVE  /\ Append(s, e) # <<>> /\ Len(s) + 1 \in DOMAIN Append(s, e)
         /\ Append(s, e)[Len(s) + 1] = e
OBVIOUS

LEMMA OnlyOne ==
  ASSUME NEW S, NEW e \in S
  PROVE  <<e>> \o <<>> \o <<>> = <<e>> /\ Append(<<>>, e) = <<e>> /\ <<>> \in Seq(S)
OBVIOUS

LEMMA PlacedNext ==
  ASSUME NEW x, Placed(x, <<>>), NEW a \in Allocated(x), NEW b \in Allocated(x),
         NEW p \in Path, NEW q \in Path, Value(x, p) = a, Value(x, q) = b, x.node[a].next = b
  PROVE  Front(q) = Front(p)
<1>1. Lies(x, <<>>, a, p) /\ Lies(x, <<>>, b, q)
  BY NoFrames
<1> QED
  BY <1>1 DEF Placed

\* x, with dump f, grows by a node a into y, with dump g: a is at path p, of
\* directory d and after l there.  Whatever p lies in comes last in its list.
Grows(x, f, y, g, p, id, a, d, l) ==
  /\ Sound(x) /\ Placed(x, <<>>) /\ Dumps(x, f)
  /\ Sound(y) /\ Placed(y, <<>>) /\ Dumps(y, g)
  /\ Grown(x, y, a, d, l, Last(p), id)
  /\ p \in Path /\ p # Root /\ Value(x, p) = Nil /\ Value(x, Front(p)) = d
  /\ \A q : Value(y, q) = IF q = p THEN a ELSE Value(x, q)
  /\ \A q \in Path : IsPrefix(q, Front(p)) /\ Value(x, q) # Nil => x.node[Value(x, q)].next = Nil

Same(f, g, b, dir) == g[b][dir] = f[b][dir]
More(f, g, b, dir, r) == g[b][dir] = Append(f[b][dir], r)

LEMMA NewPart ==
  ASSUME NEW x, NEW f, NEW y, NEW g, NEW p, NEW id, NEW a, NEW d, NEW l,
         Grows(x, f, y, g, p, id, a, d, l), NEW r, r = [p |-> p, id |-> id]
  PROVE  /\ r \in Record /\ g[a][Front(p)] = <<r>>
         /\ \A dir \in Seq(Name) : f[Nil][dir] = <<>> /\ g[Nil][dir] = <<>>
<1>1. /\ a \in Allocated(y) /\ y.node[a].name = Last(p) /\ y.node[a].metaID = id
      /\ y.node[a].children = Nil /\ y.node[a].next = Nil /\ id \in File \cup {Nil}
  BY DEF Grows, Grown
<1>2. /\ p \in Seq(Name) /\ Front(p) \in Seq(Name) /\ p = Append(Front(p), Last(p))
  BY PathParts DEF Grows
<1>3. a # 1
  BY GrownEnd DEF Grows
<1>4. At(y, a, Front(p)) = p /\ RecordOf(y, a, Front(p)) = r
  BY <1>1, <1>2, <1>3 DEF At, RecordOf
<1>5. r \in Record
  BY <1>1, <1>2 DEF Record
<1>6. \A dir \in Seq(Name) : f[Nil][dir] = <<>> /\ g[Nil][dir] = <<>>
  BY DEF Grows, Dumps
<1>7. g[a][Front(p)] = <<r>> \o <<>> \o <<>>
  <2>1. g[a][Front(p)] = <<RecordOf(y, a, Front(p))>>
                         \o g[y.node[a].children][At(y, a, Front(p))] \o g[y.node[a].next][Front(p)]
    BY <1>1, <1>2 DEF Grows, Dumps
  <2>2. g[Nil][p] = <<>> /\ g[Nil][Front(p)] = <<>>
    BY <1>2, <1>6
  <2> QED
    BY <2>1, <2>2, <1>1, <1>4
<1>8. <<r>> \o <<>> \o <<>> = <<r>>
  BY <1>5, OnlyOne
<1> QED
  BY <1>5, <1>6, <1>7, <1>8

\* A node's part of the dump before and after.
Parted(x, f, y, g, b, q, r) ==
  /\ r \in Record /\ b # Nil /\ b \in Allocated(y) /\ Value(y, q) = b /\ Inside(y, q)
  /\ f[x.node[b].children][q] \in Seq(Record) /\ f[x.node[b].next][Front(q)] \in Seq(Record)
  /\ f[b][Front(q)] = <<r>> \o f[x.node[b].children][q] \o f[x.node[b].next][Front(q)]
  /\ g[b][Front(q)] = <<r>> \o g[y.node[b].children][q] \o g[y.node[b].next][Front(q)]

LEMMA PartedFacts ==
  ASSUME NEW x, NEW f, NEW y, NEW g, NEW p, NEW id, NEW a, NEW d, NEW l,
         Grows(x, f, y, g, p, id, a, d, l),
         NEW b \in Allocated(x), NEW q \in Path, Value(x, q) = b, Inside(x, q),
         NEW r, r = [p |-> q, id |-> x.node[b].metaID]
  PROVE  Parted(x, f, y, g, b, q, r)
<1>1. /\ Part(x, f, b, q) /\ b # Nil
  BY PartFacts, NodeOf DEF Grows, Sound
<1>2. /\ Sound(x) /\ Dumps(x, f) /\ Value(x, p) = Nil /\ Allocated(y) = Allocated(x) \cup {a}
      /\ \A c \in Allocated(x) : y.node[c].metaID = x.node[c].metaID
      /\ \A u : Value(y, u) = IF u = p THEN a ELSE Value(x, u)
      /\ Nil \notin Allocated(x)
  BY NodeOf DEF Grows, Grown, Sound
<1>3. Inside(y, q) /\ Value(y, q) = b /\ b \in Allocated(y)
  <2>1. Front(q) # p /\ Value(y, Front(q)) = Value(x, Front(q))
    BY <1>2 DEF Inside
  <2>2. q # p
    BY <1>1, <1>2
  <2> QED
    BY <1>2, <2>1, <2>2 DEF Inside, IsFile
<1>4. Part(y, g, b, q)
  BY <1>3, PartFacts DEF Grows
<1>5. /\ q \in Seq(Name) /\ Front(q) \in Seq(Name)
  BY PathParts DEF Inside
<1>6. x.node[b].children \in Allocated(x) \cup {Nil} /\ x.node[b].next \in Allocated(x) \cup {Nil}
  BY <1>2 DEF Sound, Pointers
<1>7. f[x.node[b].children][q] \in Seq(Record) /\ f[x.node[b].next][Front(q)] \in Seq(Record)
  BY <1>2, <1>5, <1>6 DEF Dumps, Lists
<1> QED
  BY <1>1, <1>2, <1>3, <1>4, <1>7 DEF Part, Parted

\* A part grows by what its own parts grow by.
LEMMA GrowsBy ==
  ASSUME NEW x, NEW f, NEW y, NEW g, NEW p, NEW id, NEW a, NEW d, NEW l,
         Grows(x, f, y, g, p, id, a, d, l), NEW e, e = [p |-> p, id |-> id],
         NEW b \in Allocated(x), NEW q \in Path, Value(x, q) = b, Inside(x, q),
         NEW c, c = x.node[b].children, NEW n, n = x.node[b].next
  PROVE  /\ More(f, g, c, q, e) => n = Nil /\ b # l
         /\ (b # d \/ l # Nil) /\ b # l =>
              /\ Same(f, g, c, q) /\ Same(f, g, n, Front(q)) => Same(f, g, b, Front(q))
              /\ Same(f, g, c, q) /\ More(f, g, n, Front(q), e) => More(f, g, b, Front(q), e)
              /\ More(f, g, c, q, e) => More(f, g, b, Front(q), e)
         /\ b = l /\ Same(f, g, c, q) => More(f, g, b, Front(q), e)
         /\ b = d /\ l = Nil => More(f, g, b, Front(q), e)
<1> DEFINE r == [p |-> q, id |-> x.node[b].metaID]
<1>1. /\ e \in Record /\ g[a][Front(p)] = <<e>>
      /\ \A dir \in Seq(Name) : f[Nil][dir] = <<>> /\ g[Nil][dir] = <<>>
  BY NewPart
<1>2. Parted(x, f, y, g, b, q, r)
  BY PartedFacts
<1> HIDE DEF r
<1>3. /\ r \in Record /\ b # Nil /\ b \in Allocated(y) /\ Value(y, q) = b /\ Inside(y, q)
      /\ f[c][q] \in Seq(Record) /\ f[n][Front(q)] \in Seq(Record)
      /\ f[b][Front(q)] = <<r>> \o f[c][q] \o f[n][Front(q)]
      /\ g[b][Front(q)] = <<r>> \o g[y.node[b].children][q] \o g[y.node[b].next][Front(q)]
  BY <1>2 DEF Parted
<1>13. r \in Record /\ e \in Record
  BY <1>1, <1>3
<1>4. /\ q \in Seq(Name) /\ Front(q) \in Seq(Name) /\ Front(q) \in Path /\ Len(q) = Len(Front(q)) + 1
      /\ p \in Path /\ Len(p) \in Nat /\ Len(q) \in Nat
      /\ Len(Front(q)) \in Nat
  BY PathParts, PrefixFacts DEF Inside, Grows
<1>5. /\ y.node[b].children = IF b = d /\ l = Nil THEN a ELSE c
      /\ y.node[b].next = IF b = l THEN a ELSE n
      /\ x.node[d].children = Nil <=> l = Nil
      /\ l # Nil => x.node[l].next = Nil /\ l \in Allocated(x)
      /\ d \in Allocated(x) /\ a \in Allocated(y)
  <2>1. \A k \in Allocated(x) : k # Nil
    BY NodeOf DEF Grows, Sound
  <2> QED
    BY <2>1 DEF Grows, Grown
\* In the list of a's directory.
<1>6. b = l => Front(q) = Front(p)
  <2> SUFFICES ASSUME b = l  PROVE Front(q) = Front(p)
    OBVIOUS
  <2>1. y.node[b].next = a
    BY <1>5
  <2>2. Value(y, p) = a /\ Placed(y, <<>>)
    BY DEF Grows
  <2>3. b \in Allocated(y) /\ a \in Allocated(y) /\ p \in Path /\ Value(y, q) = b
    BY <1>3, <1>4, <1>5
  <2> QED
    BY <2>1, <2>2, <2>3, PlacedNext
\* In what a's path lies in.
<1>7. ASSUME More(f, g, c, q, e)  PROVE n = Nil /\ b # l /\ (b # d \/ l # Nil)
  <2>1. g[c][q] # <<>> /\ Len(f[c][q]) + 1 \in DOMAIN g[c][q] /\ g[c][q][Len(f[c][q]) + 1] = e
    <3> DEFINE s == f[c][q]
    <3>1. s \in Seq(Record) /\ e \in Record /\ g[c][q] = Append(s, e)
      BY <1>1, <1>3, <1>7 DEF More
    <3> HIDE DEF s
    <3>2. Append(s, e) # <<>> /\ Len(s) + 1 \in DOMAIN Append(s, e) /\ Append(s, e)[Len(s) + 1] = e
      BY <3>1, AppendFacts
    <3> QED
      BY <3>1, <3>2 DEF s
  <2>2. c # Nil
    BY <2>1, <1>1, <1>4
  <2>3. b # d \/ l # Nil
    BY <2>2, <1>5
  <2>4. y.node[b].children = c
    BY <2>3, <1>5
  <2>5. Part(y, g, b, q)
    BY <1>3, PartFacts DEF Grows
  <2>6. PICK k \in Path : Value(y, k) = c /\ Inside(y, k) /\ Front(k) = q
    BY <2>2, <2>4, <2>5 DEF Part
  <2>7. c \in Allocated(y)
    BY <2>2, <2>4, <2>5 DEF Part
  <2>8. Listing(y, g, g[c][q], q)
    BY <2>6, <2>7, PartListing DEF Grows
  <2>9. e.p = p /\ \A i \in DOMAIN g[c][q] : IsPrefix(q, g[c][q][i].p) /\ g[c][q][i].p # q
    BY <2>8 DEF Listing
  <2>10. IsPrefix(q, p) /\ q # p
    BY <2>1, <2>9
  <2>11. IsPrefix(q, Front(p)) /\ p # Root /\ Front(p) \in Path
    BY <2>10, <1>4, PrefixFacts, PathParts
  <2>12. n = Nil
    BY <2>11, <1>3 DEF Grows
  <2>13. b # l
    <3>1. Len(q) <= Len(Front(p))
      BY <2>11, PrefixFacts
    <3> QED
      BY <3>1, <1>4, <1>6
  <2> QED
    BY <2>3, <2>12, <2>13
<1>8. ASSUME b # d \/ l # Nil, b # l, Same(f, g, c, q), Same(f, g, n, Front(q))
      PROVE  Same(f, g, b, Front(q))
  BY <1>3, <1>5, <1>8 DEF Same
<1>9. ASSUME b # d \/ l # Nil, b # l, Same(f, g, c, q), More(f, g, n, Front(q), e)
      PROVE  More(f, g, b, Front(q), e)
  <2> DEFINE s == f[c][q]
             u == f[n][Front(q)]
  <2>1. g[b][Front(q)] = <<r>> \o s \o Append(u, e)
    BY <1>3, <1>5, <1>9 DEF Same, More
  <2>2. s \in Seq(Record) /\ u \in Seq(Record) /\ f[b][Front(q)] = <<r>> \o s \o u
    BY <1>3
  <2> HIDE DEF s, u
  <2>3. <<r>> \o s \o Append(u, e) = Append(<<r>> \o s \o u, e)
    BY <2>2, <1>13, AppendThird
  <2> QED
    BY <2>1, <2>2, <2>3 DEF More
<1>10. ASSUME b # d \/ l # Nil, b # l, More(f, g, c, q, e)
       PROVE  More(f, g, b, Front(q), e)
  <2> DEFINE s == f[c][q]
  <2>1. n = Nil
    BY <1>7, <1>10
  <2>2. g[b][Front(q)] = <<r>> \o Append(s, e) \o <<>>
    BY <2>1, <1>1, <1>3, <1>4, <1>5, <1>10 DEF More
  <2>3. s \in Seq(Record) /\ f[b][Front(q)] = <<r>> \o s \o <<>>
    BY <2>1, <1>1, <1>3, <1>4
  <2> HIDE DEF s
  <2>4. <<r>> \o Append(s, e) \o <<>> = Append(<<r>> \o s \o <<>>, e)
    BY <2>3, <1>13, AppendSecond
  <2> QED
    BY <2>2, <2>3, <2>4 DEF More
<1>11. ASSUME b = l, Same(f, g, c, q)
       PROVE  More(f, g, b, Front(q), e)
  <2> DEFINE s == f[c][q]
  <2>1. l # Nil /\ n = Nil /\ y.node[b].next = a /\ y.node[b].children = c
    BY <1>3, <1>5, <1>11
  <2>2. g[b][Front(q)] = <<r>> \o s \o <<e>>
    BY <2>1, <1>1, <1>3, <1>6, <1>11 DEF Same
  <2>3. s \in Seq(Record) /\ f[b][Front(q)] = <<r>> \o s \o <<>>
    BY <2>1, <1>1, <1>3, <1>4
  <2> HIDE DEF s
  <2>4. Append(<<>>, e) = <<e>> /\ <<>> \in Seq(Record)
    BY <1>13, OnlyOne
  <2>5. <<r>> \o s \o Append(<<>>, e) = Append(<<r>> \o s \o <<>>, e)
    BY <2>3, <2>4, <1>13, AppendThird
  <2> QED
    BY <2>2, <2>3, <2>4, <2>5 DEF More
<1>12. ASSUME b = d, l = Nil
       PROVE  More(f, g, b, Front(q), e)
  <2>1. c = Nil /\ y.node[b].next = n /\ y.node[b].children = a
    BY <1>3, <1>5, <1>12
  <2>2. q = Front(p)
    <3>1. Value(x, Front(p)) = b /\ Value(x, q) = b /\ Front(p) \in Path
      BY <1>12, PathParts DEF Grows
    <3> QED
      BY <3>1, <1>3 DEF Grows, Sound, OneName
  <2>3. n = Nil
    BY <2>2, <1>3, <1>4, PrefixSelf DEF Grows
  <2>4. g[b][Front(q)] = <<r>> \o <<e>> \o <<>> /\ f[b][Front(q)] = <<r>> \o <<>> \o <<>>
    BY <2>1, <2>2, <2>3, <1>1, <1>3, <1>4
  <2>5. Append(<<>>, e) = <<e>> /\ <<>> \in Seq(Record)
    BY <1>13, OnlyOne
  <2>6. <<r>> \o Append(<<>>, e) \o <<>> = Append(<<r>> \o <<>> \o <<>>, e)
    BY <2>5, <1>13, AppendSecond
  <2> QED
    BY <2>4, <2>5, <2>6 DEF More
<1> QED
  BY <1>7, <1>8, <1>9, <1>10, <1>11, <1>12


\* What hangs in a node, and comes next, is inside what the node is.
LEMMA InsideFacts ==
  ASSUME NEW x, Sound(x), Placed(x, <<>>), NEW b \in Allocated(x), NEW c \in Allocated(x),
         NEW p \in Path, Value(x, p) = b
  PROVE  /\ x.node[b].children = c =>
              \E q \in Path : Value(x, q) = c /\ Inside(x, q) /\ Front(q) = p
         /\ x.node[b].next = c /\ Inside(x, p) =>
              \E q \in Path : Value(x, q) = c /\ Inside(x, q) /\ Front(q) = Front(p)
<1>1. \A k \in Allocated(x), q \in Path : Lies(x, <<>>, k, q) <=> Value(x, q) = k
  BY NoFrames
<1>2. PICK q \in Path : Value(x, q) = c
  BY <1>1 DEF Placed
<1>3. /\ x.node[b].children = c => Front(q) = p
      /\ x.node[b].next = c => Front(q) = Front(p)
      /\ c # 1 => q # Root
  BY <1>1, <1>2 DEF Placed
<1>4. x.node[b].children # 1 /\ x.node[b].next # 1 /\ c # Nil
  BY NodeOf DEF Sound, Kinds
<1>5. x.node[b].children = c => ~IsFile(x.node[b])
  BY <1>4 DEF Sound, Kinds
<1>6. x.node[b].children = c => Inside(x, q)
  BY <1>3, <1>4, <1>5 DEF Inside
<1>7. x.node[b].next = c /\ Inside(x, p) => Inside(x, q)
  BY <1>3, <1>4 DEF Inside
<1> QED
  BY <1>2, <1>3, <1>6, <1>7

LEMMA GrowsOrSame ==
  ASSUME NEW x, NEW f, NEW y, NEW g, NEW p, NEW id, NEW a, NEW d, NEW l,
         Grows(x, f, y, g, p, id, a, d, l), NEW e, e = [p |-> p, id |-> id]
  PROVE  \A b \in Allocated(x), q \in Path : Value(x, q) = b /\ Inside(x, q) =>
           Same(f, g, b, Front(q)) \/ More(f, g, b, Front(q), e)
<1> DEFINE Bad(b, q) == /\ Value(x, q) = b /\ Inside(x, q)
                        /\ ~Same(f, g, b, Front(q)) /\ ~More(f, g, b, Front(q), e)
           S == {b \in Allocated(x) : \E q \in Path : Bad(b, q)}
<1>1. ASSUME NEW b \in S
      PROVE  x.node[b].children \in S \/ x.node[b].next \in S
  <2> DEFINE c == x.node[b].children
             n == x.node[b].next
  <2>1. b \in Allocated(x)
    OBVIOUS
  <2>2. PICK q \in Path : Bad(b, q)
    OBVIOUS
  <2>3. /\ q \in Seq(Name) /\ Front(q) \in Seq(Name)
        /\ \A dir \in Seq(Name) : Same(f, g, Nil, dir)
    BY <2>2, NewPart, PathParts DEF Same, Inside
  <2>4. c \in Allocated(x) \cup {Nil} /\ n \in Allocated(x) \cup {Nil}
    BY <2>1 DEF Grows, Sound, Pointers
  <2>5. c \notin S => Same(f, g, c, q) \/ More(f, g, c, q, e)
    <3>1. CASE c = Nil
      BY <3>1, <2>3
    <3>2. CASE c \in Allocated(x)
      <4>1. PICK k \in Path : Value(x, k) = c /\ Inside(x, k) /\ Front(k) = q
        BY <2>1, <2>2, <3>2, InsideFacts DEF Grows
      <4> QED
        BY <4>1, <3>2
    <3> QED
      BY <2>4, <3>1, <3>2
  <2>6. n \notin S => Same(f, g, n, Front(q)) \/ More(f, g, n, Front(q), e)
    <3>1. CASE n = Nil
      BY <3>1, <2>3
    <3>2. CASE n \in Allocated(x)
      <4>1. PICK k \in Path : Value(x, k) = n /\ Inside(x, k) /\ Front(k) = Front(q)
        BY <2>1, <2>2, <3>2, InsideFacts DEF Grows
      <4> QED
        BY <4>1, <3>2
    <3> QED
      BY <2>4, <3>1, <3>2
  <2> HIDE DEF S
  <2>7. /\ More(f, g, c, q, e) => n = Nil /\ b # l
        /\ (b # d \/ l # Nil) /\ b # l =>
             /\ Same(f, g, c, q) /\ Same(f, g, n, Front(q)) => Same(f, g, b, Front(q))
             /\ Same(f, g, c, q) /\ More(f, g, n, Front(q), e) => More(f, g, b, Front(q), e)
             /\ More(f, g, c, q, e) => More(f, g, b, Front(q), e)
        /\ b = l /\ Same(f, g, c, q) => More(f, g, b, Front(q), e)
        /\ b = d /\ l = Nil => More(f, g, b, Front(q), e)
    BY <2>1, <2>2, GrowsBy
  <2> QED
    BY <2>2, <2>5, <2>6, <2>7
<1>2. S = {}
  <2> HIDE DEF Bad
  <2> QED
    BY <1>1 DEF Grows, Sound, Grounded
<1> QED
  BY <1>2

\* How a part grows, by the part c of what hangs in b and the next one, n.
PartGrown(x, f, g, b, q, d, l, e) ==
  LET c == x.node[b].children
      n == x.node[b].next IN
  /\ Same(f, g, c, q) \/ More(f, g, c, q, e)
  /\ More(f, g, c, q, e) => n = Nil /\ b # l
  /\ (b # d \/ l # Nil) /\ b # l =>
       /\ Same(f, g, c, q) /\ More(f, g, n, Front(q), e) => More(f, g, b, Front(q), e)
       /\ More(f, g, c, q, e) => More(f, g, b, Front(q), e)
  /\ b = l /\ Same(f, g, c, q) => More(f, g, b, Front(q), e)
  /\ b = d /\ l = Nil => More(f, g, b, Front(q), e)

LEMMA PartGrows ==
  ASSUME NEW x, NEW f, NEW y, NEW g, NEW p, NEW id, NEW a, NEW d, NEW l,
         Grows(x, f, y, g, p, id, a, d, l), NEW e, e = [p |-> p, id |-> id],
         NEW b \in Allocated(x), NEW q \in Path, Value(x, q) = b, Inside(x, q)
  PROVE  PartGrown(x, f, g, b, q, d, l, e)
<1> DEFINE c == x.node[b].children
           n == x.node[b].next
<1>1. /\ More(f, g, c, q, e) => n = Nil /\ b # l
      /\ (b # d \/ l # Nil) /\ b # l =>
           /\ Same(f, g, c, q) /\ Same(f, g, n, Front(q)) => Same(f, g, b, Front(q))
           /\ Same(f, g, c, q) /\ More(f, g, n, Front(q), e) => More(f, g, b, Front(q), e)
           /\ More(f, g, c, q, e) => More(f, g, b, Front(q), e)
      /\ b = l /\ Same(f, g, c, q) => More(f, g, b, Front(q), e)
      /\ b = d /\ l = Nil => More(f, g, b, Front(q), e)
  BY GrowsBy
<1>2. Same(f, g, c, q) \/ More(f, g, c, q, e)
  <2>1. c \in Allocated(x) \cup {Nil} /\ q \in Seq(Name)
    BY PathParts DEF Grows, Sound, Pointers
  <2>2. CASE c = Nil
    BY <2>1, <2>2, NewPart DEF Same
  <2>3. CASE c \in Allocated(x)
    <3>1. PICK m \in Path : Value(x, m) = c /\ Inside(x, m) /\ Front(m) = q
      BY <2>3, InsideFacts DEF Grows
    <3>2. Same(f, g, c, Front(m)) \/ More(f, g, c, Front(m), e)
      BY <3>1, <2>3, GrowsOrSame
    <3> QED
      BY <3>1, <3>2
  <2> QED
    BY <2>1, <2>2, <2>3
<1> QED
  BY <1>1, <1>2 DEF PartGrown

\* The list that a hangs at the end of.
LEMMA FirstGrows ==
  ASSUME NEW x, NEW f, NEW y, NEW g, NEW p, NEW id, NEW a, NEW d, NEW l,
         Grows(x, f, y, g, p, id, a, d, l), NEW e, e = [p |-> p, id |-> id],
         x.node[d].children # Nil
  PROVE  More(f, g, x.node[d].children, Front(p), e)
<1> DEFINE Bad(b, q) == /\ Value(x, q) = b /\ Inside(x, q) /\ Front(q) = Front(p)
                        /\ ~More(f, g, b, Front(p), e)
           S == {b \in Allocated(x) : \E q \in Path : Bad(b, q)}
           first == x.node[d].children
<1>1. /\ d \in Allocated(x) /\ first \in Allocated(x) /\ Front(p) \in Path /\ Value(x, Front(p)) = d
      /\ l \in Allocated(x) /\ x.node[l].next = Nil
      /\ \A T \in SUBSET Allocated(x) :
           /\ first \in T
           /\ \A b \in T : x.node[b].next # Nil => x.node[b].next \in T
           => l \in T
  <2>1. d \in Allocated(x) /\ Front(p) \in Path /\ Value(x, Front(p)) = d
    BY PathParts DEF Grows, Grown
  <2>2. first \in Allocated(x)
    BY <2>1 DEF Grows, Sound, Pointers
  <2> QED
    BY <2>1, <2>2 DEF Grows, Grown
<1>2. PICK k \in Path : Value(x, k) = first /\ Inside(x, k) /\ Front(k) = Front(p)
  BY <1>1, InsideFacts DEF Grows
<1>3. ASSUME NEW b \in Allocated(x), NEW q \in Path, Value(x, q) = b, Inside(x, q)
      PROVE  PartGrown(x, f, g, b, q, d, l, e)
  BY <1>3, PartGrows
<1>4. ASSUME NEW b \in S, x.node[b].next # Nil
      PROVE  x.node[b].next \in S
  <2> DEFINE n == x.node[b].next
  <2>1. b \in Allocated(x) /\ n \in Allocated(x)
    BY <1>4 DEF Grows, Sound, Pointers
  <2>2. PICK q \in Path : Bad(b, q)
    OBVIOUS
  <2>3. PICK m \in Path : Value(x, m) = n /\ Inside(x, m) /\ Front(m) = Front(q)
    BY <2>1, <2>2, InsideFacts DEF Grows
  <2>4. b # l /\ l # Nil
    BY <1>1, <1>4, NodeOf DEF Grows, Sound
  <2>5. ~More(f, g, n, Front(p), e)
    BY <1>3, <1>4, <2>1, <2>2, <2>4 DEF PartGrown
  <2> QED
    BY <2>1, <2>2, <2>3, <2>5
<1>5. ASSUME first \in S  PROVE FALSE
  <2>1. l \in S
    <3> HIDE DEF Bad, first
    <3> QED
      BY <1>1, <1>4, <1>5
  <2>2. PICK q \in Path : Bad(l, q)
    BY <2>1
  <2> QED
    BY <1>1, <1>3, <2>2 DEF PartGrown
<1> QED
  BY <1>1, <1>2, <1>5


\* The part that lists what a is in.
LEMMA ListedGrows ==
  ASSUME NEW x, NEW f, NEW y, NEW g, NEW p, NEW id, NEW a, NEW d, NEW l,
         Grows(x, f, y, g, p, id, a, d, l), NEW e, e = [p |-> p, id |-> id]
  PROVE  \A b \in Allocated(x), q \in Path :
           /\ Value(x, q) = b /\ Inside(x, q)
           /\ \E i \in DOMAIN f[b][Front(q)] : f[b][Front(q)][i].p = Front(p)
           => More(f, g, b, Front(q), e)
<1> DEFINE Lists1(b, dir) == \E i \in DOMAIN f[b][dir] : f[b][dir][i].p = Front(p)
           Bad(b, q) == /\ Value(x, q) = b /\ Inside(x, q) /\ Lists1(b, Front(q))
                        /\ ~More(f, g, b, Front(q), e)
           S == {b \in Allocated(x) : \E q \in Path : Bad(b, q)}
<1>1. ASSUME NEW b \in S
      PROVE  x.node[b].children \in S \/ x.node[b].next \in S
  <2> DEFINE c == x.node[b].children
             n == x.node[b].next
  <2>1. b \in Allocated(x)
    OBVIOUS
  <2>2. PICK q \in Path : Bad(b, q)
    OBVIOUS
  <2>3. /\ q \in Seq(Name) /\ Front(q) \in Seq(Name)
        /\ \A dir \in Seq(Name) : ~Lists1(Nil, dir)
    <3>1. \A dir \in Seq(Name) : f[Nil][dir] = <<>>
      BY NewPart
    <3> QED
      BY <2>2, <3>1, PathParts DEF Inside
  <2>4. c \in Allocated(x) \cup {Nil} /\ n \in Allocated(x) \cup {Nil}
    BY <2>1 DEF Grows, Sound, Pointers
  <2>5. PartGrown(x, f, g, b, q, d, l, e)
    BY <2>1, <2>2, PartGrows
  <2>6. c \notin S /\ Lists1(c, q) => More(f, g, c, q, e)
    <3> SUFFICES ASSUME c \notin S, Lists1(c, q)  PROVE More(f, g, c, q, e)
      OBVIOUS
    <3>1. c \in Allocated(x)
      BY <2>3, <2>4
    <3>2. PICK k \in Path : Value(x, k) = c /\ Inside(x, k) /\ Front(k) = q
      BY <2>1, <2>2, <3>1, InsideFacts DEF Grows
    <3> QED
      BY <3>1, <3>2
  <2>7. n \notin S /\ Lists1(n, Front(q)) => More(f, g, n, Front(q), e) /\ n # Nil
    <3> SUFFICES ASSUME n \notin S, Lists1(n, Front(q))
                 PROVE  More(f, g, n, Front(q), e) /\ n # Nil
      OBVIOUS
    <3>1. n \in Allocated(x) /\ n # Nil
      BY <2>3, <2>4
    <3>2. PICK k \in Path : Value(x, k) = n /\ Inside(x, k) /\ Front(k) = Front(q)
      BY <2>1, <2>2, <3>1, InsideFacts DEF Grows
    <3> QED
      BY <3>1, <3>2
  <2>8. q = Front(p) \/ Lists1(c, q) \/ Lists1(n, Front(q))
    <3> DEFINE r == [p |-> q, id |-> x.node[b].metaID]
               s == f[c][q]
               u == f[n][Front(q)]
               w == f[b][Front(q)]
    <3>1. Parted(x, f, y, g, b, q, r)
      BY <2>1, <2>2, PartedFacts
    <3>2. r \in Record /\ s \in Seq(Record) /\ u \in Seq(Record) /\ w = <<r>> \o s \o u
      BY <3>1 DEF Parted
    <3>3. PICK i \in DOMAIN w : w[i].p = Front(p)
      BY <2>2
    <3>4. r.p = q
      OBVIOUS
    <3> HIDE DEF r, s, u, w
    <3>5. Parts(w, r, s, u)
      BY <3>2, ThreeParts
    <3>6. \/ i = 1 /\ w[1] = r
          \/ \E j \in DOMAIN s : w[i] = s[j]
          \/ \E j \in DOMAIN u : w[i] = u[j]
      BY <3>5 DEF Parts
    <3>7. \/ r.p = Front(p)
          \/ \E j \in DOMAIN s : s[j].p = Front(p)
          \/ \E j \in DOMAIN u : u[j].p = Front(p)
      BY <3>3, <3>6
    <3> QED
      BY <3>4, <3>7 DEF s, u
  <2>9. q = Front(p) => b = d /\ (l # Nil => More(f, g, c, q, e))
    <3> SUFFICES ASSUME q = Front(p)  PROVE b = d /\ (l # Nil => More(f, g, c, q, e))
      OBVIOUS
    <3>1. b = d
      BY <2>2 DEF Grows
    <3>2. l # Nil => c # Nil
      BY <3>1 DEF Grows, Grown
    <3>3. c # Nil => More(f, g, c, q, e)
      BY <3>1, FirstGrows
    <3> QED
      BY <3>1, <3>2, <3>3
  <2>10. n # Nil => b # l
    <3> SUFFICES ASSUME b = l, n # Nil  PROVE FALSE
      OBVIOUS
    <3>1. l # Nil
      BY <2>1, NodeOf DEF Grows, Sound
    <3> QED
      BY <3>1 DEF Grows, Grown
  <2> HIDE DEF S
  <2>11. ~More(f, g, b, Front(q), e)
    BY <2>2
  <2> HIDE DEF Lists1
  <2> QED
    BY <2>5, <2>6, <2>7, <2>8, <2>9, <2>10, <2>11 DEF PartGrown
<1>2. S = {}
  <2> HIDE DEF Bad
  <2> QED
    BY <1>1 DEF Grows, Sound, Grounded
<1> QED
  BY <1>2

\* The dump grows at its end.
LEMMA DumpGrows ==
  ASSUME NEW x, NEW f, NEW y, NEW g, NEW p, NEW id, NEW a, NEW d, NEW l,
         Grows(x, f, y, g, p, id, a, d, l), NEW e, e = [p |-> p, id |-> id],
         NEW i \in DOMAIN f[1][Root], f[1][Root][i].p = Front(p)
  PROVE  g[1][Root] = Append(f[1][Root], e)
<1> DEFINE c == x.node[1].children
           u == f[c][Root]
           r == RootRecord
<1>1. /\ Value(x, Root) = 1 /\ r \in Record /\ u \in Seq(Record) /\ r.p = Root
      /\ f[1][Root] = <<r>> \o u
  BY DumpListing DEF Grows, RootRecord
<1>2. g[1][Root] = <<r>> \o g[y.node[1].children][Root]
  BY DumpListing DEF Grows
<1>3. /\ e \in Record /\ g[a][Front(p)] = <<e>> /\ Root \in Seq(Name)
      /\ \A dir \in Seq(Name) : f[Nil][dir] = <<>> /\ g[Nil][dir] = <<>>
  BY NewPart, NilFacts, PathParts
<1>4. /\ 1 \in Allocated(x) /\ c \in Allocated(x) \cup {Nil}
      /\ y.node[1].children = IF 1 = d /\ l = Nil THEN a ELSE c
      /\ x.node[d].children = Nil <=> l = Nil
  <2>1. 1 \in Allocated(x) /\ c \in Allocated(x) \cup {Nil}
    BY DEF Grows, Sound, Kinds, Pointers
  <2>2. \A b \in Allocated(x) : b # Nil
    BY NodeOf DEF Grows, Sound
  <2> QED
    BY <2>1, <2>2 DEF Grows, Grown
<1> HIDE DEF r, u
<1>5. /\ f[1][Root][1] = r
      /\ i # 1 => i - 1 \in DOMAIN u /\ f[1][Root][i] = u[i - 1]
  BY <1>1, RootFirst
<1>6. CASE Front(p) = Root /\ l = Nil
  <2>1. d = 1
    BY <1>1, <1>6 DEF Grows
  <2>2. u = <<>> /\ g[1][Root] = <<r>> \o <<e>>
    BY <2>1, <1>2, <1>3, <1>4, <1>6 DEF u
  <2>3. <<r>> \o <<e>> = Append(<<r>> \o <<>>, e)
    BY <1>1, <1>3
  <2> QED
    BY <2>2, <2>3, <1>1
<1>7. CASE ~(Front(p) = Root /\ l = Nil)
  <2>1. More(f, g, c, Root, e) /\ y.node[1].children = c
    <3>1. CASE Front(p) = Root
      <4>1. d = 1 /\ c # Nil
        BY <1>1, <1>4, <1>7, <3>1 DEF Grows
      <4> QED
        BY <4>1, <3>1, <1>4, <1>7, FirstGrows
    <3>2. CASE Front(p) # Root
      <4>1. i # 1 /\ u[i - 1].p = Front(p) /\ i - 1 \in DOMAIN u
        BY <1>1, <1>5, <3>2
      <4>2. c # Nil
        BY <4>1, <1>3 DEF u
      <4>3. c \in Allocated(x) /\ Root \in Path
        BY <4>2, <1>4, NilFacts
      <4>4. PICK k \in Path : Value(x, k) = c /\ Inside(x, k) /\ Front(k) = Root
        BY <4>3, <1>1, <1>4, InsideFacts DEF Grows
      <4>5. \E j \in DOMAIN f[c][Front(k)] : f[c][Front(k)][j].p = Front(p)
        BY <4>1, <4>4 DEF u
      <4>6. More(f, g, c, Front(k), e)
        BY <4>3, <4>4, <4>5, ListedGrows
      <4>7. d # 1 \/ l # Nil
        BY <1>4, <4>2
      <4> QED
        BY <4>4, <4>6, <4>7, <1>4
    <3> QED
      BY <3>1, <3>2
  <2>2. g[1][Root] = <<r>> \o Append(u, e)
    BY <2>1, <1>2 DEF More, u
  <2>3. <<r>> \o Append(u, e) = Append(<<r>> \o u, e)
    BY <1>1, <1>3
  <2> QED
    BY <2>2, <2>3, <1>1
<1> QED
  BY <1>6, <1>7


\* y is loaded with the first n records of s.
Loaded(s, y, n) ==
  /\ Sound(y) /\ Placed(y, <<>>)
  /\ Len(Dump(y)) = n /\ \A i \in 1..n : Dump(y)[i] = s[i]
  /\ \A q \in Path : Value(y, q) # Nil => \E i \in 1..n : s[i].p = q
  /\ \A q \in Path : IsPrefix(q, s[n].p) =>
       Value(y, q) # Nil /\ y.node[Value(y, q)].next = Nil

LEMMA LoadedFirst ==
  ASSUME NEW s, s[1] = RootRecord
  PROVE  Loaded(s, Empty, 1)
<1>1. /\ Sound(Empty) /\ Placed(Empty, <<>>)
      /\ Allocated(Empty) = {1} /\ Value(Empty, Root) = 1 /\ Root \in Path
  BY EmptySound, NilFacts
<1>2. PICK f : Dumps(Empty, f) /\ Dump(Empty) = f[1][Root]
  BY <1>1, DumpUnfolds
<1>3. /\ f[1][Root] = <<RootRecord>> \o f[Empty.node[1].children][Root]
      /\ RootRecord \in Record
  BY <1>1, <1>2, DumpListing
<1>4. /\ Empty.node[1].next = Nil
      /\ Empty.node[1].children = Nil
  <2>1. Empty.node[1].children \in Allocated(Empty) \cup {Nil} /\ Empty.node[1].children # 1
    BY <1>1 DEF Sound, Pointers, Kinds
  <2> QED
    BY <1>1, <2>1 DEF Sound, Kinds
<1>5. Dump(Empty) = <<RootRecord>>
  <2>1. f[Nil][Root] = <<>>
    BY <1>1, <1>2, PathParts DEF Dumps
  <2>2. <<RootRecord>> \o <<>> = <<RootRecord>>
    OBVIOUS
  <2> QED
    BY <1>2, <1>3, <1>4, <2>1, <2>2
<1>6. \A q \in Path : Value(Empty, q) # Nil => q = Root
  BY <1>1, ValueFrom DEF Sound, OneName
<1>7. \A q \in Path : IsPrefix(q, Root) => q = Root
  BY <1>1, PrefixFacts
<1>8. Len(Dump(Empty)) = 1 /\ Dump(Empty)[1] = s[1] /\ s[1].p = Root /\ 1 \in 1..1
  BY <1>5 DEF RootRecord
<1>9. \A i \in 1..1 : Dump(Empty)[i] = s[i]
  BY <1>8
<1> QED
  BY <1>1, <1>4, <1>6, <1>7, <1>8, <1>9 DEF Loaded, Nil

\* There is room for what the nodes of x were room for.
LEMMA LoadedRoom ==
  ASSUME NEW x, Sound(x), NEW s, Dumped(x, s), NEW y, NEW n \in Nat \ {0}, n + 1 \in DOMAIN s,
         Loaded(s, y, n)
  PROVE  Allocated(y) # Addr
<1> SUFFICES ASSUME Allocated(y) = Addr  PROVE FALSE
  OBVIOUS
<1> DEFINE F == [i \in 1..n |-> Value(y, s[i].p)]
           G == [i \in 1..(n + 1) |-> Value(x, s[i].p)]
<1>1. s \in Seq(Record) /\ DOMAIN s = 1..Len(s) /\ Len(s) \in Nat /\ 1..(n + 1) \subseteq DOMAIN s
      /\ 1..n \subseteq DOMAIN s
  BY DEF Dumped
<1>2. \A i \in DOMAIN s : s[i].p \in Path /\ Value(x, s[i].p) \in Allocated(x)
  BY NilFacts DEF Dumped, Shown, RootRecord, Sound, Kinds
<1>3. \A i \in 1..n : F[i] \in Addr
  <2> SUFFICES ASSUME NEW i \in 1..n  PROVE Value(y, s[i].p) \in Addr
    OBVIOUS
  <2>1. Len(Dump(y)) = n /\ Dump(y)[i] = s[i] /\ Sound(y) /\ Dumped(y, Dump(y))
    BY DumpedFacts DEF Loaded
  <2>2. i \in DOMAIN Dump(y)
    BY <2>1 DEF Dumped
  <2>3. Value(y, s[i].p) \in Allocated(y)
    BY <2>1, <2>2 DEF Dumped, Shown, RootRecord, Sound, Kinds
  <2> QED
    BY <2>3
<1>4. \A a \in Addr : \E i \in 1..n : F[i] = a
  <2> SUFFICES ASSUME NEW a \in Addr  PROVE \E i \in 1..n : Value(y, s[i].p) = a
    OBVIOUS
  <2>1. PICK q \in Path : Value(y, q) = a
    BY NoFrames DEF Loaded, Placed
  <2>2. a # Nil
    BY NilFacts
  <2>3. PICK i \in 1..n : s[i].p = q
    BY <2>1, <2>2 DEF Loaded
  <2> QED
    BY <2>1, <2>3
<1>5. F \in Surjection(1..n, Addr)
  <2>1. F \in [1..n -> Addr]
    BY <1>3
  <2> HIDE DEF F
  <2> QED
    BY <2>1, <1>4 DEF Surjection
<1>6. G \in Injection(1..(n + 1), Addr)
  <2>1. G \in [1..(n + 1) -> Addr]
    BY <1>1, <1>2 DEF Allocated
  <2>2. ASSUME NEW i \in 1..(n + 1), NEW j \in 1..(n + 1), G[i] = G[j]  PROVE i = j
    <3>1. /\ i \in DOMAIN s /\ j \in DOMAIN s
          /\ Value(x, s[i].p) = Value(x, s[j].p) /\ Value(x, s[i].p) # Nil
      BY <2>2, <1>1, <1>2, NodeOf DEF Sound
    <3>2. s[i].p = s[j].p
      BY <3>1, <1>2 DEF Sound, OneName
    <3> QED
      BY <3>1, <3>2 DEF Dumped
  <2>3. DOMAIN G = 1..(n + 1)
    OBVIOUS
  <2> HIDE DEF G
  <2> QED
    BY <2>1, <2>2, <2>3 DEF Injection, IsInjective
<1>7. IsFiniteSet(1..n) /\ Cardinality(1..n) = n
  BY FS_Interval
<1>8. Cardinality(1..(n + 1)) = n + 1
  <2>1. n + 1 \in Int /\ 1 \in Int /\ ~(1 > n + 1)
    OBVIOUS
  <2>2. Cardinality(1..(n + 1)) = (n + 1) - 1 + 1
    BY <2>1, FS_Interval
  <2> QED
    BY <2>2
<1> HIDE DEF F, G
<1>9. IsFiniteSet(Addr) /\ Cardinality(Addr) <= n
  BY <1>5, <1>7, FS_Surjection
<1>10. n + 1 <= Cardinality(Addr)
  BY <1>6, <1>8, <1>9, FS_Injection
<1>11. Cardinality(Addr) \in Nat
  BY <1>9, FS_CardinalityType
<1> QED
  BY <1>9, <1>10, <1>11

LEMMA LoadedFits ==
  ASSUME NEW x, Sound(x), NEW s, Dumped(x, s), NEW y, NEW n \in Nat \ {0}, n + 1 \in DOMAIN s,
         Loaded(s, y, n)
  PROVE  /\ Fits(y, s[n + 1].p)
         /\ \E i \in 1..n : s[i].p = Front(s[n + 1].p)
<1> DEFINE p == s[n + 1].p
<1>1. /\ s \in Seq(Record) /\ DOMAIN s = 1..Len(s) /\ Len(s) \in Nat /\ n \in DOMAIN s /\ n + 1 # 1
      /\ 1..n \subseteq DOMAIN s
  BY DEF Dumped
<1>2. /\ p \in Path /\ p # Root /\ Front(p) \in Path
      /\ Value(x, Front(p)) \in Allocated(x) /\ ~IsFile(x.node[Value(x, Front(p))])
      /\ IsPrefix(Front(p), s[n].p)
  BY <1>1, PathParts DEF Dumped, Shown
<1>3. Value(y, p) = Nil
  <2> SUFFICES ASSUME Value(y, p) # Nil  PROVE FALSE
    OBVIOUS
  <2>1. PICK i \in 1..n : s[i].p = p
    BY <1>2 DEF Loaded
  <2>2. i = n + 1
    BY <2>1, <1>1 DEF Dumped
  <2> QED
    BY <2>2
<1>4. Value(y, Front(p)) # Nil
  BY <1>2 DEF Loaded
<1>5. PICK i \in 1..n : s[i].p = Front(p)
  BY <1>2, <1>4 DEF Loaded
<1>6. ~IsFile(y.node[Value(y, Front(p))])
  <2>1. Len(Dump(y)) = n /\ Dump(y)[i] = s[i] /\ Sound(y) /\ Dumped(y, Dump(y))
    BY DumpedFacts DEF Loaded
  <2>2. i \in DOMAIN Dump(y)
    BY <2>1 DEF Dumped
  <2>3. CASE i = 1
    <3>1. Front(p) = Root /\ Value(y, Root) = 1
      BY <2>1, <2>3, <1>5 DEF Dumped, RootRecord
    <3> QED
      BY <2>1, <3>1 DEF Sound, Kinds
  <2>4. CASE i # 1
    <3>1. y.node[Value(y, Front(p))].metaID = s[i].id
      BY <2>1, <2>2, <2>4, <1>5 DEF Dumped, Shown
    <3>2. x.node[Value(x, Front(p))].metaID = s[i].id
      BY <2>4, <1>1, <1>5 DEF Dumped, Shown
    <3> QED
      BY <3>1, <3>2, <1>2 DEF IsFile
  <2> QED
    BY <2>3, <2>4
<1>7. Allocated(y) # Addr
  BY LoadedRoom
<1> QED
  BY <1>2, <1>3, <1>4, <1>5, <1>6, <1>7 DEF Fits


LEMMA LoadedNext ==
  ASSUME NEW x, Sound(x), NEW s, Dumped(x, s), NEW y, NEW n \in Nat \ {0}, n + 1 \in DOMAIN s,
         Loaded(s, y, n)
  PROVE  Loaded(s, Then(y, s[n + 1]), n + 1)
<1> DEFINE r == s[n + 1]
           p == r.p
           id == r.id
           z == Added(y, p, id)
           a == Fresh(y)
           d == Value(y, Front(p))
           l == z.node[a].last
<1>1. /\ Fits(y, p) /\ Sound(y) /\ Placed(y, <<>>)
      /\ \E i \in 1..n : s[i].p = Front(p)
  BY LoadedFits DEF Loaded
<1>2. /\ s \in Seq(Record) /\ r \in Record /\ id \in File \cup {Nil} /\ r = [p |-> p, id |-> id]
      /\ p \in Path /\ p # Root /\ Front(p) \in Path /\ IsPrefix(Front(p), s[n].p)
      /\ s[n].p \in Path /\ Value(y, p) = Nil
  <2>1. /\ s \in Seq(Record) /\ DOMAIN s = 1..Len(s) /\ Len(s) \in Nat /\ n \in DOMAIN s
        /\ n + 1 # 1
    BY DEF Dumped
  <2>2. r \in Record
    BY <2>1
  <2>3. s[n].p \in Path
    BY <2>1, NilFacts DEF Dumped, Shown, RootRecord
  <2>4. p \in Path /\ p # Root /\ Front(p) \in Path /\ Value(y, p) = Nil
    BY <1>1, FitsFacts
  <2>5. IsPrefix(Front(p), s[n].p)
    BY <2>1 DEF Dumped
  <2> QED
    BY <2>1, <2>2, <2>3, <2>4, <2>5 DEF Record
<1>3. Then(y, r) = z
  BY <1>1 DEF Then
<1>4. /\ Sound(z) /\ Placed(z, <<>>)
      /\ Grown(y, z, a, d, l, Last(p), id)
      /\ \A q : Value(z, q) = IF q = p THEN a ELSE Value(y, q)
  BY <1>1, <1>2, AddedSound, AddedPlaced, AddedNode, AddedTable
<1> HIDE DEF r, z, a, d, l
<1>5. PICK f : Dumps(y, f) /\ Dump(y) = f[1][Root]
  BY <1>1, DumpUnfolds
<1>6. PICK g : Dumps(z, g) /\ Dump(z) = g[1][Root]
  BY <1>4, DumpUnfolds
<1>7. \A q \in Path : IsPrefix(q, Front(p)) => IsPrefix(q, s[n].p)
  BY <1>2, PrefixFacts
<1>8. \A q \in Path : IsPrefix(q, Front(p)) =>
        Value(y, q) # Nil /\ y.node[Value(y, q)].next = Nil
  BY <1>7 DEF Loaded
<1>9. Grows(y, f, z, g, p, id, a, d, l)
  BY <1>1, <1>2, <1>4, <1>5, <1>6, <1>8 DEF Grows, d
<1>10. /\ Dump(y) \in Seq(Record) /\ Len(Dump(y)) = n /\ DOMAIN Dump(y) = 1..n
       /\ \A i \in 1..n : Dump(y)[i] = s[i]
  <2>1. Dump(y) \in Seq(Record) /\ Len(Dump(y)) = n
    BY <1>1, RestoredSound DEF Loaded
  <2> QED
    BY <2>1 DEF Loaded
<1>11. Dump(z) = Append(Dump(y), r)
  <2>1. PICK i \in 1..n : s[i].p = Front(p)
    BY <1>1
  <2>2. i \in DOMAIN f[1][Root] /\ f[1][Root][i].p = Front(p)
    BY <2>1, <1>5, <1>10
  <2>3. g[1][Root] = Append(f[1][Root], r)
    BY <2>2, <1>2, <1>9, DumpGrows
  <2> QED
    BY <2>3, <1>5, <1>6
<1>12. Len(Dump(z)) = n + 1 /\ \A i \in 1..(n + 1) : Dump(z)[i] = s[i]
  <2> DEFINE v == Dump(y)
             w == Dump(z)
  <2>1. v \in Seq(Record) /\ Len(v) = n /\ w = Append(v, r) /\ r \in Record
    BY <1>2, <1>10, <1>11
  <2> HIDE DEF v, w
  <2>2. Len(w) = n + 1 /\ w[n + 1] = r /\ \A i \in 1..n : w[i] = v[i]
    BY <2>1
  <2>3. \A i \in 1..n : w[i] = s[i]
    BY <2>2, <1>10 DEF v
  <2>4. \A i \in 1..(n + 1) : w[i] = s[i]
    BY <2>2, <2>3 DEF r
  <2> QED
    BY <2>2, <2>4 DEF w
<1>13. ASSUME NEW q \in Path, Value(z, q) # Nil  PROVE \E i \in 1..(n + 1) : s[i].p = q
  <2>1. CASE q = p
    <3>1. n + 1 \in 1..(n + 1) /\ s[n + 1].p = p
      BY DEF r
    <3> QED
      BY <2>1, <3>1
  <2>2. CASE q # p
    <3>1. PICK i \in 1..n : s[i].p = q
      BY <2>2, <1>4, <1>13 DEF Loaded
    <3>2. i \in 1..(n + 1)
      OBVIOUS
    <3> QED
      BY <3>1, <3>2
  <2> QED
    BY <2>1, <2>2
<1>14. /\ a # Nil /\ a # 1 /\ l # 1 /\ z.node[a].next = Nil
       /\ a \in Allocated(z) /\ Allocated(z) = Allocated(y) \cup {a}
       /\ \A b \in Allocated(y) : z.node[b].next = IF b = l THEN a ELSE y.node[b].next
  <2>1. a # Nil /\ a # 1 /\ l # 1
    BY <1>1, <1>4, GrownEnd
  <2> QED
    BY <2>1, <1>4 DEF Grown
<1>15. ASSUME NEW q \in Path, IsPrefix(q, p)
       PROVE  Value(z, q) # Nil /\ z.node[Value(z, q)].next = Nil
  <2>1. CASE q = p
    BY <2>1, <1>4, <1>14
  <2>2. CASE q # p
    <3> DEFINE b == Value(y, q)
    <3>1. IsPrefix(q, Front(p))
      BY <2>2, <1>2, <1>15, PrefixFacts
    <3>2. b # Nil /\ y.node[b].next = Nil /\ Value(z, q) = b
      BY <3>1, <2>2, <1>4, <1>8
    <3>3. b \in Allocated(y)
      BY <3>2, <1>1, ValueFrom DEF Sound
    <3> HIDE DEF b
    <3>4. b # l
      <4> SUFFICES ASSUME b = l  PROVE FALSE
        OBVIOUS
      <4>1. z.node[b].next = a /\ b \in Allocated(z) /\ Value(z, p) = a
        BY <3>3, <1>4, <1>14
      <4>2. Front(p) = Front(q)
        BY <4>1, <3>2, <1>2, <1>4, <1>14, PlacedNext
      <4>3. q # Root
        <5>1. Value(y, Root) = 1
          BY <1>1, <1>5, DumpListing
        <5> QED
          BY <5>1, <1>14, <3>2 DEF b
      <4>4. Len(q) = Len(Front(q)) + 1 /\ Len(Front(q)) \in Nat
        BY <4>3, PathParts, PrefixFacts
      <4>5. Len(q) <= Len(Front(p))
        BY <3>1, <1>2, PrefixFacts
      <4> QED
        BY <4>2, <4>4, <4>5
    <3> QED
      BY <3>2, <3>3, <3>4, <1>14
  <2> QED
    BY <2>1, <2>2
<1>16. s[n + 1].p = p
  BY DEF r
<1>17. Loaded(s, z, n + 1)
  BY <1>4, <1>12, <1>13, <1>15, <1>16 DEF Loaded
<1> QED
  BY <1>3, <1>17 DEF r

LEMMA LoadRestores ==
  ASSUME NEW x, Sound(x), Placed(x, <<>>)
  PROVE  Dump(Load(Dump(x))) = Dump(x)
<1> DEFINE s == Dump(x)
<1>1. Dumped(x, s)
  BY DumpedFacts
<1> HIDE DEF s
<1>2. s \in Seq(Record) /\ Len(s) \in Nat \ {0} /\ DOMAIN s = 1..Len(s) /\ s[1] = RootRecord
  BY <1>1, EmptySeq DEF Dumped
<1>3. PICK g : Loads(s, g) /\ Load(s) = g[Len(s)]
  BY <1>2, LoadUnfolds
<1>4. /\ g[0] = Empty
      /\ \A n \in 1..Len(s) : g[n] = Then(g[n - 1], s[n])
  BY <1>3 DEF Loads
<1>5. Loaded(s, g[1], 1)
  <2>1. g[1] = Then(Empty, RootRecord)
    <3>1. 1 \in 1..Len(s) /\ 1 - 1 = 0
      BY <1>2
    <3> QED
      BY <3>1, <1>2, <1>4
  <2>2. Then(Empty, RootRecord) = Empty
    BY DEF Then, Fits, RootRecord
  <2> QED
    BY <2>1, <2>2, <1>2, LoadedFirst
<1>6. ASSUME NEW n \in Nat \ {0}, n + 1 \in DOMAIN s, Loaded(s, g[n], n)
      PROVE  Loaded(s, g[n + 1], n + 1)
  <2>1. g[n + 1] = Then(g[n], s[n + 1])
    <3>1. n + 1 \in 1..Len(s) /\ (n + 1) - 1 = n
      BY <1>2, <1>6
    <3> QED
      BY <3>1, <1>4
  <2> QED
    BY <2>1, <1>1, <1>6, LoadedNext
<1>7. \A n \in 1..Len(s) : Loaded(s, g[n], n)
  <2> DEFINE S == {n \in 1..Len(s) : ~Loaded(s, g[n], n)}
  <2> SUFFICES ASSUME S # {}  PROVE FALSE
    OBVIOUS
  <2>1. S \in SUBSET Nat
    BY <1>2
  <2>2. PICK n \in S : \A m \in S : n <= m
    BY <2>1, Smallest
  <2>3. n # 1 /\ n \in Nat /\ n \in 1..Len(s)
    BY <1>5, <2>1
  <2>4. n - 1 \in Nat \ {0} /\ (n - 1) + 1 = n /\ n - 1 \in 1..Len(s) /\ n - 1 \notin S
    BY <2>1, <2>2, <2>3, <1>2
  <2>5. Loaded(s, g[n - 1], n - 1)
    BY <2>4
  <2>6. Loaded(s, g[(n - 1) + 1], (n - 1) + 1)
    <3> DEFINE m == n - 1
    <3>1. m \in Nat \ {0} /\ m + 1 \in DOMAIN s /\ Loaded(s, g[m], m)
      BY <2>3, <2>4, <2>5, <1>2
    <3> HIDE DEF m
    <3>2. Loaded(s, g[m + 1], m + 1)
      BY <3>1, <1>6
    <3> QED
      BY <3>2 DEF m
  <2> QED
    BY <2>4, <2>6
<1>8. Loaded(s, Load(s), Len(s))
  BY <1>2, <1>3, <1>7
<1>9. Dump(Load(s)) \in Seq(Record) /\ Len(Dump(Load(s))) = Len(s)
      /\ \A i \in 1..Len(s) : Dump(Load(s))[i] = s[i]
  BY <1>8, RestoredSound DEF Loaded
<1>10. Dump(Load(s)) = s
  <2> DEFINE w == Dump(Load(s))
  <2>1. w \in Seq(Record) /\ Len(w) = Len(s) /\ \A i \in 1..Len(s) : w[i] = s[i]
    BY <1>9
  <2> HIDE DEF w
  <2>2. w = s
    BY <2>1, <1>2, SeqEqual
  <2> QED
    BY <2>2 DEF w
<1> QED
  BY <1>10 DEF s

\* saveSnapshot and loadSnapshot: a restart finds what was there, in its order,
\* whatever removeDir left in memory, unless a name has a blank.
THEOREM SnapshotCorrect == Spec => []SnapshotRestores
<1>1. TreeInv => SnapshotRestores
  BY LoadRestores DEF TreeInv, Ready, SnapshotRestores
<1> QED
  BY <1>1, TreeInvCorrect, PTL
=============================================================================
