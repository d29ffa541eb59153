--------------------------- MODULE RouterJoinProofs ---------------------------
(***************************************************************************)
(* Theorems about RouterJoin, for any cluster, lists of neighbours and     *)
(* bounds: its types; that the routes of all machines agree (RoutesLead);  *)
(* and, when machines start and end one at a time and no message is lost,  *)
(* that no two run under one id (IdsDiffer) and all know each other        *)
(* (Meshed).                                                               *)
(***************************************************************************)
EXTENDS RouterJoin, WellFoundedInduction, TLAPS

LEMMA MinNat ==
  ASSUME NEW S \in SUBSET Nat, S # {}
  PROVE  Min(S) \in S /\ \A y \in S : Min(S) <= y
<1> DEFINE R == OpToRel(<, Nat)
<1>1. IsWellFoundedOn(R, Nat)
  BY NatLessThanWellFounded
<1>2. \A x, y \in Nat : x < y => <<x, y>> \in R
  BY DEF OpToRel
<1> HIDE DEF R
<1>3. PICK x \in S : \A y \in S : ~(<<y, x>> \in R)
  BY <1>1, WFMin
<1>4. ASSUME NEW y \in S
      PROVE  x =< y
  <2>1. x \in Nat /\ y \in Nat /\ ~(y < x)
    BY <1>2, <1>3
  <2> QED
    BY <2>1
<1> QED
  BY <1>4 DEF Min

LEMMA MaxTwo ==
  ASSUME NEW a \in Int, NEW b \in Int
  PROVE  /\ Max({a, b}) \in {a, b}
         /\ Max({a, b}) >= a /\ Max({a, b}) >= b
<1>1. \E x \in {a, b} : \A y \in {a, b} : x >= y
  OBVIOUS
<1> QED
  BY <1>1 DEF Max

\* One value of a function, and one value of a table, is changed.
LEMMA Put ==
  ASSUME NEW A, NEW B, NEW f \in [A -> B], NEW a \in A, NEW v \in B
  PROVE  /\ [f EXCEPT ![a] = v] \in [A -> B] /\ [f EXCEPT ![a] = v][a] = v
         /\ \A x \in A \ {a} : [f EXCEPT ![a] = v][x] = f[x]
OBVIOUS

LEMMA PutIn ==
  ASSUME NEW A, NEW B, NEW C, NEW f \in [A -> [B -> C]], NEW a \in A, NEW b, NEW v \in C
  PROVE  /\ [f EXCEPT ![a][b] = v] \in [A -> [B -> C]]
         /\ \A x \in A \ {a} : [f EXCEPT ![a][b] = v][x] = f[x]
<1>1. [f[a] EXCEPT ![b] = v] \in [B -> C]
  OBVIOUS
<1>2. [f EXCEPT ![a][b] = v] = [f EXCEPT ![a] = [f[a] EXCEPT ![b] = v]]
  OBVIOUS
<1> QED
  BY <1>1, <1>2, Put

-----------------------------------------------------------------------------
(* The types.                                                              *)

\* What the constructor has found out by the step it is at.
Starting ==
  \A h \in Host :
    /\ pc[h] \in {"topology", "check"} => id[h] = snap[h]
    /\ pc[h] = "check" => snap[h] # 0 /\ Routes(h) # {}

TypeInv == RouterTypeOK /\ Starting

\* The route an iterator over the table is at.
LEMMA Visited ==
  ASSUME RouterTypeOK, NEW h \in Host
  PROVE  /\ \A i \in Routes(h) : i \in ID /\ table[h][i] \in Host
         /\ Routes(h) # {} => Min(Routes(h)) \in Routes(h)
         /\ Rest(h) # {} => Min(Rest(h)) \in Routes(h)
<1>1. Rest(h) \subseteq Routes(h) /\ Routes(h) \subseteq Nat
  BY DEF Rest, Routes, ID
<1>2. \A i \in Routes(h) : i \in ID /\ table[h][i] \in Host
  BY DEF Routes, RouterTypeOK
<1>3. Routes(h) # {} => Min(Routes(h)) \in Routes(h)
  BY <1>1, MinNat
<1>4. Rest(h) # {} => Min(Rest(h)) \in Rest(h)
  BY <1>1, MinNat
<1> QED
  BY <1>1, <1>2, <1>3, <1>4

\* The table of h after the route at i is set or dropped.
LEMMA Routed ==
  ASSUME RouterTypeOK, NEW h \in Host, NEW i, NEW g \in Host
  PROVE  \A t : (t = table \/ t = [table EXCEPT ![h][i] = g]
                 \/ t = [table EXCEPT ![h][i] = NoHost]) =>
           /\ t \in [Host -> [ID -> Host \cup {NoHost}]]
           /\ \A x \in Host \ {h} : t[x] = table[x]
<1>1. /\ table \in [Host -> [ID -> Host \cup {NoHost}]]
      /\ g \in Host \cup {NoHost} /\ NoHost \in Host \cup {NoHost}
  BY DEF RouterTypeOK
<1>2. /\ [table EXCEPT ![h][i] = g] \in [Host -> [ID -> Host \cup {NoHost}]]
      /\ \A x \in Host \ {h} : [table EXCEPT ![h][i] = g][x] = table[x]
  BY <1>1, PutIn
<1>3. /\ [table EXCEPT ![h][i] = NoHost] \in [Host -> [ID -> Host \cup {NoHost}]]
      /\ \A x \in Host \ {h} : [table EXCEPT ![h][i] = NoHost][x] = table[x]
  BY <1>1, PutIn
<1> QED
  BY <1>1, <1>2, <1>3

LEMMA FaultType ==
  ASSUME RouterTypeOK, NEW bad \in BOOLEAN, NEW what \in SUBSET Causes, Fault(bad, what)
  PROVE  faults' \in 0..MaxFaults /\ cause' \subseteq Causes /\ cause \subseteq cause'
BY JoinBounds DEF Fault, RouterTypeOK

LEMMA LeaveType ==
  ASSUME TypeInv, NEW h \in Host, Leave(h)
  PROVE  /\ pc' \in [Host -> {"off", "topology", "check", "ask", "table", "update", "up"}]
         /\ id' \in [Host -> 0..MaxID] /\ idMax' \in [Host -> 0..MaxID]
         /\ table' \in [Host -> [ID -> Host \cup {NoHost}]]
         /\ best' \in [Host -> 0..MaxID] /\ todo' \in [Host -> Seq(Host)]
         /\ at' \in [Host -> 1..MaxID + 1]
         /\ msgs' \subseteq [to : Host, ip : Host, src : ID, max : ID]
         /\ boots' \in 0..MaxBoots
         /\ pc'[h] = "off"
         /\ \A g \in Host \ {h} : pc'[g] = pc[g] /\ id'[g] = id[g] /\ idMax'[g] = idMax[g]
                                  /\ table'[g] = table[g]
<1>1. MaxID \in Nat /\ 1 \in 1..MaxID + 1
  BY JoinBounds
<1>2. <<>> \in Seq(Host)
  OBVIOUS
<1>3. /\ pc' = [pc EXCEPT ![h] = "off"] /\ at' = [at EXCEPT ![h] = 1]
      /\ id' = [id EXCEPT ![h] = 0] /\ idMax' = [idMax EXCEPT ![h] = 0]
      /\ table' = [table EXCEPT ![h] = [i \in ID |-> NoHost]]
      /\ todo' = [todo EXCEPT ![h] = <<>>] /\ best' = [best EXCEPT ![h] = 0]
      /\ msgs' \subseteq msgs /\ boots' = boots
  BY DEF Leave, Rewind, Goto
<1>4. [i \in ID |-> NoHost] \in [ID -> Host \cup {NoHost}]
  OBVIOUS
<1>5. /\ table' \in [Host -> [ID -> Host \cup {NoHost}]]
      /\ \A g \in Host \ {h} : table'[g] = table[g]
  <2> DEFINE none == [i \in ID |-> NoHost]
  <2>1. none \in [ID -> Host \cup {NoHost}] /\ table' = [table EXCEPT ![h] = none]
    BY <1>3, <1>4
  <2> HIDE DEF none
  <2> QED
    BY <2>1 DEF TypeInv, RouterTypeOK
<1>6. todo' \in [Host -> Seq(Host)]
  BY <1>2, <1>3 DEF TypeInv, RouterTypeOK
<1>7. id' \in [Host -> 0..MaxID] /\ idMax' \in [Host -> 0..MaxID] /\ best' \in [Host -> 0..MaxID]
  BY <1>1, <1>3 DEF TypeInv, RouterTypeOK
<1>8. at' \in [Host -> 1..MaxID + 1]
  BY <1>1, <1>3 DEF TypeInv, RouterTypeOK
<1>9. /\ pc' \in [Host -> {"off", "topology", "check", "ask", "table", "update", "up"}]
      /\ pc'[h] = "off"
  BY <1>3 DEF TypeInv, RouterTypeOK
<1>10. \A g \in Host \ {h} : pc'[g] = pc[g] /\ id'[g] = id[g] /\ idMax'[g] = idMax[g]
  BY <1>3 DEF TypeInv, RouterTypeOK
<1>11. /\ msgs' \subseteq [to : Host, ip : Host, src : ID, max : ID]
       /\ boots' \in 0..MaxBoots
  BY <1>3 DEF TypeInv, RouterTypeOK
<1> QED
  BY <1>5, <1>6, <1>7, <1>8, <1>9, <1>10, <1>11

LEMMA Left ==
  ASSUME TypeInv, NEW h \in Host, Leave(h), snap' \in [Host -> 0..MaxID],
         \A g \in Host \ {h} : snap'[g] = snap[g],
         faults' \in 0..MaxFaults, cause' \subseteq Causes
  PROVE  TypeInv'
<1>1. RouterTypeOK'
  <2>1. \A g \in Host : pc'[g] \in {"table", "update", "up"} => id'[g] \in 1..idMax'[g]
    <3> SUFFICES ASSUME NEW g \in Host, pc'[g] \in {"table", "update", "up"}
                 PROVE  id'[g] \in 1..idMax'[g]
      OBVIOUS
    <3>1. g # h /\ pc'[g] = pc[g] /\ id'[g] = id[g] /\ idMax'[g] = idMax[g]
      BY LeaveType
    <3> QED
      BY <3>1 DEF TypeInv, RouterTypeOK
  <2> QED
    BY <2>1, LeaveType DEF RouterTypeOK
<1>2. Starting'
  <2> SUFFICES ASSUME NEW g \in Host, pc'[g] \in {"topology", "check"}
               PROVE  id'[g] = snap'[g] /\ (pc'[g] = "check" => snap'[g] # 0 /\ Routes(g)' # {})
    BY DEF Starting
  <2>1. /\ g # h /\ pc'[g] = pc[g] /\ id'[g] = id[g] /\ table'[g] = table[g]
        /\ snap'[g] = snap[g]
    BY LeaveType
  <2> QED
    BY <2>1 DEF TypeInv, Starting, Routes
<1> QED
  BY <1>1, <1>2 DEF TypeInv

LEMMA TypeInit == Init => TypeInv
<1>1. MaxID \in Nat /\ 1 \in 1..MaxID + 1 /\ MaxBoots \in Nat /\ MaxFaults \in Nat
  BY JoinBounds
<1>2. <<>> \in Seq(Host)
  OBVIOUS
<1> QED
  BY <1>1, <1>2 DEF Init, TypeInv, RouterTypeOK, Starting

LEMMA TypeStart ==
  ASSUME TypeInv, NEW h \in Host,
         Boot(h) \/ ConnectNeighbor(h) \/ TakeID(h) \/ BeginID(h)
  PROVE  TypeInv'
<1> USE JoinBounds
<1>0. 1 \in 1..MaxID + 1 /\ \A x \in BOOLEAN : Fault(x, {"overlap"}) \/ Fault(x, {"refused"}) =>
         faults' \in 0..MaxFaults /\ cause' \subseteq Causes
  BY FaultType DEF Causes, TypeInv
<1>1. CASE Boot(h)
  <2>1. faults' \in 0..MaxFaults /\ cause' \subseteq Causes
    BY <1>0, <1>1 DEF Boot, Overlaps
  <2>2. todo' \in [Host -> Seq(Host)]
    <3>1. connectList[h] \in Seq(Host)
      BY HostAssumption
    <3> QED
      BY <1>1, <3>1 DEF Boot, TypeInv, RouterTypeOK
  <2>3. boots' \in 0..MaxBoots
    BY <1>1 DEF Boot, TypeInv, RouterTypeOK
  <2> QED
    BY <1>1, <2>1, <2>2, <2>3 DEF Boot, Goto, TypeInv, RouterTypeOK, Starting, Routes
<1>2. CASE ConnectNeighbor(h)
  <2> DEFINE g == Head(todo[h])
  <2>1. g \in Host /\ Tail(todo[h]) \in Seq(Host)
    BY <1>2 DEF ConnectNeighbor, TypeInv, RouterTypeOK
  <2>2. todo' \in [Host -> Seq(Host)]
    BY <1>2, <2>1 DEF ConnectNeighbor, TypeInv, RouterTypeOK
  <2>3. faults' \in 0..MaxFaults /\ cause' \subseteq Causes
    BY <1>2, <1>0 DEF ConnectNeighbor, Answers, Fails, TypeInv, RouterTypeOK, Up
  <2>4. table' \in [Host -> [ID -> Host \cup {NoHost}]] /\ \A x \in Host \ {h} : table'[x] = table[x]
    <3> DEFINE k == id[g]
    <3>1. table' = [table EXCEPT ![h][k] = g] \/ table' = table
      BY <1>2 DEF ConnectNeighbor
    <3>2. RouterTypeOK
      BY DEF TypeInv
    <3> HIDE DEF g, k
    <3>3. g \in Host
      BY <2>1
    <3>4. CASE table' = table
      BY <3>2, <3>3, <3>4, Routed
    <3>5. CASE table' = [table EXCEPT ![h][k] = g]
      BY <3>2, <3>3, <3>5, Routed
    <3> QED
      BY <3>1, <3>4, <3>5
  <2>5. pc[h] = "topology" /\ UNCHANGED <<pc, id, idMax, snap, at, best, msgs, boots>>
    BY <1>2 DEF ConnectNeighbor
  <2>6. RouterTypeOK'
    BY <2>2, <2>3, <2>4, <2>5 DEF TypeInv, RouterTypeOK
  <2>7. Starting'
    BY <2>4, <2>5 DEF TypeInv, Starting, Routes
  <2> QED
    BY <2>6, <2>7 DEF TypeInv
<1>3. CASE TakeID(h)
  <2> DEFINE new == IF snap[h] = 0 THEN 1 ELSE snap[h]
  <2>1. new \in 1..MaxID /\ new \in 0..MaxID
    BY DEF TypeInv, RouterTypeOK
  <2>2. id' = [id EXCEPT ![h] = new] /\ idMax' = [idMax EXCEPT ![h] = new]
    BY <1>3 DEF TakeID
  <2>3. cause' \subseteq Causes
    BY <1>3 DEF TakeID, TypeInv, RouterTypeOK, Causes
  <2>4. Rewind(h, "update") /\ UNCHANGED <<table, snap, todo, best, msgs, boots, faults>>
    BY <1>3 DEF TakeID
  <2> HIDE DEF new
  <2>5. /\ at' \in [Host -> 1..MaxID + 1]
        /\ pc' \in [Host -> {"off", "topology", "check", "ask", "table", "update", "up"}]
    BY <1>0, <2>4 DEF Rewind, Goto, TypeInv, RouterTypeOK
  <2>6. id' \in [Host -> 0..MaxID] /\ idMax' \in [Host -> 0..MaxID]
    BY <2>1, <2>2 DEF TypeInv, RouterTypeOK
  <2>7. /\ pc'[h] = "update" /\ id'[h] = new /\ idMax'[h] = new /\ new \in 1..new
        /\ \A x \in Host \ {h} : pc'[x] = pc[x] /\ idMax'[x] = idMax[x] /\ id'[x] = id[x]
    BY <2>1, <2>2, <2>4 DEF Rewind, Goto, TypeInv, RouterTypeOK
  <2>8. RouterTypeOK'
    BY <2>3, <2>4, <2>5, <2>6, <2>7 DEF TypeInv, RouterTypeOK
  <2>9. Starting'
    BY <2>4, <2>7 DEF TypeInv, Starting, Routes
  <2> QED
    BY <2>8, <2>9 DEF TypeInv
<1>4. CASE BeginID(h)
  BY <1>0, <1>4 DEF BeginID, Listed, Rewind, Goto, TypeInv, RouterTypeOK, Starting, Routes
<1> QED
  BY <1>1, <1>2, <1>3, <1>4

LEMMA TypeID ==
  ASSUME TypeInv, NEW h \in Host, CheckRepeat(h) \/ AskMax(h) \/ NewID(h)
  PROVE  TypeInv'
<1> USE JoinBounds
<1>0. 1 \in 1..MaxID + 1
  OBVIOUS
<1>1. CASE CheckRepeat(h)
  <2> DEFINE g == table[h][Min(Routes(h))]
             top == Max({id[h], idMax[g]})
  <2>1. g \in Host /\ id[h] \in 1..MaxID
    <3>1. Routes(h) # {} /\ id[h] = snap[h] /\ snap[h] # 0
      BY <1>1 DEF CheckRepeat, TypeInv, Starting
    <3>2. g \in Host
      BY <3>1, Visited DEF TypeInv
    <3> QED
      BY <3>1, <3>2 DEF TypeInv, RouterTypeOK
  <2>2. top \in 0..MaxID /\ id[h] \in 1..top
    <3> HIDE DEF g
    <3>1. id[h] \in Int /\ idMax[g] \in 0..MaxID
      BY <2>1 DEF TypeInv, RouterTypeOK
    <3>2. idMax[g] \in Int
      BY <3>1
    <3>3. top \in {id[h], idMax[g]} /\ top >= id[h]
      BY <3>1, <3>2, MaxTwo, Zenon
    <3> HIDE DEF top
    <3> QED
      BY <2>1, <3>1, <3>3
  <2>3. \/ idMax' = [idMax EXCEPT ![h] = top] /\ Rewind(h, "table")
        \/ idMax' = idMax /\ Rewind(h, "ask")
    BY <1>1 DEF CheckRepeat
  <2>4. faults' \in 0..MaxFaults /\ cause' \subseteq Causes
    <3>1. Answers(g) \/ Fails(g)
      BY <1>1 DEF CheckRepeat
    <3> QED
      BY <3>1, FaultType DEF Answers, Fails, Causes, Up, TypeInv, RouterTypeOK
  <2>5. UNCHANGED <<id, table, snap, todo, best, msgs, boots>>
    BY <1>1 DEF CheckRepeat
  <2> HIDE DEF top, g
  <2>6. /\ at' \in [Host -> 1..MaxID + 1] /\ idMax' \in [Host -> 0..MaxID]
        /\ pc' \in [Host -> {"off", "topology", "check", "ask", "table", "update", "up"}]
    <3>1. at' \in [Host -> 1..MaxID + 1]
      BY <1>0, <2>3 DEF Rewind, TypeInv, RouterTypeOK
    <3>2. idMax' \in [Host -> 0..MaxID]
      BY <2>2, <2>3 DEF TypeInv, RouterTypeOK
    <3>3. pc' \in [Host -> {"off", "topology", "check", "ask", "table", "update", "up"}]
      BY <2>3 DEF Rewind, Goto, TypeInv, RouterTypeOK
    <3> QED
      BY <3>1, <3>2, <3>3
  <2>7. /\ pc'[h] = "ask" \/ (pc'[h] = "table" /\ id[h] \in 1..idMax'[h])
        /\ \A x \in Host \ {h} : pc'[x] = pc[x] /\ idMax'[x] = idMax[x]
    <3>1. pc' = [pc EXCEPT ![h] = "table"] \/ pc' = [pc EXCEPT ![h] = "ask"]
      BY <2>3 DEF Rewind, Goto
    <3>2. pc' = [pc EXCEPT ![h] = "table"] => idMax' = [idMax EXCEPT ![h] = top]
      <4> SUFFICES ASSUME pc' = [pc EXCEPT ![h] = "table"], Rewind(h, "ask")  PROVE FALSE
        BY <2>3
      <4> QED
        BY DEF Rewind, Goto, TypeInv, RouterTypeOK
    <3>3. idMax' = [idMax EXCEPT ![h] = top] \/ idMax' = idMax
      BY <2>3
    <3>4. \A x \in Host \ {h} : pc'[x] = pc[x] /\ idMax'[x] = idMax[x]
      BY <3>1, <3>3 DEF TypeInv, RouterTypeOK
    <3>5. \/ pc'[h] = "ask"
          \/ pc'[h] = "table" /\ idMax'[h] = top
      BY <3>1, <3>2 DEF TypeInv, RouterTypeOK
    <3>6. pc'[h] = "ask" \/ (pc'[h] = "table" /\ id[h] \in 1..idMax'[h])
      BY <2>2, <3>5, Zenon
    <3> QED
      BY <3>4, <3>6, Zenon
  <2>8. RouterTypeOK'
    BY <2>4, <2>5, <2>6, <2>7 DEF TypeInv, RouterTypeOK
  <2>9. Starting'
    BY <2>5, <2>7 DEF TypeInv, Starting, Routes
  <2> QED
    BY <2>8, <2>9 DEF TypeInv
<1>2. CASE AskMax(h)
  <2> DEFINE i == Min(Rest(h))
             g == table[h][i]
             top == Max({best[h], idMax[g]})
  <2>1. i \in ID /\ g \in Host
    BY <1>2, Visited DEF AskMax, TypeInv
  <2>2. top \in 0..MaxID
    <3> HIDE DEF g
    <3>1. best[h] \in 0..MaxID /\ idMax[g] \in 0..MaxID
      BY <2>1 DEF TypeInv, RouterTypeOK
    <3>2. best[h] \in Int /\ idMax[g] \in Int
      BY <3>1
    <3>3. top \in {best[h], idMax[g]}
      BY <3>2, MaxTwo, Zenon
    <3> HIDE DEF top
    <3> QED
      BY <3>1, <3>3
  <2>3. best' = [best EXCEPT ![h] = top] \/ best' = best
    BY <1>2 DEF AskMax
  <2>4. faults' \in 0..MaxFaults /\ cause' \subseteq Causes
    <3>1. Answers(g) \/ Fails(g)
      BY <1>2 DEF AskMax
    <3> QED
      BY <3>1, FaultType DEF Answers, Fails, Causes, Up, TypeInv, RouterTypeOK
  <2>5. at' = [at EXCEPT ![h] = i + 1] /\ i + 1 \in 1..MaxID + 1
    BY <1>2, <2>1 DEF AskMax, Advance, ID
  <2>6. UNCHANGED <<pc, id, idMax, table, snap, todo, msgs, boots>>
    BY <1>2 DEF AskMax
  <2> HIDE DEF top, g, i
  <2> QED
    BY <2>2, <2>3, <2>4, <2>5, <2>6 DEF TypeInv, RouterTypeOK, Starting, Routes
<1>3. CASE NewID(h)
  <2> DEFINE new == best[h] + 1
  <2>1. new \in 1..MaxID /\ new \in 0..MaxID
    BY <1>3 DEF NewID, TypeInv, RouterTypeOK
  <2>2. id' = [id EXCEPT ![h] = new] /\ idMax' = [idMax EXCEPT ![h] = new]
    BY <1>3 DEF NewID
  <2>3. cause' \subseteq Causes
    BY <1>3 DEF NewID, TypeInv, RouterTypeOK, Causes
  <2>4. best' = [best EXCEPT ![h] = 0] /\ Rewind(h, "table")
        /\ UNCHANGED <<table, snap, todo, msgs, boots, faults>>
    BY <1>3 DEF NewID
  <2> HIDE DEF new
  <2>5. RouterTypeOK'
    <3>1. /\ at' \in [Host -> 1..MaxID + 1] /\ best' \in [Host -> 0..MaxID]
          /\ pc' \in [Host -> {"off", "topology", "check", "ask", "table", "update", "up"}]
      BY <1>0, <2>4 DEF Rewind, Goto, TypeInv, RouterTypeOK
    <3>2. id' \in [Host -> 0..MaxID] /\ idMax' \in [Host -> 0..MaxID]
      BY <2>1, <2>2 DEF TypeInv, RouterTypeOK
    <3>3. /\ pc'[h] = "table" /\ id'[h] = new /\ idMax'[h] = new /\ new \in 1..new
          /\ \A x \in Host \ {h} : pc'[x] = pc[x] /\ idMax'[x] = idMax[x] /\ id'[x] = id[x]
      BY <2>1, <2>2, <2>4 DEF Rewind, Goto, TypeInv, RouterTypeOK
    <3> QED
      BY <2>3, <2>4, <3>1, <3>2, <3>3 DEF TypeInv, RouterTypeOK
  <2>6. Starting'
    BY <2>2, <2>4 DEF Rewind, Goto, TypeInv, RouterTypeOK, Starting, Routes
  <2> QED
    BY <2>5, <2>6 DEF TypeInv
<1> QED
  BY <1>1, <1>2, <1>3

LEMMA TypeTable ==
  ASSUME TypeInv, NEW h \in Host,
         FetchTable(h) \/ FetchEnd(h) \/ Update(h) \/ Serve(h)
  PROVE  TypeInv'
<1> USE JoinBounds
<1>0. 1 \in 1..MaxID + 1
  OBVIOUS
<1>1. CASE FetchTable(h)
  <2> DEFINE i == Min(Rest(h))
             g == table[h][i]
  <2>1. i \in ID /\ g \in Host
    BY <1>1, Visited DEF FetchTable, TypeInv
  <2>2. \/ table' = [table EXCEPT ![h] = Learn(h, g)] /\ Rewind(h, "update")
        \/ table' = table /\ pc' = pc /\ at' = [at EXCEPT ![h] = i + 1]
    BY <1>1 DEF FetchTable, Advance
  <2>3. Learn(h, g) \in [ID -> Host \cup {NoHost}]
    BY <2>1 DEF Learn, TypeInv, RouterTypeOK
  <2>4. faults' \in 0..MaxFaults /\ cause' \subseteq Causes
    <3>1. Answers(g) \/ Fails(g)
      BY <1>1 DEF FetchTable
    <3> QED
      BY <3>1, FaultType DEF Answers, Fails, Causes, Up, TypeInv, RouterTypeOK
  <2>5. i + 1 \in 1..MaxID + 1
    BY <2>1 DEF ID
  <2>6. pc[h] = "table" /\ UNCHANGED <<id, idMax, snap, todo, best, msgs, boots>>
    BY <1>1 DEF FetchTable
  <2> HIDE DEF g, i
  <2>7. /\ table' \in [Host -> [ID -> Host \cup {NoHost}]]
        /\ \A x \in Host \ {h} : table'[x] = table[x]
    BY <2>2, <2>3 DEF TypeInv, RouterTypeOK
  <2>8. /\ at' \in [Host -> 1..MaxID + 1]
        /\ pc' = pc \/ pc' = [pc EXCEPT ![h] = "update"]
    BY <1>0, <2>2, <2>5 DEF Rewind, Goto, TypeInv, RouterTypeOK
  <2>9. RouterTypeOK'
    BY <2>4, <2>6, <2>7, <2>8 DEF TypeInv, RouterTypeOK
  <2>10. Starting'
    <3>1. pc'[h] \in {"table", "update"} /\ \A x \in Host \ {h} : pc'[x] = pc[x]
      BY <2>6, <2>8 DEF TypeInv, RouterTypeOK
    <3> QED
      BY <2>6, <2>7, <3>1 DEF TypeInv, Starting, Routes
  <2> QED
    BY <2>9, <2>10 DEF TypeInv
<1>2. CASE FetchEnd(h)
  BY <1>0, <1>2 DEF FetchEnd, Rewind, Goto, TypeInv, RouterTypeOK, Starting, Routes
<1>3. CASE Update(h)
  <2> DEFINE i == Min(Rest(h))
             g == table[h][i]
             x == [to |-> g, ip |-> h, src |-> id[h], max |-> idMax[h]]
  <2>1. i \in ID /\ g \in Host
    BY <1>3, Visited DEF Update, TypeInv
  <2>2. x \in [to : Host, ip : Host, src : ID, max : ID]
    <3>1. id[h] \in ID /\ idMax[h] \in ID
      BY <1>3 DEF Update, TypeInv, RouterTypeOK, ID
    <3> QED
      BY <2>1, <3>1
  <2>3. \/ msgs' = msgs \cup {x} /\ table' = table
        \/ msgs' = msgs /\ table' = [table EXCEPT ![h][i] = NoHost]
    BY <1>3 DEF Update
  <2>4. at' = [at EXCEPT ![h] = i + 1] /\ i + 1 \in 1..MaxID + 1
    BY <1>3, <2>1 DEF Update, Advance, ID
  <2>5. pc[h] = "update" /\ UNCHANGED <<pc, id, idMax, snap, todo, best, boots, faults, cause>>
    BY <1>3 DEF Update
  <2> HIDE DEF x, g, i
  <2>6. /\ table' \in [Host -> [ID -> Host \cup {NoHost}]]
        /\ \A y \in Host \ {h} : table'[y] = table[y]
    <3>1. table' = [table EXCEPT ![h][i] = NoHost] \/ table' = table
      BY <2>3
    <3> QED
      BY <2>1, <3>1, Routed, Zenon DEF TypeInv
  <2>7. msgs' \subseteq [to : Host, ip : Host, src : ID, max : ID]
    <3>1. msgs \subseteq [to : Host, ip : Host, src : ID, max : ID]
      BY DEF TypeInv, RouterTypeOK
    <3> QED
      BY <2>2, <2>3, <3>1
  <2>8. RouterTypeOK'
    BY <2>4, <2>5, <2>6, <2>7 DEF TypeInv, RouterTypeOK
  <2>9. Starting'
    BY <2>5, <2>6 DEF TypeInv, RouterTypeOK, Starting, Routes
  <2> QED
    BY <2>8, <2>9 DEF TypeInv
<1>4. CASE Serve(h)
  BY <1>0, <1>4 DEF Serve, Rewind, Goto, TypeInv, RouterTypeOK, Starting, Routes
<1> QED
  BY <1>1, <1>2, <1>3, <1>4

LEMMA TypeRun ==
  ASSUME TypeInv, NEW h \in Host, HandleUpdate(h) \/ SendFails(h) \/ Stop(h) \/ Crash(h)
  PROVE  TypeInv'
<1> USE JoinBounds
<1>1. CASE HandleUpdate(h)
  <2>1. PICK x \in msgs : /\ msgs' = msgs \ {x}
                          /\ idMax' = [idMax EXCEPT ![h] = Max({@, x.max})]
                          /\ table' = [table EXCEPT ![h][x.src] = x.ip]
    BY <1>1 DEF HandleUpdate
  <2>2. x.src \in ID /\ x.ip \in Host /\ x.max \in 1..MaxID
    BY DEF TypeInv, RouterTypeOK, ID
  <2> DEFINE top == Max({idMax[h], x.max})
  <2>3. top \in 0..MaxID /\ top >= idMax[h]
    <3>1. idMax[h] \in 0..MaxID
      BY DEF TypeInv, RouterTypeOK
    <3>2. idMax[h] \in Int /\ x.max \in Int
      BY <2>2, <3>1
    <3>3. top \in {idMax[h], x.max} /\ top >= idMax[h]
      BY <3>2, MaxTwo, Zenon
    <3> HIDE DEF top
    <3> QED
      BY <2>2, <3>1, <3>3
  <2>4. idMax' \in [Host -> 0..MaxID] /\ \A g \in Host : idMax'[g] >= idMax[g]
    <3>1. idMax' = [idMax EXCEPT ![h] = top]
      BY <2>1
    <3>2. idMax \in [Host -> 0..MaxID]
      BY DEF TypeInv, RouterTypeOK
    <3>3. \A g \in Host : idMax[g] \in Int
      BY <3>2
    <3> HIDE DEF top
    <3>4. idMax' \in [Host -> 0..MaxID] /\ idMax'[h] = top
          /\ \A g \in Host \ {h} : idMax'[g] = idMax[g]
      BY <2>3, <3>1, <3>2, Put
    <3>5. \A g \in Host : idMax'[g] >= idMax[g]
      BY <2>3, <3>3, <3>4
    <3> QED
      BY <3>4, <3>5
  <2>5. \A g \in Host : id[g] \in 1..idMax[g] => id[g] \in 1..idMax'[g]
    <3> SUFFICES ASSUME NEW g \in Host, id[g] \in 1..idMax[g]
                 PROVE  id[g] \in 1..idMax'[g]
      OBVIOUS
    <3>1. idMax[g] \in Int /\ idMax'[g] \in Int /\ idMax'[g] >= idMax[g]
      BY <2>4 DEF TypeInv, RouterTypeOK
    <3> QED
      BY <3>1
  <2>6. /\ table' \in [Host -> [ID -> Host \cup {NoHost}]]
        /\ \A g \in Host \ {h} : table'[g] = table[g]
    BY <2>1, <2>2 DEF TypeInv, RouterTypeOK
  <2>7. Up(h) /\ UNCHANGED <<pc, id, snap, todo, at, best, boots, faults, cause>>
    BY <1>1 DEF HandleUpdate
  <2> HIDE DEF top
  <2>8. RouterTypeOK'
    BY <2>1, <2>4, <2>5, <2>6, <2>7 DEF TypeInv, RouterTypeOK
  <2>9. Starting'
    BY <2>6, <2>7 DEF TypeInv, Starting, Routes, Up
  <2> QED
    BY <2>8, <2>9 DEF TypeInv
<1>2. CASE SendFails(h)
  <2>1. PICK i \in Routes(h) : table' = [table EXCEPT ![h][i] = NoHost]
    BY <1>2 DEF SendFails
  <2>2. i \in ID
    BY DEF Routes
  <2>3. /\ table' \in [Host -> [ID -> Host \cup {NoHost}]]
        /\ \A g \in Host \ {h} : table'[g] = table[g]
    BY <2>1, <2>2 DEF TypeInv, RouterTypeOK
  <2>4. Up(h) /\ UNCHANGED <<pc, id, idMax, snap, todo, at, best, msgs, boots, faults>>
    BY <1>2 DEF SendFails
  <2>5. cause' \subseteq Causes
    BY <1>2 DEF SendFails, TypeInv, RouterTypeOK, Causes
  <2>6. RouterTypeOK'
    BY <2>3, <2>4, <2>5 DEF TypeInv, RouterTypeOK
  <2>7. Starting'
    BY <2>3, <2>4 DEF TypeInv, Starting, Routes, Up
  <2> QED
    BY <2>6, <2>7 DEF TypeInv
<1>3. CASE Stop(h)
  <2>1. Leave(h) /\ snap' = [snap EXCEPT ![h] = id[h]]
    BY <1>3 DEF Stop
  <2>2. faults' \in 0..MaxFaults /\ cause' \subseteq Causes
    BY <1>3, FaultType DEF Stop, Overlaps, Causes, TypeInv
  <2>3. snap' \in [Host -> 0..MaxID] /\ \A g \in Host \ {h} : snap'[g] = snap[g]
    BY <2>1 DEF TypeInv, RouterTypeOK
  <2> QED
    BY <2>1, <2>2, <2>3, Left
<1>4. CASE Crash(h)
  <2>1. Leave(h) /\ snap' = snap
    BY <1>4 DEF Crash
  <2>2. faults' \in 0..MaxFaults /\ cause' \subseteq Causes
    BY <1>4, FaultType DEF Crash, Causes, TypeInv
  <2>3. snap' \in [Host -> 0..MaxID] /\ \A g \in Host \ {h} : snap'[g] = snap[g]
    BY <2>1 DEF TypeInv, RouterTypeOK
  <2> QED
    BY <2>1, <2>2, <2>3, Left
<1> QED
  BY <1>1, <1>2, <1>3, <1>4

LEMMA TypeNext == TypeInv /\ [Next]_jvars => TypeInv'
<1> SUFFICES ASSUME TypeInv, [Next]_jvars  PROVE TypeInv'
  OBVIOUS
<1>1. CASE \E h \in Host : Boot(h) \/ Join(h) \/ HandleUpdate(h) \/ SendFails(h) \/ Stop(h)
                           \/ Crash(h)
  BY <1>1, TypeStart, TypeID, TypeTable, TypeRun DEF Join
<1>2. CASE LoseUpdate
  <2>1. faults' \in 0..MaxFaults /\ cause' \subseteq Causes
    BY <1>2, FaultType DEF LoseUpdate, Causes, TypeInv
  <2> QED
    BY <1>2, <2>1 DEF LoseUpdate, TypeInv, RouterTypeOK, Starting, Routes
<1>3. CASE UNCHANGED jvars
  BY <1>3 DEF jvars, TypeInv, RouterTypeOK, Starting, Routes
<1> QED
  BY <1>1, <1>2, <1>3 DEF Next

\* Every variable of the joining machines keeps its type: no id is beyond the maximum
\* its machine knows, and only machines with an id of their own send updates.
THEOREM RouterTypeCorrect == Spec => []RouterTypeOK
<1>1. Init => TypeInv
  BY TypeInit
<1>2. TypeInv /\ [Next]_jvars => TypeInv'
  BY TypeNext
<1>3. TypeInv => RouterTypeOK
  BY DEF TypeInv
<1> QED
  BY <1>1, <1>2, <1>3, PTL DEF Spec
-----------------------------------------------------------------------------
(* The routes.                                                             *)

\* No machine has a route to itself, or tells itself its id.
Outward ==
  /\ \A h \in Host : \A i \in ID : table[h][i] # h
  /\ \A x \in msgs : x.to # x.ip

\* Some table, message or snapshot has i as the id of h.
Known(h, i) ==
  \/ \E g \in Host : table[g][i] = h
  \/ \E x \in msgs : x.ip = h /\ x.src = i
  \/ snap[h] = i

\* All that is known of a machine is one id, and its own if it has one.
OneID ==
  \A h \in Host : \A i \in ID : Known(h, i) =>
    /\ HasID(h) => id[h] = i
    /\ \A k \in ID : Known(h, k) => i = k

RouteInv == TypeInv /\ Outward /\ ("renamed" \notin cause => OneID)

\* i is the id of x, and x has told it or is about to.
Own(x, i) == HasID(x) /\ id[x] = i

\* Where the routes, messages and snapshots of the next state come from.
TableFrom ==
  \A y \in Host : \A i \in ID :
    \/ table'[y][i] = NoHost
    \/ \E z \in Host : table'[y][i] = table[z][i]
    \/ \E u \in msgs : u.ip = table'[y][i] /\ u.src = i
    \/ Own(table'[y][i], i)
MessagesFrom == \A u \in msgs' : u \in msgs \/ Own(u.ip, u.src)
SnapFrom == \A x \in Host : snap'[x] = snap[x] \/ Own(x, snap'[x])

\* A machine with an id keeps it, and one that takes an id takes the known one.
IDsFrom ==
  \A x \in Host : HasID(x)' =>
    \/ HasID(x) /\ id'[x] = id[x]
    \/ \A i \in ID : Known(x, i)' => id'[x] = i

\* Copying what is known, and telling what is true, keeps all in agreement.
LEMMA Agreement ==
  ASSUME OneID, TableFrom, MessagesFrom, SnapFrom, IDsFrom
  PROVE  OneID'
<1>1. ASSUME NEW x \in Host, NEW i \in ID, Known(x, i)'
      PROVE  Known(x, i) \/ Own(x, i)
  <2>1. CASE \E y \in Host : table'[y][i] = x
    <3>1. PICK y \in Host : table'[y][i] = x
      BY <2>1
    <3> QED
      BY <3>1, HostAssumption DEF TableFrom, Known
  <2>2. CASE \E u \in msgs' : u.ip = x /\ u.src = i
    BY <2>2 DEF MessagesFrom, Known
  <2>3. CASE snap'[x] = i
    BY <2>3 DEF SnapFrom, Known
  <2> QED
    BY <1>1, <2>1, <2>2, <2>3 DEF Known
<1>2. ASSUME NEW x \in Host, NEW i \in ID, Known(x, i)'
      PROVE  /\ HasID(x)' => id'[x] = i
             /\ \A k \in ID : Known(x, k)' => i = k
  <2>1. Known(x, i) \/ Own(x, i)
    BY <1>1, <1>2
  <2>2. HasID(x) => id[x] = i
    BY <2>1 DEF OneID, Own
  <2>3. HasID(x)' => id'[x] = i
    BY <1>2, <2>2 DEF IDsFrom
  <2>4. ASSUME NEW k \in ID, Known(x, k)'
        PROVE  i = k
    <3>1. Known(x, k) \/ Own(x, k)
      BY <1>1, <2>4
    <3> QED
      BY <2>1, <3>1 DEF OneID, Own
  <2> QED
    BY <2>3, <2>4
<1> QED
  BY <1>2 DEF OneID

\* An id nobody contradicts.
LEMMA Uncontradicted ==
  ASSUME RouterTypeOK, Outward, NEW h \in Host, NEW new \in ID, ~Renames(h, new),
         UNCHANGED <<table, msgs, snap>>
  PROVE  \A i \in ID : Known(h, i)' => new = i
<1> SUFFICES ASSUME NEW i \in ID, Known(h, i), i # new
             PROVE  FALSE
  BY DEF Known
<1>1. CASE \E g \in Host : table[g][i] = h
  <2>1. PICK g \in Host : table[g][i] = h
    BY <1>1
  <2>2. g # h /\ i \in Routes(g)
    BY <2>1, HostAssumption DEF Outward, Routes
  <2> QED
    BY <2>1, <2>2 DEF Renames
<1>2. CASE \E x \in msgs : x.ip = h /\ x.src = i
  BY <1>2 DEF Renames
<1>3. CASE snap[h] = i
  BY <1>3 DEF Renames, ID
<1> QED
  BY <1>1, <1>2, <1>3 DEF Known

LEMMA RouteInit == Init => RouteInv
<1> SUFFICES ASSUME Init  PROVE Outward /\ OneID
  BY TypeInit DEF RouteInv
<1>1. Outward
  BY HostAssumption DEF Init, Outward
<1>2. \A h \in Host : \A i \in ID : ~Known(h, i)
  BY HostAssumption DEF Init, Known, ID
<1> QED
  BY <1>1, <1>2 DEF OneID

\* A step that changes no id, route, message or snapshot, or drops some.
LEMMA Quietly ==
  ASSUME RouteInv, cause \subseteq cause', UNCHANGED <<snap>>, msgs' \subseteq msgs,
         \A y \in Host : \A i \in ID : table'[y][i] \in {table[y][i], NoHost},
         \A x \in Host : HasID(x)' => HasID(x) /\ id'[x] = id[x]
  PROVE  Outward' /\ ("renamed" \notin cause' => OneID')
<1>1. Outward'
  BY HostAssumption DEF RouteInv, Outward
<1>2. TableFrom /\ MessagesFrom /\ SnapFrom /\ IDsFrom
  BY DEF TableFrom, MessagesFrom, SnapFrom, IDsFrom
<1> QED
  BY <1>1, <1>2, Agreement DEF RouteInv

\* h takes an id.
Taken(h, new) ==
  /\ new \in ID /\ id' = [id EXCEPT ![h] = new]
  /\ \A x \in Host \ {h} : pc'[x] = pc[x]
  /\ cause \subseteq cause' /\ (Renames(h, new) => "renamed" \in cause')
  /\ UNCHANGED <<table, snap, msgs>>

LEMMA IDTaken ==
  ASSUME RouteInv, NEW h \in Host, NEW new, Taken(h, new)
  PROVE  Outward' /\ ("renamed" \notin cause' => OneID')
<1>1. RouterTypeOK /\ Outward
  BY DEF RouteInv, TypeInv
<1>2. Outward'
  BY <1>1 DEF Outward, Taken
<1>3. \A x \in Host \ {h} : HasID(x)' => HasID(x) /\ id'[x] = id[x]
  BY <1>1 DEF Taken, HasID, RouterTypeOK
<1>4. id'[h] = new
  BY <1>1 DEF Taken, RouterTypeOK
<1>5. ASSUME "renamed" \notin cause'
      PROVE  \A i \in ID : Known(h, i)' => new = i
  BY <1>1, <1>5, Uncontradicted DEF Taken
<1>6. ASSUME "renamed" \notin cause'
      PROVE  IDsFrom
  BY <1>3, <1>4, <1>5, <1>6 DEF IDsFrom
<1>7. TableFrom /\ MessagesFrom /\ SnapFrom
  BY DEF Taken, TableFrom, MessagesFrom, SnapFrom
<1> QED
  BY <1>2, <1>6, <1>7, Agreement DEF RouteInv, Taken

LEMMA RouteStart ==
  ASSUME RouteInv, NEW h \in Host,
         Boot(h) \/ ConnectNeighbor(h) \/ TakeID(h) \/ BeginID(h)
  PROVE  Outward' /\ ("renamed" \notin cause' => OneID')
<1>0. RouterTypeOK
  BY DEF RouteInv, TypeInv
<1>1. CASE Boot(h)
  <2>1. \A x \in Host : HasID(x)' => HasID(x) /\ id'[x] = id[x]
    BY <1>0, <1>1 DEF Boot, Goto, HasID, RouterTypeOK
  <2>2. cause \subseteq cause' /\ UNCHANGED <<table, snap, msgs>>
    BY <1>1 DEF Boot, Fault
  <2> QED
    BY <2>1, <2>2, Quietly
<1>2. CASE ConnectNeighbor(h)
  <2> DEFINE g == Head(todo[h])
             k == id[g]
  <2>1. /\ pc[h] = "topology" /\ g \in Host
        /\ UNCHANGED <<pc, id, idMax, snap, at, best, msgs, boots>>
    BY <1>0, <1>2 DEF ConnectNeighbor, RouterTypeOK
  <2>2. \/ Up(g) /\ cause' = cause /\ table' = [table EXCEPT ![h][k] = g]
        \/ cause \subseteq cause' /\ table' = table
    BY <1>2 DEF ConnectNeighbor, Answers, Fails, Fault
  <2>3. Up(g) => g # h /\ HasID(g)
    BY <2>1 DEF Up, HasID
  <2> HIDE DEF g, k
  <2>4. \A y \in Host : \A i \in ID :
          \/ table'[y][i] = table[y][i]
          \/ y = h /\ i = k /\ table'[y][i] = g /\ Up(g)
    <3>1. table \in [Host -> [ID -> Host \cup {NoHost}]]
      BY <1>0 DEF RouterTypeOK
    <3>2. CASE table' = table
      BY <3>2
    <3>3. CASE Up(g) /\ table' = [table EXCEPT ![h][k] = g]
      BY <3>1, <3>3
    <3> QED
      BY <2>2, <3>2, <3>3
  <2>5. Outward'
    BY <2>1, <2>3, <2>4 DEF RouteInv, Outward
  <2>6. \A i \in ID : i = k /\ Up(g) => Own(g, i)
    BY <2>3 DEF Own, k
  <2>7. TableFrom
    BY <2>4, <2>6 DEF TableFrom
  <2>8. MessagesFrom /\ SnapFrom /\ IDsFrom
    BY <2>1 DEF MessagesFrom, SnapFrom, IDsFrom, HasID
  <2>9. cause \subseteq cause'
    BY <2>2
  <2> QED
    BY <2>5, <2>7, <2>8, <2>9, Agreement DEF RouteInv
<1>3. CASE TakeID(h)
  <2> DEFINE new == IF snap[h] = 0 THEN 1 ELSE snap[h]
  <2>1. new \in ID
    BY <1>0, JoinBounds DEF RouterTypeOK, ID
  <2>2. /\ id' = [id EXCEPT ![h] = new] /\ (\A x \in Host \ {h} : pc'[x] = pc[x])
        /\ cause \subseteq cause' /\ (Renames(h, new) => "renamed" \in cause')
        /\ UNCHANGED <<table, snap, msgs>>
    BY <1>0, <1>3 DEF TakeID, Rewind, Goto, RouterTypeOK
  <2> HIDE DEF new
  <2>3. Taken(h, new)
    BY <2>1, <2>2 DEF Taken
  <2> QED
    BY <2>3, IDTaken
<1>4. CASE BeginID(h)
  <2>1. \A x \in Host : HasID(x)' => HasID(x) /\ id'[x] = id[x]
    BY <1>0, <1>4 DEF BeginID, Rewind, Goto, HasID, RouterTypeOK
  <2>2. UNCHANGED <<table, snap, msgs, cause>>
    BY <1>4 DEF BeginID
  <2> QED
    BY <2>1, <2>2, Quietly
<1> QED
  BY <1>1, <1>2, <1>3, <1>4

LEMMA RouteID ==
  ASSUME RouteInv, NEW h \in Host, CheckRepeat(h) \/ AskMax(h) \/ NewID(h)
  PROVE  Outward' /\ ("renamed" \notin cause' => OneID')
<1>0. RouterTypeOK
  BY DEF RouteInv, TypeInv
<1>1. CASE CheckRepeat(h)
  <2>1. /\ pc[h] = "check" /\ id[h] = snap[h] /\ snap[h] \in ID
        /\ UNCHANGED <<id, table, snap, todo, best, msgs, boots>>
    BY <1>0, <1>1 DEF CheckRepeat, RouteInv, TypeInv, Starting, RouterTypeOK, ID
  <2>2. cause \subseteq cause'
    BY <1>1 DEF CheckRepeat, Answers, Fails, Fault
  <2>3. Outward'
    BY <2>1 DEF RouteInv, Outward
  <2>4. \A x \in Host \ {h} : pc'[x] = pc[x]
    BY <1>0, <1>1 DEF CheckRepeat, Rewind, Goto, RouterTypeOK
  <2>5. ASSUME OneID
        PROVE  IDsFrom
    <3>1. \A i \in ID : Known(h, i) => id[h] = i
      BY <2>1, <2>5 DEF OneID, Known
    <3>2. \A i \in ID : Known(h, i)' => id'[h] = i
      BY <2>1, <3>1 DEF Known
    <3> QED
      BY <2>1, <2>4, <3>2 DEF IDsFrom, HasID
  <2>6. TableFrom /\ MessagesFrom /\ SnapFrom
    BY <2>1 DEF TableFrom, MessagesFrom, SnapFrom
  <2> QED
    BY <2>2, <2>3, <2>5, <2>6, Agreement DEF RouteInv
<1>2. CASE AskMax(h)
  <2>1. UNCHANGED <<pc, id, table, snap, msgs>> /\ cause \subseteq cause'
    BY <1>2 DEF AskMax, Answers, Fails, Fault
  <2> QED
    BY <2>1, Quietly DEF HasID
<1>3. CASE NewID(h)
  <2> DEFINE new == best[h] + 1
  <2>1. new \in ID
    BY <1>0, <1>3, JoinBounds DEF NewID, RouterTypeOK, ID
  <2>2. /\ id' = [id EXCEPT ![h] = new] /\ (\A x \in Host \ {h} : pc'[x] = pc[x])
        /\ cause \subseteq cause' /\ (Renames(h, new) => "renamed" \in cause')
        /\ UNCHANGED <<table, snap, msgs>>
    BY <1>0, <1>3 DEF NewID, Rewind, Goto, RouterTypeOK
  <2> HIDE DEF new
  <2>3. Taken(h, new)
    BY <2>1, <2>2 DEF Taken
  <2> QED
    BY <2>3, IDTaken
<1> QED
  BY <1>1, <1>2, <1>3

LEMMA RouteTable ==
  ASSUME RouteInv, NEW h \in Host,
         FetchTable(h) \/ FetchEnd(h) \/ Update(h) \/ Serve(h)
  PROVE  Outward' /\ ("renamed" \notin cause' => OneID')
<1>0. RouterTypeOK
  BY DEF RouteInv, TypeInv
<1>1. CASE FetchTable(h)
  <2> DEFINE g == table[h][Min(Rest(h))]
  <2>1. g \in Host
    BY <1>0, <1>1, Visited DEF FetchTable
  <2>2. /\ pc[h] = "table" /\ UNCHANGED <<id, snap, msgs>> /\ cause \subseteq cause'
        /\ table' = [table EXCEPT ![h] = Learn(h, g)] \/ table' = table
        /\ pc' = [pc EXCEPT ![h] = "update"] \/ pc' = pc
    BY <1>1 DEF FetchTable, Rewind, Goto, Answers, Fails, Fault
  <2> HIDE DEF g
  <2>3. \A x \in Host : HasID(x)' => HasID(x) /\ id'[x] = id[x]
    BY <1>0, <2>2 DEF HasID, RouterTypeOK
  <2>4. \A y \in Host : \A i \in ID :
          \/ table'[y][i] = table[y][i]
          \/ y = h /\ table'[y][i] = table[g][i] /\ table[g][i] # h
    <3>1. \A i \in ID : \/ Learn(h, g)[i] = table[h][i]
                        \/ Learn(h, g)[i] = table[g][i] /\ table[g][i] # h
      BY DEF Learn
    <3>2. table' = table \/ (table'[h] = Learn(h, g)
                            /\ \A y \in Host \ {h} : table'[y] = table[y])
      BY <1>0, <2>2 DEF RouterTypeOK
    <3> QED
      BY <3>1, <3>2
  <2>5. Outward'
    BY <2>2, <2>4 DEF RouteInv, Outward
  <2>6. TableFrom /\ MessagesFrom /\ SnapFrom /\ IDsFrom
    BY <2>1, <2>2, <2>3, <2>4 DEF TableFrom, MessagesFrom, SnapFrom, IDsFrom
  <2> QED
    BY <2>2, <2>5, <2>6, Agreement DEF RouteInv
<1>2. CASE FetchEnd(h) \/ Serve(h)
  <2>1. \A x \in Host : HasID(x)' => HasID(x) /\ id'[x] = id[x]
    BY <1>0, <1>2 DEF FetchEnd, Serve, Rewind, Goto, HasID, RouterTypeOK
  <2>2. UNCHANGED <<table, snap, msgs, cause>>
    BY <1>2 DEF FetchEnd, Serve
  <2> QED
    BY <2>1, <2>2, Quietly
<1>3. CASE Update(h)
  <2> DEFINE i == Min(Rest(h))
             g == table[h][i]
             x == [to |-> g, ip |-> h, src |-> id[h], max |-> idMax[h]]
  <2>1. i \in ID /\ g \in Host
    BY <1>0, <1>3, Visited DEF Update
  <2>2. /\ HasID(h) /\ UNCHANGED <<pc, id, snap, cause>>
        /\ \/ msgs' = msgs \cup {x} /\ table' = table
           \/ msgs' = msgs /\ table' = [table EXCEPT ![h][i] = NoHost]
    BY <1>3 DEF Update, HasID
  <2>3. x.to # x.ip /\ Own(x.ip, x.src)
    BY <2>1, <2>2 DEF RouteInv, Outward, Own
  <2> HIDE DEF i, g, x
  <2>4. \A y \in Host : \A k \in ID : table'[y][k] \in {table[y][k], NoHost}
    <3>1. table' = [table EXCEPT ![h][i] = NoHost] \/ table' = table
      BY <2>2
    <3>2. table \in [Host -> [ID -> Host \cup {NoHost}]]
      BY <1>0 DEF RouterTypeOK
    <3> QED
      BY <3>1, <3>2
  <2>5. Outward'
    BY <2>2, <2>3, <2>4, HostAssumption DEF RouteInv, Outward
  <2>6. TableFrom /\ SnapFrom /\ IDsFrom
    BY <2>2, <2>4 DEF TableFrom, SnapFrom, IDsFrom, HasID
  <2>7. MessagesFrom
    BY <2>2, <2>3 DEF MessagesFrom
  <2> QED
    BY <2>2, <2>5, <2>6, <2>7, Agreement DEF RouteInv
<1> QED
  BY <1>1, <1>2, <1>3

LEMMA RouteRun ==
  ASSUME RouteInv, NEW h \in Host, HandleUpdate(h) \/ SendFails(h) \/ Stop(h) \/ Crash(h)
  PROVE  Outward' /\ ("renamed" \notin cause' => OneID')
<1>0. RouterTypeOK
  BY DEF RouteInv, TypeInv
<1>1. CASE HandleUpdate(h)
  <2>1. PICK x \in msgs : /\ x.to = h /\ msgs' = msgs \ {x}
                          /\ table' = [table EXCEPT ![h][x.src] = x.ip]
    BY <1>1 DEF HandleUpdate
  <2>2. UNCHANGED <<pc, id, snap, cause>>
    BY <1>1 DEF HandleUpdate
  <2>3. x.ip # h
    BY <2>1 DEF RouteInv, Outward
  <2>4. \A y \in Host : \A i \in ID :
          \/ table'[y][i] = table[y][i]
          \/ y = h /\ i = x.src /\ table'[y][i] = x.ip
    BY <1>0, <2>1 DEF RouterTypeOK
  <2>5. Outward'
    BY <2>1, <2>3, <2>4 DEF RouteInv, Outward
  <2>6. TableFrom
    BY <2>4 DEF TableFrom
  <2>7. MessagesFrom /\ SnapFrom /\ IDsFrom
    BY <2>1, <2>2 DEF MessagesFrom, SnapFrom, IDsFrom, HasID
  <2> QED
    BY <2>2, <2>5, <2>6, <2>7, Agreement DEF RouteInv
<1>2. CASE SendFails(h)
  <2>1. PICK k \in Routes(h) : table' = [table EXCEPT ![h][k] = NoHost]
    BY <1>2 DEF SendFails
  <2>2. \A y \in Host : \A i \in ID : table'[y][i] \in {table[y][i], NoHost}
    BY <1>0, <2>1 DEF RouterTypeOK
  <2>3. cause \subseteq cause' /\ UNCHANGED <<pc, id, snap, msgs>>
    BY <1>2 DEF SendFails
  <2> QED
    BY <2>2, <2>3, Quietly DEF HasID
<1>3. ASSUME Leave(h), cause \subseteq cause', SnapFrom
      PROVE  Outward' /\ ("renamed" \notin cause' => OneID')
  <2>1. \A y \in Host : \A i \in ID : table'[y][i] \in {table[y][i], NoHost}
    <3>1. table'[h] = [i \in ID |-> NoHost]
      BY <1>0, <1>3 DEF Leave, RouterTypeOK
    <3>2. \A y \in Host \ {h} : table'[y] = table[y]
      BY <1>3, LeaveType DEF RouteInv
    <3> QED
      BY <3>1, <3>2
  <2>2. \A x \in Host : HasID(x)' => HasID(x) /\ id'[x] = id[x]
    BY <1>3, LeaveType DEF HasID, RouteInv
  <2>3. msgs' \subseteq msgs
    BY <1>3 DEF Leave
  <2>4. Outward'
    BY <2>1, <2>3, HostAssumption DEF RouteInv, Outward
  <2>5. TableFrom /\ MessagesFrom /\ IDsFrom
    BY <2>1, <2>2, <2>3 DEF TableFrom, MessagesFrom, IDsFrom
  <2> QED
    BY <1>3, <2>4, <2>5, Agreement DEF RouteInv
<1>4. CASE Stop(h)
  <2>1. Leave(h) /\ cause \subseteq cause'
    BY <1>4 DEF Stop, Fault
  <2>2. SnapFrom
    BY <1>0, <1>4 DEF Stop, Up, SnapFrom, Own, HasID, RouterTypeOK
  <2> QED
    BY <1>3, <2>1, <2>2
<1>5. CASE Crash(h)
  BY <1>3, <1>5 DEF Crash, Fault, SnapFrom
<1> QED
  BY <1>1, <1>2, <1>4, <1>5

LEMMA RouteNext == RouteInv /\ [Next]_jvars => RouteInv'
<1> SUFFICES ASSUME RouteInv, [Next]_jvars
             PROVE  Outward' /\ ("renamed" \notin cause' => OneID')
  BY TypeNext DEF RouteInv
<1>1. CASE \E h \in Host : Boot(h) \/ Join(h) \/ HandleUpdate(h) \/ SendFails(h) \/ Stop(h)
                           \/ Crash(h)
  BY <1>1, RouteStart, RouteID, RouteTable, RouteRun DEF Join
<1>2. CASE LoseUpdate
  <2>1. cause \subseteq cause' /\ msgs' \subseteq msgs /\ UNCHANGED <<pc, id, table, snap>>
    BY <1>2 DEF LoseUpdate, Fault
  <2> QED
    BY <2>1, Quietly DEF HasID
<1>3. CASE UNCHANGED jvars
  <2>1. cause' = cause /\ msgs' = msgs /\ UNCHANGED <<pc, id, table, snap>>
    BY <1>3 DEF jvars
  <2> QED
    BY <2>1, Quietly DEF HasID
<1> QED
  BY <1>1, <1>2, <1>3 DEF Next

\* Whatever machines start, stop, crash and lose: a route leads to the machine that has
\* the id, as long as no machine has taken another id than one it is known by.
THEOREM RoutesCorrect == Spec => []RoutesLead
<1>1. Init => RouteInv
  BY RouteInit
<1>2. RouteInv /\ [Next]_jvars => RouteInv'
  BY RouteNext
<1>3. RouteInv => RoutesLead
  <2> SUFFICES ASSUME RouteInv, "renamed" \notin cause, NEW h \in Host, NEW i \in Routes(h),
                      HasID(table[h][i])
               PROVE  id[table[h][i]] = i
    BY DEF RoutesLead
  <2>1. i \in ID /\ table[h][i] \in Host
    BY Visited DEF RouteInv, TypeInv
  <2>2. Known(table[h][i], i)
    BY DEF Known
  <2> QED
    BY <2>1, <2>2 DEF RouteInv, OneID
<1> QED
  BY <1>1, <1>2, <1>3, PTL DEF Spec

-----------------------------------------------------------------------------
(* Who knows whom.                                                         *)

\* h has a route to g, or what g told it is on its way.
Knows(h, g) == table[h][id[g]] = g
Told(h, g) == Knows(h, g) \/ \E m \in msgs : m.to = h /\ m.ip = g

\* One machine joins at a time, and all updates are from the last one that did.
OneJoins ==
  /\ \A g, h \in Host : Joining(g) /\ Joining(h) => g = h
  /\ \A m \in msgs : /\ pc[m.ip] \in {"update", "up"} /\ m.src = id[m.ip] /\ m.src <= m.max
                     /\ Up(m.to)
                     /\ \A l \in msgs : l.ip = m.ip
                     /\ \A h \in Host : Joining(h) => h = m.ip

Distinct == \A g, h \in Host : g # h /\ HasID(g) /\ HasID(h) => id[g] # id[h]

\* No route goes under the id of the machine itself, nor above the maximum it knows.
Foreign(h) ==
  HasID(h) => /\ table[h][id[h]] = NoHost
              /\ \A i \in Routes(h) : i <= idMax[h]

Linked == \A g, h \in Host : g # h /\ Up(g) /\ Up(h) => Told(h, g)

\* The routes lead to machines that run, under their ids; and to all of them.
Neighbors(h) == \A i \in Routes(h) : Up(table[h][i]) /\ id[table[h][i]] = i
Covers(h) == \A g \in Host : Up(g) => Knows(h, g)

\* The machine that is asked first.
First(h) == table[h][Min(Routes(h))]

\* What h has found out and told by the step its constructor is at.
Entered(h) ==
  /\ pc[h] = "off" => Routes(h) = {}
  /\ pc[h] \in {"topology", "check", "ask", "table"} => Neighbors(h)
  /\ pc[h] \in {"check", "ask", "table"} => Routes(h) # {}
  /\ pc[h] = "ask" => \A i \in Routes(h) : i < at[h] => idMax[table[h][i]] <= best[h]
  /\ pc[h] = "table" =>
       /\ table[First(h)][id[h]] \in {h, NoHost} /\ idMax[First(h)] <= idMax[h]
       /\ at[h] = 1 \/ (Rest(h) = {} /\ Covers(h))
  /\ pc[h] = "update" =>
       /\ Covers(h)
       /\ \A g \in Host : Up(g) /\ id[g] < at[h] => Told(g, h)

MeshInv ==
  /\ OneJoins /\ Distinct /\ Linked
  /\ \A h \in Host : Foreign(h) /\ Entered(h)

JoinInv == RouteInv /\ (Provided => MeshInv)

\* Every route is under an id, and the one an iterator is at is the least left.
LEMMA Least ==
  ASSUME RouterTypeOK, NEW h \in Host
  PROVE  /\ Routes(h) # {} => \A j \in Routes(h) : Min(Routes(h)) <= j
         /\ Rest(h) # {} => \A j \in Rest(h) : Min(Rest(h)) <= j
         /\ Rest(h) # {} => Min(Rest(h)) \in Rest(h)
         /\ at[h] = 1 => Rest(h) = Routes(h)
<1>1. Rest(h) \subseteq Routes(h) /\ Routes(h) \subseteq Nat
  BY DEF Rest, Routes, ID
<1>2. Routes(h) # {} => \A j \in Routes(h) : Min(Routes(h)) <= j
  BY <1>1, MinNat
<1>3. Rest(h) # {} => Min(Rest(h)) \in Rest(h) /\ \A j \in Rest(h) : Min(Rest(h)) <= j
  BY <1>1, MinNat
<1>4. at[h] = 1 => Rest(h) = Routes(h)
  BY DEF Rest, Routes, ID
<1> QED
  BY <1>2, <1>3, <1>4

\* While h joins every other machine runs or is off, and nobody has heard of h before
\* it sends its updates.
LEMMA Joiner ==
  ASSUME RouteInv, MeshInv, NEW h \in Host, Joining(h)
  PROVE  /\ \A g \in Host \ {h} : pc[g] = "off" \/ Up(g)
         /\ pc[h] # "update" => msgs = {}
         /\ \A g \in Host : Up(g) => g # h
<1>1. \A g \in Host \ {h} : pc[g] = "off" \/ Up(g)
  BY DEF MeshInv, OneJoins, Joining, Up
<1>2. pc[h] # "update" => msgs = {}
  BY DEF MeshInv, OneJoins, Joining
<1> QED
  BY <1>1, <1>2 DEF Joining, Up

\* When nothing is on its way, machines that run know each other.
LEMMA Acquainted ==
  ASSUME RouteInv, MeshInv, msgs = {}, NEW f \in Host, NEW g \in Host, Up(f), Up(g)
  PROVE  /\ g # f => table[f][id[g]] = g
         /\ id[g] \in ID /\ id[g] <= idMax[f] /\ idMax[f] \in Nat
<1>1. \A x \in {f, g} : HasID(x) /\ id[x] \in ID /\ id[x] <= idMax[x] /\ idMax[x] \in Nat
  BY JoinBounds DEF RouteInv, TypeInv, RouterTypeOK, Up, HasID, ID
<1>2. CASE f = g
  BY <1>1, <1>2
<1>3. CASE f # g
  <2>1. table[f][id[g]] = g
    BY <1>3 DEF MeshInv, Linked, Told, Knows
  <2>2. id[g] \in Routes(f)
    BY <1>1, <2>1, HostAssumption DEF Routes
  <2> QED
    BY <1>1, <2>1, <2>2 DEF MeshInv, Foreign
<1> QED
  BY <1>2, <1>3

LEMMA Heard ==
  ASSUME NEW g, Fails(g), Provided'
  PROVE  ~Up(g) /\ cause' = cause
BY DEF Fails, Fault, Provided

\* A step of h that leaves the others alone.
Apart(h) ==
  /\ \A g \in Host \ {h} : /\ pc'[g] = pc[g] /\ id'[g] = id[g] /\ idMax'[g] = idMax[g]
                           /\ table'[g] = table[g]
  /\ msgs' = msgs

\* A step of a machine that joins and has told nobody yet.
LEMMA JoinStep ==
  ASSUME RouteInv, MeshInv, NEW h \in Host, Joining(h), Joining(h)', pc[h] # "update", Apart(h),
         HasID(h)' => \A g \in Host : Up(g) => id[g] # id'[h],
         Foreign(h)', Entered(h)'
  PROVE  MeshInv'
<1>0. /\ \A g \in Host \ {h} : pc[g] = "off" \/ Up(g)
      /\ msgs = {} /\ msgs' = {}
  BY Joiner DEF Apart
<1>1. \A g \in Host \ {h} : pc'[g] = "off" \/ (pc'[g] = "up" /\ Up(g) /\ Up(g)')
  BY <1>0 DEF Apart, Up
<1>2. OneJoins'
  BY <1>0, <1>1 DEF OneJoins, Joining
<1>3. Distinct'
  BY <1>1 DEF MeshInv, Distinct, HasID, Apart, Up
<1>4. Linked'
  <2> SUFFICES ASSUME NEW f \in Host, NEW g \in Host, g # f, Up(f)', Up(g)'
               PROVE  table'[f][id'[g]] = g
    BY DEF Linked, Told, Knows
  <2>1. f # h /\ g # h
    BY DEF Joining, Up
  <2>2. Up(f) /\ Up(g) /\ table'[f] = table[f] /\ id'[g] = id[g]
    BY <2>1 DEF Apart, Up
  <2> QED
    BY <1>0, <2>2, Acquainted
<1>5. \A g \in Host \ {h} : Foreign(g)'
  BY <1>1 DEF MeshInv, Foreign, HasID, Apart, Up, Routes
<1>6. \A g \in Host \ {h} : Entered(g)'
  <2> SUFFICES ASSUME NEW g \in Host \ {h}  PROVE Entered(g)'
    OBVIOUS
  <2>1. pc'[g] = "off" => Routes(g)' = {}
    BY DEF Apart, MeshInv, Entered, Routes
  <2>2. pc'[g] \in {"off", "up"}
    BY <1>1
  <2> QED
    BY <2>1, <2>2 DEF Entered
<1> QED
  BY <1>2, <1>3, <1>4, <1>5, <1>6 DEF MeshInv


LEMMA MeshNeighbor ==
  ASSUME RouteInv, MeshInv, Provided', NEW h \in Host, ConnectNeighbor(h)
  PROVE  MeshInv'
<1> DEFINE g == Head(todo[h])
           k == id[g]
<1>0. RouterTypeOK
  BY DEF RouteInv, TypeInv
<1>1. /\ pc[h] = "topology" /\ UNCHANGED <<pc, id, idMax, msgs>> /\ g \in Host
      /\ \/ Up(g) /\ table' = [table EXCEPT ![h][k] = g]
         \/ table' = table
  <2>1. g \in Host
    BY <1>0 DEF ConnectNeighbor, RouterTypeOK
  <2> QED
    BY <2>1 DEF ConnectNeighbor, Answers
<1>2. Joining(h) /\ Joining(h)' /\ ~HasID(h)'
  BY <1>1 DEF Joining, HasID
<1>3. Up(g) => k \in ID
  BY <1>0, <1>1 DEF Up, RouterTypeOK, ID
<1> HIDE DEF g, k
<1>4. /\ \A x \in Host \ {h} : table'[x] = table[x]
      /\ \A i \in ID : \/ table'[h][i] = table[h][i]
                       \/ i = k /\ table'[h][i] = g /\ Up(g)
  <2>1. table \in [Host -> [ID -> Host \cup {NoHost}]]
    BY <1>0 DEF RouterTypeOK
  <2>2. CASE table' = table
    BY <2>2
  <2>3. CASE Up(g) /\ table' = [table EXCEPT ![h][k] = g]
    BY <1>3, <2>1, <2>3
  <2> QED
    BY <1>1, <2>2, <2>3
<1>5. Apart(h)
  BY <1>1, <1>4 DEF Apart
<1>6. Neighbors(h)'
  <2> SUFFICES ASSUME NEW i \in Routes(h)'
               PROVE  Up(table'[h][i]) /\ id[table'[h][i]] = i
    BY <1>1 DEF Neighbors, Up
  <2>1. i \in ID /\ table'[h][i] # NoHost
    BY DEF Routes
  <2>2. CASE table'[h][i] = table[h][i]
    BY <1>1, <2>1, <2>2 DEF MeshInv, Entered, Neighbors, Routes
  <2>3. CASE i = k /\ table'[h][i] = g /\ Up(g)
    BY <2>3 DEF k
  <2> QED
    BY <1>4, <2>1, <2>2, <2>3
<1>7. Entered(h)'
  BY <1>1, <1>6 DEF Entered
<1>8. Foreign(h)'
  BY <1>2 DEF Foreign
<1> QED
  BY <1>1, <1>2, <1>5, <1>7, <1>8, JoinStep

\* The first of all machines, or one that none of those that run could be told of.
LEMMA MeshTakeID ==
  ASSUME RouteInv, MeshInv, Provided', NEW h \in Host, TakeID(h)
  PROVE  MeshInv'
<1>0. RouterTypeOK
  BY DEF RouteInv, TypeInv
<1> DEFINE new == IF snap[h] = 0 THEN 1 ELSE snap[h]
<1>1. /\ pc[h] = "topology" /\ Routes(h) = {} /\ UNCHANGED <<table, msgs>>
      /\ id' = [id EXCEPT ![h] = new] /\ idMax' = [idMax EXCEPT ![h] = new]
      /\ pc' = [pc EXCEPT ![h] = "update"]
      /\ (\E g \in Host : Up(g)) => "apart" \in cause'
  BY DEF TakeID, Listed, Rewind, Goto
<1>2. new \in ID
  BY <1>0, JoinBounds DEF RouterTypeOK, ID
<1> HIDE DEF new
<1>3. /\ pc'[h] = "update" /\ id'[h] = new /\ idMax'[h] = new
      /\ \A g \in Host \ {h} : pc'[g] = pc[g] /\ id'[g] = id[g] /\ idMax'[g] = idMax[g]
  BY <1>0, <1>1 DEF RouterTypeOK
<1>4. \A g \in Host : ~Up(g) /\ ~Up(g)'
  BY <1>1, <1>3 DEF Provided, Up
<1>5. Apart(h) /\ Joining(h) /\ Joining(h)'
  BY <1>1, <1>3 DEF Apart, Joining
<1>6. Routes(h)' = {}
  BY <1>1 DEF Routes
<1>7. table'[h][id'[h]] = NoHost
  BY <1>1, <1>2, <1>3 DEF Routes
<1>8. Foreign(h)'
  BY <1>6, <1>7 DEF Foreign
<1>9. Entered(h)'
  BY <1>3, <1>4 DEF Entered, Covers
<1> QED
  BY <1>1, <1>4, <1>5, <1>8, <1>9, JoinStep

LEMMA MeshBeginID ==
  ASSUME RouteInv, MeshInv, Provided', NEW h \in Host, BeginID(h)
  PROVE  MeshInv'
<1>0. RouterTypeOK
  BY DEF RouteInv, TypeInv
<1>1. /\ pc[h] = "topology" /\ Routes(h) # {} /\ UNCHANGED <<table, msgs, id, idMax, best>>
      /\ pc' = [pc EXCEPT ![h] = "ask"] \/ pc' = [pc EXCEPT ![h] = "check"]
      /\ at' = [at EXCEPT ![h] = 1]
  BY DEF BeginID, Listed, Rewind, Goto
<1>2. /\ pc'[h] \in {"ask", "check"} /\ at'[h] = 1
      /\ \A g \in Host \ {h} : pc'[g] = pc[g]
  BY <1>0, <1>1 DEF RouterTypeOK
<1>3. Apart(h) /\ Joining(h) /\ Joining(h)' /\ ~HasID(h)'
  BY <1>1, <1>2 DEF Apart, Joining, HasID
<1>4. \A g \in Host : Up(g)' <=> Up(g)
  BY <1>1, <1>2 DEF Up
<1>5. Neighbors(h)'
  <2>1. Neighbors(h)
    BY <1>1 DEF MeshInv, Entered
  <2>2. \A i \in Routes(h) : table[h][i] \in Host
    BY <1>0, Visited
  <2> QED
    BY <1>1, <1>4, <2>1, <2>2 DEF Neighbors, Routes
<1>6. Routes(h)' # {} /\ \A i \in Routes(h)' : ~(i < at'[h])
  BY <1>1, <1>2 DEF Routes, ID
<1>7. Entered(h)'
  BY <1>2, <1>5, <1>6 DEF Entered
<1>8. Foreign(h)'
  BY <1>3 DEF Foreign
<1> QED
  BY <1>1, <1>3, <1>7, <1>8, JoinStep

\* A machine of the list that runs answers for all that run.
LEMMA Asked ==
  ASSUME RouteInv, MeshInv, NEW h \in Host, pc[h] \in {"check", "ask", "table"}
  PROVE  /\ First(h) \in Host /\ Up(First(h)) /\ id[First(h)] = Min(Routes(h)) /\ First(h) # h
         /\ Min(Routes(h)) \in Routes(h) /\ msgs = {} /\ Joining(h)
         /\ \A i \in Routes(h) : Up(table[h][i]) /\ id[table[h][i]] = i /\ table[h][i] \in Host
         /\ \A g \in Host : Up(g) => id[g] \in ID /\ id[g] <= idMax[First(h)]
         /\ idMax[First(h)] \in Nat
         /\ \A g \in Host \ {First(h)} : Up(g) => table[First(h)][id[g]] = g
<1>1. RouterTypeOK /\ Joining(h)
  BY DEF RouteInv, TypeInv, Joining
<1>2. Routes(h) # {} /\ Neighbors(h)
  BY DEF MeshInv, Entered
<1>3. Min(Routes(h)) \in Routes(h) /\ \A i \in Routes(h) : table[h][i] \in Host
  BY <1>1, <1>2, Visited
<1>4. /\ \A i \in Routes(h) : Up(table[h][i]) /\ id[table[h][i]] = i
      /\ First(h) \in Host /\ Up(First(h)) /\ id[First(h)] = Min(Routes(h))
  BY <1>2, <1>3 DEF Neighbors, First
<1>5. msgs = {} /\ First(h) # h
  BY <1>1, <1>4, Joiner
<1>6. /\ \A g \in Host : Up(g) => id[g] \in ID /\ id[g] <= idMax[First(h)]
      /\ idMax[First(h)] \in Nat
      /\ \A g \in Host \ {First(h)} : Up(g) => table[First(h)][id[g]] = g
  BY <1>4, <1>5, Acquainted
<1> QED
  BY <1>1, <1>3, <1>4, <1>5, <1>6


LEMMA MeshCheck ==
  ASSUME RouteInv, MeshInv, Provided', NEW h \in Host, CheckRepeat(h)
  PROVE  MeshInv'
<1> DEFINE f == First(h)
           top == Max({id[h], idMax[f]})
<1>0. RouterTypeOK /\ pc[h] = "check" /\ id[h] \in ID
  <2>1. RouterTypeOK /\ Starting
    BY DEF RouteInv, TypeInv
  <2>2. pc[h] = "check"
    BY DEF CheckRepeat
  <2>3. id[h] = snap[h] /\ snap[h] # 0
    BY <2>1, <2>2 DEF Starting
  <2>4. id[h] \in ID
    BY <2>1, <2>3 DEF RouterTypeOK, ID
  <2> QED
    BY <2>1, <2>2, <2>4
<1>1. /\ f \in Host /\ Up(f) /\ id[f] = Min(Routes(h)) /\ f # h
      /\ Min(Routes(h)) \in Routes(h) /\ msgs = {} /\ Joining(h)
      /\ \A i \in Routes(h) : Up(table[h][i]) /\ id[table[h][i]] = i /\ table[h][i] \in Host
      /\ \A g \in Host : Up(g) => id[g] \in ID /\ id[g] <= idMax[f]
      /\ idMax[f] \in Nat
      /\ \A g \in Host \ {f} : Up(g) => table[f][id[g]] = g
  BY <1>0, Asked
<1>2. /\ UNCHANGED <<id, table, msgs, best>> /\ at' = [at EXCEPT ![h] = 1]
      /\ \/ /\ Available(f, h, id[h]) /\ idMax' = [idMax EXCEPT ![h] = top]
            /\ pc' = [pc EXCEPT ![h] = "table"]
         \/ idMax' = idMax /\ pc' = [pc EXCEPT ![h] = "ask"]
  BY DEF CheckRepeat, Rewind, Goto, First
<1>3. /\ at'[h] = 1 /\ pc'[h] \in {"ask", "table"}
      /\ \A g \in Host \ {h} : pc'[g] = pc[g] /\ idMax'[g] = idMax[g]
  BY <1>0, <1>2 DEF RouterTypeOK
<1>4. Apart(h) /\ Joining(h)'
  BY <1>2, <1>3 DEF Apart, Joining
<1>5. \A g \in Host : Up(g)' <=> Up(g)
  BY <1>1, <1>3, <1>4 DEF Up, Joining
<1>6. Neighbors(h)' /\ Routes(h)' # {} /\ First(h)' = f
  BY <1>1, <1>2, <1>5 DEF Neighbors, Routes, First
<1>7. CASE pc'[h] = "ask"
  <2>1. \A i \in Routes(h)' : ~(i < at'[h])
    BY <1>3 DEF Routes, ID
  <2>2. Entered(h)'
    BY <1>6, <1>7, <2>1 DEF Entered
  <2>3. ~HasID(h)' /\ Foreign(h)'
    BY <1>7 DEF HasID, Foreign
  <2> QED
    BY <1>0, <1>1, <1>4, <2>2, <2>3, JoinStep
<1>8. CASE pc'[h] = "table"
  <2>1. id[f] # id[h] /\ table[f][id[h]] \in {h, NoHost} /\ idMax'[h] = top
    <3>1. pc' # [pc EXCEPT ![h] = "ask"]
      BY <1>0, <1>8 DEF RouterTypeOK
    <3> QED
      BY <1>0, <1>2, <3>1 DEF Available, RouterTypeOK
  <2>2. top >= id[h] /\ top >= idMax[f] /\ top \in Nat
    <3>1. id[h] \in Int /\ idMax[f] \in Int /\ id[h] \in Nat
      BY <1>0, <1>1 DEF ID
    <3>2. top \in {id[h], idMax[f]} /\ top >= id[h] /\ top >= idMax[f]
      BY <3>1, MaxTwo, Zenon
    <3> HIDE DEF top
    <3> QED
      BY <1>1, <3>1, <3>2
  <2> HIDE DEF f, top
  <2>3. \A g \in Host : Up(g) => id[g] # id[h]
    <3> SUFFICES ASSUME NEW g \in Host, Up(g), id[g] = id[h]  PROVE FALSE
      OBVIOUS
    <3>1. g # f /\ g # h
      BY <1>1, <2>1 DEF Up, Joining
    <3> QED
      BY <1>1, <2>1, <3>1, HostAssumption
  <2>4. table'[h][id'[h]] = NoHost
    BY <1>0, <1>1, <1>2, <2>3 DEF Routes
  <2>5. \A i \in Routes(h)' : i <= idMax'[h]
    <3> SUFFICES ASSUME NEW i \in Routes(h)  PROVE i <= top
      BY <1>2, <2>1 DEF Routes
    <3>1. i <= idMax[f] /\ i \in Nat
      BY <1>1 DEF ID
    <3> QED
      BY <1>1, <2>2, <3>1
  <2>6. Foreign(h)'
    BY <2>4, <2>5 DEF Foreign
  <2>7. idMax'[f] <= idMax'[h]
    BY <1>1, <1>3, <2>1, <2>2
  <2>8. Entered(h)'
    BY <1>2, <1>3, <1>6, <1>8, <2>1, <2>7 DEF Entered
  <2> QED
    BY <1>0, <1>1, <1>2, <1>4, <2>3, <2>6, <2>8, JoinStep
<1> QED
  BY <1>3, <1>7, <1>8

LEMMA MeshAsk ==
  ASSUME RouteInv, MeshInv, Provided', NEW h \in Host, AskMax(h)
  PROVE  MeshInv'
<1> DEFINE i == Min(Rest(h))
           g == table[h][i]
           top == Max({best[h], idMax[g]})
<1>0. RouterTypeOK /\ pc[h] = "ask" /\ Rest(h) # {}
  BY DEF RouteInv, TypeInv, AskMax
<1>1. /\ Joining(h)
      /\ \A j \in Routes(h) : Up(table[h][j]) /\ id[table[h][j]] = j /\ table[h][j] \in Host
      /\ Routes(h) # {}
  BY <1>0, Asked
<1>2. /\ i \in Rest(h) /\ i \in Routes(h) /\ \A j \in Rest(h) : i <= j
  BY <1>0, Least, Visited
<1>3. g \in Host /\ Up(g)
  BY <1>1, <1>2
<1>4. /\ UNCHANGED <<pc, id, idMax, table, msgs>> /\ at' = [at EXCEPT ![h] = i + 1]
      /\ best' = [best EXCEPT ![h] = top]
  BY <1>3, Heard DEF AskMax, Advance
<1> HIDE DEF g
<1>5. best[h] \in Int /\ idMax[g] \in Int /\ top >= best[h] /\ top >= idMax[g] /\ top \in Int
  <2>1. best[h] \in Int /\ idMax[g] \in Int
    BY <1>0, <1>3 DEF RouterTypeOK
  <2>2. top \in {best[h], idMax[g]} /\ top >= best[h] /\ top >= idMax[g]
    BY <2>1, MaxTwo, Zenon
  <2> HIDE DEF top
  <2> QED
    BY <2>1, <2>2
<1> HIDE DEF top, i
<1>6. at'[h] = i + 1 /\ best'[h] = top
  BY <1>0, <1>4 DEF RouterTypeOK
<1>7. ASSUME NEW j \in Routes(h)', j < at'[h]
      PROVE  idMax'[table'[h][j]] <= best'[h]
  <2>1. j \in Routes(h) /\ j \in Nat /\ i \in Nat /\ at[h] \in Nat
    BY <1>0, <1>2, <1>4, <1>7 DEF Routes, ID, RouterTypeOK
  <2>2. idMax[table[h][j]] \in Int
    BY <1>0, <1>1, <2>1 DEF RouterTypeOK
  <2>3. CASE j < at[h]
    <3>1. idMax[table[h][j]] <= best[h]
      BY <1>0, <2>1, <2>3 DEF MeshInv, Entered
    <3> QED
      BY <1>4, <1>5, <1>6, <2>2, <3>1
  <2>4. CASE ~(j < at[h])
    <3>1. j \in Rest(h)
      BY <2>1, <2>4 DEF Rest
    <3>2. j = i
      BY <1>2, <1>6, <1>7, <2>1, <3>1
    <3> QED
      BY <1>4, <1>5, <1>6, <3>2 DEF g
  <2> QED
    BY <2>3, <2>4
<1>8. Apart(h) /\ Joining(h)' /\ ~HasID(h)'
  BY <1>0, <1>1, <1>4 DEF Apart, Joining, HasID
<1>9. Neighbors(h)' /\ Routes(h)' # {}
  BY <1>1, <1>4 DEF Neighbors, Routes, Up
<1>10. Entered(h)'
  BY <1>0, <1>4, <1>7, <1>9 DEF Entered
<1>11. Foreign(h)'
  BY <1>8 DEF Foreign
<1> QED
  BY <1>0, <1>1, <1>8, <1>10, <1>11, JoinStep

LEMMA MeshNewID ==
  ASSUME RouteInv, MeshInv, Provided', NEW h \in Host, NewID(h)
  PROVE  MeshInv'
<1> DEFINE f == First(h)
           new == best[h] + 1
<1>0. RouterTypeOK /\ pc[h] = "ask" /\ Rest(h) = {} /\ best[h] \in Nat /\ new \in ID
  <2>1. RouterTypeOK
    BY DEF RouteInv, TypeInv
  <2>2. pc[h] = "ask" /\ Rest(h) = {} /\ best[h] < MaxID
    BY DEF NewID
  <2>3. best[h] \in 0..MaxID
    BY <2>1 DEF RouterTypeOK
  <2> QED
    BY <2>1, <2>2, <2>3, JoinBounds DEF ID
<1>1. /\ f \in Host /\ Up(f) /\ id[f] = Min(Routes(h)) /\ f # h
      /\ Min(Routes(h)) \in Routes(h) /\ msgs = {} /\ Joining(h)
      /\ \A i \in Routes(h) : Up(table[h][i]) /\ id[table[h][i]] = i /\ table[h][i] \in Host
      /\ \A g \in Host : Up(g) => id[g] \in ID /\ id[g] <= idMax[f]
      /\ idMax[f] \in Nat
      /\ \A g \in Host \ {f} : Up(g) => table[f][id[g]] = g
  BY <1>0, Asked
<1>2. /\ UNCHANGED <<table, msgs>> /\ at' = [at EXCEPT ![h] = 1]
      /\ id' = [id EXCEPT ![h] = new] /\ idMax' = [idMax EXCEPT ![h] = new]
      /\ pc' = [pc EXCEPT ![h] = "table"]
  BY DEF NewID, Rewind, Goto
<1>3. idMax[f] <= best[h]
  <2>1. Min(Routes(h)) < at[h]
    <3>1. Min(Routes(h)) \in Nat /\ at[h] \in Nat
      BY <1>0, <1>1 DEF Routes, ID, RouterTypeOK
    <3> QED
      BY <1>0, <1>1, <3>1 DEF Rest
  <2> QED
    BY <1>0, <1>1, <2>1 DEF MeshInv, Entered, First
<1>4. \A g \in Host : Up(g) => id[g] \in Nat /\ id[g] <= best[h]
  <2> SUFFICES ASSUME NEW g \in Host, Up(g)  PROVE id[g] \in Nat /\ id[g] <= best[h]
    OBVIOUS
  <2>1. id[g] \in Nat /\ id[g] <= idMax[f]
    BY <1>1 DEF ID
  <2> HIDE DEF f
  <2> QED
    BY <1>0, <1>1, <1>3, <2>1
<1>5. new > best[h] /\ new \in Nat
  BY <1>0
<1> HIDE DEF new, f
<1>6. /\ id'[h] = new /\ idMax'[h] = new /\ pc'[h] = "table" /\ at'[h] = 1
      /\ \A g \in Host \ {h} : pc'[g] = pc[g] /\ idMax'[g] = idMax[g] /\ id'[g] = id[g]
  BY <1>0, <1>2 DEF RouterTypeOK
<1>7. Apart(h) /\ Joining(h)'
  BY <1>2, <1>6 DEF Apart, Joining
<1>8. \A g \in Host : Up(g)' <=> Up(g)
  BY <1>1, <1>6, <1>7 DEF Up, Joining
<1>9. \A g \in Host : Up(g) => id[g] # new
  BY <1>0, <1>4, <1>5
<1>10. Neighbors(h)' /\ Routes(h)' # {} /\ First(h)' = f
  <2>1. \A g \in Host : Up(g) => id'[g] = id[g]
    BY <1>1, <1>6 DEF Up, Joining
  <2> QED
    BY <1>1, <1>2, <1>8, <2>1 DEF Neighbors, Routes, First, f
<1>11. table'[h][id'[h]] = NoHost
  BY <1>0, <1>1, <1>2, <1>6, <1>9 DEF Routes
<1>12. \A i \in Routes(h)' : i <= idMax'[h]
  <2> SUFFICES ASSUME NEW i \in Routes(h)  PROVE i <= new
    BY <1>2, <1>6 DEF Routes
  <2>1. i \in Nat /\ i <= best[h]
    BY <1>1, <1>4
  <2> QED
    BY <1>0, <1>5, <2>1
<1>13. Foreign(h)'
  BY <1>11, <1>12 DEF Foreign
<1>14. table[f][new] = NoHost
  <2>1. \A i \in Routes(f) : i <= idMax[f]
    BY <1>1 DEF MeshInv, Foreign, HasID, Up
  <2>2. new \notin Routes(f)
    BY <1>0, <1>1, <1>3, <1>5, <2>1
  <2> QED
    BY <1>0, <2>2 DEF Routes
<1>15. idMax'[f] <= idMax'[h]
  BY <1>0, <1>1, <1>3, <1>5, <1>6
<1>16. Entered(h)'
  BY <1>2, <1>6, <1>10, <1>14, <1>15 DEF Entered
<1> QED
  BY <1>0, <1>1, <1>6, <1>7, <1>9, <1>13, <1>16, JoinStep


LEMMA MeshFetch ==
  ASSUME RouteInv, MeshInv, Provided', NEW h \in Host, FetchTable(h)
  PROVE  MeshInv'
<1> DEFINE f == First(h)
           i == Min(Rest(h))
<1>0. RouterTypeOK /\ pc[h] = "table" /\ Rest(h) # {}
  BY DEF RouteInv, TypeInv, FetchTable
<1>1. /\ f \in Host /\ Up(f) /\ id[f] = Min(Routes(h)) /\ f # h
      /\ Min(Routes(h)) \in Routes(h) /\ msgs = {} /\ Joining(h)
      /\ \A j \in Routes(h) : Up(table[h][j]) /\ id[table[h][j]] = j /\ table[h][j] \in Host
      /\ \A g \in Host : Up(g) => id[g] \in ID /\ id[g] <= idMax[f]
      /\ idMax[f] \in Nat
      /\ \A g \in Host \ {f} : Up(g) => table[f][id[g]] = g
  BY <1>0, Asked
<1>2. /\ Rest(h) = Routes(h) /\ table[f][id[h]] \in {h, NoHost} /\ idMax[f] <= idMax[h]
  BY <1>0, Least DEF MeshInv, Entered
<1>3. i = id[f] /\ table[h][i] = f
  BY <1>1, <1>2 DEF First
<1>4. /\ UNCHANGED <<id, idMax, msgs>>
      /\ \/ /\ table' = [table EXCEPT ![h] = Learn(h, f)]
            /\ at' = [at EXCEPT ![h] = 1] /\ pc' = [pc EXCEPT ![h] = "update"]
         \/ /\ \A j \in ID : table[f][j] \in {h, NoHost}
            /\ table' = table /\ pc' = pc /\ at' = [at EXCEPT ![h] = i + 1]
  BY <1>1, <1>3, Heard DEF FetchTable, Advance, Rewind, Goto
<1>5. id[f] \in ID /\ id[h] \in ID /\ HasID(h) /\ idMax[h] \in Nat
  BY <1>0, <1>1, JoinBounds DEF RouterTypeOK, HasID, ID
<1>6. \A g \in Host : Up(g) => g # h /\ id[g] # id[h]
  BY <1>1, <1>5 DEF MeshInv, Distinct, HasID, Up, Joining
<1> HIDE DEF f, i
<1>7. CASE /\ table' = [table EXCEPT ![h] = Learn(h, f)]
           /\ at' = [at EXCEPT ![h] = 1] /\ pc' = [pc EXCEPT ![h] = "update"]
  <2>1. /\ table'[h] = Learn(h, f) /\ at'[h] = 1 /\ pc'[h] = "update"
        /\ \A g \in Host \ {h} : table'[g] = table[g] /\ pc'[g] = pc[g]
    BY <1>0, <1>7 DEF RouterTypeOK
  <2>2. Apart(h) /\ Joining(h)'
    BY <1>4, <2>1 DEF Apart, Joining
  <2>3. \A j \in ID : table'[h][j] = IF table[f][j] \in {h, NoHost} THEN table[h][j]
                                     ELSE table[f][j]
    BY <2>1 DEF Learn
  <2>4. \A g \in Host : Up(g)' => Up(g)
    BY <1>1, <2>1 DEF Up, Joining
  <2>5. Covers(h)'
    <3> SUFFICES ASSUME NEW g \in Host, Up(g)  PROVE table'[h][id[g]] = g
      BY <1>4, <2>4 DEF Covers, Knows
    <3>1. CASE g = f
      <4>1. table[f][id[f]] = NoHost
        BY <1>1 DEF MeshInv, Foreign, HasID, Up
      <4> QED
        BY <1>3, <1>5, <2>3, <3>1, <4>1
    <3>2. CASE g # f
      <4>1. table[f][id[g]] = g /\ id[g] \in ID /\ g \notin {h, NoHost}
        BY <1>1, <1>6, <3>2, HostAssumption
      <4> QED
        BY <2>3, <4>1
    <3> QED
      BY <3>1, <3>2
  <2>6. \A g \in Host : Up(g)' => ~(id'[g] < at'[h])
    <3> SUFFICES ASSUME NEW g \in Host, Up(g)  PROVE ~(id[g] < 1)
      BY <1>4, <2>1, <2>4
    <3> QED
      BY <1>1 DEF ID
  <2>7. Entered(h)'
    BY <2>1, <2>5, <2>6 DEF Entered
  <2>8. table'[h][id'[h]] = NoHost
    <3>1. table[h][id[h]] = NoHost
      BY <1>5 DEF MeshInv, Foreign
    <3> QED
      BY <1>2, <1>4, <1>5, <2>3, <3>1
  <2>9. \A j \in Routes(h)' : j <= idMax'[h]
    <3> SUFFICES ASSUME NEW j \in ID, table'[h][j] # NoHost  PROVE j <= idMax[h]
      BY <1>4 DEF Routes
    <3>1. CASE j \in Routes(h)
      BY <1>5, <3>1 DEF MeshInv, Foreign
    <3>2. CASE j \in Routes(f)
      <4>1. j <= idMax[f] /\ j \in Nat
        BY <1>1, <3>2 DEF MeshInv, Foreign, HasID, Up, ID
      <4> QED
        BY <1>1, <1>2, <1>5, <4>1
    <3> QED
      BY <2>3, <3>1, <3>2 DEF Routes
  <2>10. Foreign(h)'
    BY <2>8, <2>9 DEF Foreign
  <2> QED
    BY <1>0, <1>1, <1>4, <1>6, <2>2, <2>7, <2>10, JoinStep
<1>8. CASE /\ \A j \in ID : table[f][j] \in {h, NoHost}
           /\ table' = table /\ pc' = pc /\ at' = [at EXCEPT ![h] = i + 1]
  <2>1. \A g \in Host : Up(g) => g = f
    BY <1>1, <1>6, <1>8, HostAssumption
  <2>2. Covers(h)'
    BY <1>3, <1>4, <1>8, <2>1 DEF Covers, Knows, Up
  <2>3. \A j \in Routes(h) : j = i
    BY <1>1, <1>3, <2>1
  <2>4. Rest(h)' = {}
    <3>1. at'[h] = i + 1 /\ i \in Nat
      BY <1>0, <1>3, <1>5, <1>8 DEF RouterTypeOK, ID
    <3>2. \A j \in Routes(h)' : j = i
      BY <1>8, <2>3 DEF Routes
    <3> QED
      BY <3>1, <3>2 DEF Rest
  <2>5. Apart(h) /\ Joining(h)'
    BY <1>1, <1>4, <1>8 DEF Apart, Joining
  <2>6. Neighbors(h)' /\ Routes(h)' # {} /\ First(h)' = f
    BY <1>1, <1>4, <1>8 DEF Neighbors, Routes, First, Up, f
  <2>7. Entered(h)'
    BY <1>0, <1>2, <1>4, <1>8, <2>2, <2>4, <2>6 DEF Entered
  <2>8. Foreign(h)'
    BY <1>4, <1>8 DEF MeshInv, Foreign, HasID, Routes
  <2> QED
    BY <1>0, <1>1, <1>4, <1>6, <2>5, <2>7, <2>8, JoinStep
<1> QED
  BY <1>4, <1>7, <1>8

LEMMA MeshFetchEnd ==
  ASSUME RouteInv, MeshInv, Provided', NEW h \in Host, FetchEnd(h)
  PROVE  MeshInv'
<1>0. RouterTypeOK /\ pc[h] = "table" /\ Rest(h) = {}
  BY DEF RouteInv, TypeInv, FetchEnd
<1>1. Joining(h) /\ \A g \in Host : Up(g) => id[g] \in ID
  BY <1>0, Asked
<1>2. Covers(h) /\ HasID(h)
  BY <1>0, Least DEF MeshInv, Entered, HasID
<1>3. /\ UNCHANGED <<id, idMax, table, msgs>>
      /\ at' = [at EXCEPT ![h] = 1] /\ pc' = [pc EXCEPT ![h] = "update"]
  BY DEF FetchEnd, Rewind, Goto
<1>4. /\ at'[h] = 1 /\ pc'[h] = "update"
      /\ \A g \in Host \ {h} : pc'[g] = pc[g]
  BY <1>0, <1>3 DEF RouterTypeOK
<1>5. Apart(h) /\ Joining(h)'
  BY <1>3, <1>4 DEF Apart, Joining
<1>6. \A g \in Host : Up(g)' => Up(g)
  BY <1>4 DEF Up
<1>7. Covers(h)' /\ \A g \in Host : Up(g)' => ~(id'[g] < at'[h])
  BY <1>1, <1>2, <1>3, <1>4, <1>6 DEF Covers, Knows, ID
<1>8. Entered(h)'
  BY <1>4, <1>7 DEF Entered
<1>9. Foreign(h)'
  BY <1>2, <1>3 DEF MeshInv, Foreign, Routes
<1>10. \A g \in Host : Up(g) => id[g] # id'[h]
  BY <1>1, <1>2, <1>3 DEF MeshInv, Distinct, HasID, Up, Joining
<1> QED
  BY <1>0, <1>1, <1>5, <1>8, <1>9, <1>10, JoinStep


\* What is told while a machine is at its updates.
LEMMA MeshUpdate ==
  ASSUME RouteInv, MeshInv, Provided', NEW h \in Host, Update(h)
  PROVE  MeshInv'
<1> DEFINE i == Min(Rest(h))
           g == table[h][i]
           x == [to |-> g, ip |-> h, src |-> id[h], max |-> idMax[h]]
<1>0. RouterTypeOK /\ pc[h] = "update" /\ Rest(h) # {}
  BY DEF RouteInv, TypeInv, Update
<1>1. /\ i \in Rest(h) /\ i \in Routes(h) /\ i \in ID /\ g \in Host
      /\ \A j \in Rest(h) : i <= j
  BY <1>0, Least, Visited
<1>2. /\ UNCHANGED <<pc, id, idMax>> /\ at' = [at EXCEPT ![h] = i + 1]
      /\ \/ Up(g) /\ msgs' = msgs \cup {x} /\ table' = table
         \/ ~Up(g) /\ msgs' = msgs /\ table' = [table EXCEPT ![h][i] = NoHost]
  BY DEF Update, Advance
<1>3. /\ Joining(h) /\ HasID(h) /\ \A y \in Host \ {h} : pc[y] = "off" \/ Up(y)
      /\ \A y \in Host : Up(y) => y # h
  <2>1. Joining(h) /\ HasID(h)
    BY <1>0 DEF Joining, HasID
  <2> QED
    BY <2>1, Joiner
<1>4. x.to = g /\ x.ip = h /\ x.src = id[h] /\ id[h] <= x.max
  BY <1>0, <1>3 DEF RouterTypeOK, HasID
<1>5. \A m \in msgs : m.ip = h
  BY <1>3 DEF MeshInv, OneJoins
<1>6. at'[h] = i + 1
  BY <1>0, <1>2 DEF RouterTypeOK
<1> HIDE DEF x, g, i
<1>7. /\ \A y \in Host \ {h} : table'[y] = table[y]
      /\ \A j \in ID : table'[h][j] = table[h][j] \/ (table'[h][j] = NoHost /\ j = i)
      /\ Up(g) => table' = table
  <2>1. table \in [Host -> [ID -> Host \cup {NoHost}]]
    BY <1>0 DEF RouterTypeOK
  <2> QED
    BY <1>1, <1>2, <2>1
<1>8. OneJoins'
  <2>1. \A m \in msgs' : /\ pc[m.ip] \in {"update", "up"} /\ m.src = id[m.ip] /\ m.src <= m.max
                         /\ Up(m.to) /\ m.ip = h
    <3> SUFFICES ASSUME NEW m \in msgs'
                 PROVE  /\ pc[m.ip] \in {"update", "up"} /\ m.src = id[m.ip]
                        /\ m.src <= m.max /\ Up(m.to) /\ m.ip = h
      OBVIOUS
    <3>1. CASE m \in msgs
      BY <1>5, <3>1 DEF MeshInv, OneJoins
    <3>2. CASE m = x /\ Up(g)
      BY <1>0, <1>4, <3>2
    <3> QED
      BY <1>2, <3>1, <3>2
  <2>2. \A y \in Host : Joining(y) => y = h
    BY <1>3 DEF Joining, Up
  <2> QED
    BY <1>2, <2>1, <2>2 DEF OneJoins, Joining, Up
<1>9. Distinct'
  BY <1>2 DEF MeshInv, Distinct, HasID
<1>10. msgs \subseteq msgs' /\ \A y, z \in Host : y # h /\ Told(y, z) => Told(y, z)'
  BY <1>2, <1>7 DEF Told, Knows
<1>11. Linked'
  BY <1>2, <1>3, <1>10 DEF MeshInv, Linked, Up
<1>12. \A y \in Host : Foreign(y)'
  <2> SUFFICES ASSUME NEW y \in Host, HasID(y)
               PROVE  /\ table'[y][id[y]] = NoHost
                      /\ \A j \in Routes(y)' : j <= idMax[y]
    BY <1>2 DEF Foreign, HasID
  <2>1. table[y][id[y]] = NoHost /\ \A j \in Routes(y) : j <= idMax[y]
    BY DEF MeshInv, Foreign
  <2>2. id[y] \in ID
    BY <1>0, JoinBounds DEF RouterTypeOK, HasID, ID
  <2> QED
    BY <1>7, <2>1, <2>2 DEF Routes
<1>13. \A y \in Host \ {h} : Entered(y)'
  <2> SUFFICES ASSUME NEW y \in Host \ {h}  PROVE Entered(y)'
    OBVIOUS
  <2>1. pc'[y] \in {"off", "up"} /\ (pc'[y] = "off" => Routes(y)' = {})
    BY <1>2, <1>3, <1>7 DEF MeshInv, Entered, Routes, Up
  <2> QED
    BY <2>1 DEF Entered
<1>14. Entered(h)'
  <2>1. \A y \in Host : Up(y) => Knows(h, y) /\ id[y] \in ID
    BY <1>0, JoinBounds DEF MeshInv, Entered, Covers, RouterTypeOK, Up, ID
  <2>2. Covers(h)'
    <3> SUFFICES ASSUME NEW y \in Host, Up(y)  PROVE table'[h][id[y]] = y
      BY <1>2 DEF Covers, Knows, Up
    <3>1. table[h][id[y]] = y /\ id[y] \in ID
      BY <2>1 DEF Knows
    <3>2. id[y] = i => table' = table
      BY <1>7, <3>1 DEF g
    <3> QED
      BY <1>7, <3>1, <3>2
  <2>3. ASSUME NEW y \in Host, Up(y), id[y] < at'[h]
        PROVE  Told(y, h)'
    <3>1. table[h][id[y]] = y /\ id[y] \in ID /\ id[y] \in Nat /\ id[y] \in Routes(h)
      BY <2>1, <2>3, HostAssumption DEF Knows, Routes, ID
    <3>2. CASE id[y] < at[h]
      <4>1. Told(y, h)
        BY <1>0, <2>3, <3>2 DEF MeshInv, Entered
      <4> QED
        BY <1>3, <1>10, <2>3, <4>1
    <3>3. CASE ~(id[y] < at[h])
      <4>1. at[h] \in Nat /\ i \in Nat
        <5>1. at[h] \in Nat
          BY <1>0 DEF RouterTypeOK
        <5>2. i \in Nat
          BY <1>1 DEF ID
        <5> QED
          BY <5>1, <5>2
      <4>2. id[y] \in Rest(h)
        BY <3>1, <3>3, <4>1 DEF Rest
      <4>3. id[y] = i
        BY <1>1, <1>6, <2>3, <3>1, <4>1, <4>2
      <4>4. g = y /\ x \in msgs'
        BY <1>2, <2>3, <3>1, <4>3 DEF g
      <4> QED
        BY <1>4, <4>4 DEF Told
    <3> QED
      BY <3>2, <3>3
  <2> QED
    BY <1>0, <1>2, <2>2, <2>3 DEF Entered, Up
<1> QED
  BY <1>8, <1>9, <1>11, <1>12, <1>13, <1>14 DEF MeshInv

LEMMA MeshServe ==
  ASSUME RouteInv, MeshInv, Provided', NEW h \in Host, Serve(h)
  PROVE  MeshInv'
<1>0. RouterTypeOK /\ pc[h] = "update" /\ Rest(h) = {}
  BY DEF RouteInv, TypeInv, Serve
<1>1. /\ Joining(h) /\ HasID(h) /\ \A y \in Host \ {h} : pc[y] = "off" \/ Up(y)
      /\ \A y \in Host : Up(y) => y # h
  <2>1. Joining(h) /\ HasID(h)
    BY <1>0 DEF Joining, HasID
  <2> QED
    BY <2>1, Joiner
<1>2. UNCHANGED <<id, idMax, table, msgs>> /\ pc' = [pc EXCEPT ![h] = "up"]
  BY DEF Serve, Rewind, Goto
<1>3. pc'[h] = "up" /\ \A y \in Host \ {h} : pc'[y] = pc[y] /\ (pc'[y] = "off" \/ Up(y))
  BY <1>0, <1>1, <1>2 DEF RouterTypeOK
<1>4. \A y \in Host : Up(y) => Knows(h, y) /\ Told(y, h)
  <2> SUFFICES ASSUME NEW y \in Host, Up(y)  PROVE Knows(h, y) /\ Told(y, h)
    OBVIOUS
  <2>1. table[h][id[y]] = y /\ id[y] \in ID
    BY <1>0, JoinBounds DEF MeshInv, Entered, Covers, Knows, RouterTypeOK, Up, ID
  <2>2. id[y] \in Routes(h) /\ id[y] \in Nat /\ at[h] \in Nat
    BY <1>0, <2>1, HostAssumption DEF Routes, ID, RouterTypeOK
  <2>3. id[y] < at[h]
    BY <1>0, <2>2 DEF Rest
  <2> QED
    BY <1>0, <2>1, <2>3 DEF MeshInv, Entered, Knows
<1>5. OneJoins'
  <2>1. \A y \in Host : ~Joining(y)'
    BY <1>3 DEF Joining, Up
  <2>2. \A m \in msgs : m.to \in Host /\ m.ip \in Host
    BY <1>0 DEF RouterTypeOK
  <2>3. \A y \in Host : Up(y) => Up(y)'
    BY <1>3 DEF Up
  <2>4. \A y \in Host : pc[y] \in {"update", "up"} => pc'[y] \in {"update", "up"}
    BY <1>3
  <2> QED
    BY <1>2, <2>1, <2>2, <2>3, <2>4 DEF MeshInv, OneJoins
<1>6. Distinct'
  BY <1>1, <1>2, <1>3 DEF MeshInv, Distinct, HasID, Up
<1>7. Linked'
  <2>1. \A y, z \in Host : Told(y, z)' <=> Told(y, z)
    BY <1>2 DEF Told, Knows
  <2>2. \A y \in Host : Up(y) => Told(h, y)
    BY <1>4 DEF Told
  <2>3. \A y \in Host : Up(y)' => y = h \/ Up(y)
    BY <1>3 DEF Up
  <2> QED
    BY <1>4, <2>1, <2>2, <2>3 DEF MeshInv, Linked
<1>8. \A y \in Host : Foreign(y)'
  BY <1>1, <1>2, <1>3 DEF MeshInv, Foreign, HasID, Routes, Up
<1>9. \A y \in Host : Entered(y)'
  <2> SUFFICES ASSUME NEW y \in Host  PROVE Entered(y)'
    OBVIOUS
  <2>1. pc'[y] \in {"off", "up"} /\ (pc'[y] = "off" => Routes(y)' = {})
    BY <1>2, <1>3 DEF MeshInv, Entered, Routes, Up
  <2> QED
    BY <2>1 DEF Entered
<1> QED
  BY <1>5, <1>6, <1>7, <1>8, <1>9 DEF MeshInv

\* Under the protocol's conditions a machine starts and ends when no other starts.
LEMMA Undisturbed ==
  ASSUME RouteInv, NEW h \in Host, ~Overlaps(h)
  PROVE  msgs = {} /\ \A g \in Host \ {h} : pc[g] = "off" \/ Up(g)
BY DEF Overlaps, Joining, Up

LEMMA MeshBoot ==
  ASSUME RouteInv, MeshInv, Provided', NEW h \in Host, Boot(h)
  PROVE  MeshInv'
<1>0. RouterTypeOK /\ pc[h] = "off" /\ ~Overlaps(h)
  BY DEF RouteInv, TypeInv, Boot, Fault, Provided
<1>1. msgs = {} /\ \A g \in Host \ {h} : pc[g] = "off" \/ Up(g)
  BY <1>0, Undisturbed
<1>2. /\ id' = [id EXCEPT ![h] = snap[h]] /\ pc' = [pc EXCEPT ![h] = "topology"]
      /\ UNCHANGED <<idMax, table, msgs>>
  BY DEF Boot, Goto
<1>3. /\ pc'[h] = "topology"
      /\ \A g \in Host \ {h} : pc'[g] = pc[g] /\ id'[g] = id[g]
  BY <1>0, <1>2 DEF RouterTypeOK
<1>4. \A g \in Host : HasID(g)' => Up(g) /\ g # h /\ HasID(g)
  BY <1>1, <1>3 DEF HasID, Up
<1>5. OneJoins'
  BY <1>1, <1>2, <1>3 DEF OneJoins, Joining, Up
<1>6. Distinct'
  BY <1>3, <1>4 DEF MeshInv, Distinct
<1>7. \A g \in Host : Up(g)' => Up(g) /\ g # h
  BY <1>3 DEF Up
<1>8. Linked'
  BY <1>2, <1>3, <1>7 DEF MeshInv, Linked, Told, Knows
<1>9. \A g \in Host : Foreign(g)'
  BY <1>2, <1>3, <1>4 DEF MeshInv, Foreign, Routes
<1>10. Routes(h)' = {}
  BY <1>0, <1>2 DEF MeshInv, Entered, Routes
<1>11. Entered(h)'
  BY <1>3, <1>10 DEF Entered, Neighbors
<1>12. \A g \in Host \ {h} : Entered(g)'
  <2> SUFFICES ASSUME NEW g \in Host \ {h}  PROVE Entered(g)'
    OBVIOUS
  <2>1. pc'[g] \in {"off", "up"} /\ (pc'[g] = "off" => Routes(g)' = {})
    BY <1>1, <1>2, <1>3 DEF MeshInv, Entered, Routes, Up
  <2> QED
    BY <2>1 DEF Entered
<1> QED
  BY <1>5, <1>6, <1>8, <1>9, <1>11, <1>12 DEF MeshInv


\* An update arrives: from the last machine that joined, whose id is nobody else's.
LEMMA MeshHandle ==
  ASSUME RouteInv, MeshInv, Provided', NEW h \in Host, HandleUpdate(h)
  PROVE  MeshInv'
<1>0. RouterTypeOK /\ Outward /\ Up(h) /\ UNCHANGED <<pc, id, at, best>>
  BY DEF RouteInv, TypeInv, HandleUpdate
<1>1. PICK m \in msgs : /\ m.to = h /\ msgs' = msgs \ {m}
                        /\ idMax' = [idMax EXCEPT ![h] = Max({@, m.max})]
                        /\ table' = [table EXCEPT ![h][m.src] = m.ip]
  BY DEF HandleUpdate
<1>2. /\ m.src \in ID /\ m.ip \in Host /\ m.max \in Nat /\ m.ip # h
      /\ m.src = id[m.ip] /\ m.src <= m.max /\ HasID(m.ip) /\ pc[m.ip] \in {"update", "up"}
      /\ \A l \in msgs : l.ip = m.ip
      /\ \A x \in Host : Joining(x) => x = m.ip
  <2>1. m.src \in ID /\ m.ip \in Host /\ m.max \in Nat
    <3>1. m \in [to : Host, ip : Host, src : ID, max : ID]
      BY <1>0 DEF RouterTypeOK
    <3> QED
      BY <3>1 DEF ID
  <2>2. m.ip # h
    BY <1>0, <1>1 DEF Outward
  <2> QED
    BY <2>1, <2>2 DEF MeshInv, OneJoins, HasID
<1>3. /\ table'[h][m.src] = m.ip /\ \A j \in ID \ {m.src} : table'[h][j] = table[h][j]
      /\ \A x \in Host \ {h} : table'[x] = table[x]
  <2>1. table \in [Host -> [ID -> Host \cup {NoHost}]]
    BY <1>0 DEF RouterTypeOK
  <2> QED
    BY <1>1, <1>2, <2>1
<1>4. /\ idMax'[h] >= idMax[h] /\ idMax'[h] >= m.max /\ idMax[h] \in Nat /\ idMax'[h] \in Nat
      /\ \A x \in Host \ {h} : idMax'[x] = idMax[x]
  <2> DEFINE top == Max({idMax[h], m.max})
  <2>1. idMax[h] \in Nat
    BY <1>0 DEF RouterTypeOK
  <2>2. top \in {idMax[h], m.max} /\ top >= idMax[h] /\ top >= m.max
    <3>1. idMax[h] \in Int /\ m.max \in Int
      BY <1>2, <2>1
    <3> QED
      BY <3>1, MaxTwo, Zenon
  <2>3. idMax' = [idMax EXCEPT ![h] = top]
    BY <1>1
  <2> HIDE DEF top
  <2> QED
    BY <1>0, <1>2, <2>1, <2>2, <2>3 DEF RouterTypeOK
<1>5. \A x \in Host : HasID(x) => id[x] \in ID
  BY <1>0, JoinBounds DEF RouterTypeOK, HasID, ID
<1>6. \A x \in Host : HasID(x) /\ x # m.ip => id[x] # m.src
  BY <1>2 DEF MeshInv, Distinct
<1>7. OneJoins' /\ Distinct'
  BY <1>0, <1>1 DEF MeshInv, OneJoins, Distinct, HasID, Joining, Up
<1>8. ASSUME NEW x \in Host, NEW y \in Host, HasID(y), Told(x, y)
      PROVE  Told(x, y)'
  <2>1. CASE x # h
    BY <1>0, <1>1, <1>3, <1>8, <2>1 DEF Told, Knows
  <2>2. CASE x = h /\ y = m.ip
    BY <1>0, <1>2, <1>3, <2>2 DEF Told, Knows
  <2>3. CASE x = h /\ y # m.ip
    <3>1. Knows(x, y)
      BY <1>2, <1>8, <2>3 DEF Told
    <3> QED
      BY <1>0, <1>3, <1>5, <1>6, <1>8, <2>3, <3>1 DEF Told, Knows
  <2> QED
    BY <2>1, <2>2, <2>3
<1>9. Linked'
  BY <1>0, <1>8 DEF MeshInv, Linked, Up, HasID
<1>10. \A x \in Host : Foreign(x)'
  <2> SUFFICES ASSUME NEW x \in Host, HasID(x)
               PROVE  table'[x][id[x]] = NoHost /\ \A j \in Routes(x)' : j <= idMax'[x]
    BY <1>0 DEF Foreign, HasID
  <2>1. table[x][id[x]] = NoHost /\ \A j \in Routes(x) : j <= idMax[x]
    BY DEF MeshInv, Foreign
  <2>2. CASE x # h
    BY <1>3, <1>4, <2>1, <2>2 DEF Routes
  <2>3. CASE x = h
    <3>1. table'[h][id[h]] = NoHost
      BY <1>2, <1>3, <1>5, <1>6, <2>1, <2>3
    <3>2. ASSUME NEW j \in Routes(h)'  PROVE j <= idMax'[h]
      <4>1. j \in Routes(h) \/ j = m.src
        BY <1>3 DEF Routes
      <4>2. j \in Nat
        BY DEF Routes, ID
      <4>3. CASE j \in Routes(h)
        BY <1>4, <2>1, <2>3, <4>2, <4>3
      <4>4. CASE j = m.src
        BY <1>2, <1>4, <4>2, <4>4
      <4> QED
        BY <4>1, <4>3, <4>4
    <3> QED
      BY <2>3, <3>1, <3>2
  <2> QED
    BY <2>2, <2>3
<1>11. \A x \in Host : Entered(x)'
  <2> SUFFICES ASSUME NEW x \in Host  PROVE Entered(x)'
    OBVIOUS
  <2>1. CASE pc[x] \in {"off", "update"}
    <3>1. x # h /\ table'[x] = table[x]
      BY <1>0, <1>3, <2>1 DEF Up
    <3>2. pc[x] = "off" => Routes(x)' = {}
      BY <3>1 DEF MeshInv, Entered, Routes
    <3>3. pc[x] = "update" => Covers(x)'
      BY <1>0, <3>1 DEF MeshInv, Entered, Covers, Knows, Up
    <3>4. pc[x] = "update" => \A g \in Host : Up(g) /\ id[g] < at[x] => Told(g, x)'
      BY <1>8 DEF MeshInv, Entered, HasID
    <3> QED
      BY <1>0, <2>1, <3>2, <3>3, <3>4 DEF Entered, Up
  <2>2. CASE pc[x] = "up"
    BY <1>0, <2>2 DEF Entered
  <2>3. pc[x] \in {"off", "update", "up"}
    BY <1>2 DEF Joining
  <2> QED
    BY <2>1, <2>2, <2>3
<1> QED
  BY <1>7, <1>9, <1>10, <1>11 DEF MeshInv

\* A route that is dropped led to a machine that is off.
LEMMA MeshSend ==
  ASSUME RouteInv, MeshInv, Provided', NEW h \in Host, SendFails(h)
  PROVE  MeshInv'
<1>0. RouterTypeOK /\ Up(h) /\ UNCHANGED <<pc, id, idMax, at, best, msgs>>
  BY DEF RouteInv, TypeInv, SendFails
<1>a. PICK i \in Routes(h) :
        /\ ~Up(table[h][i]) /\ table' = [table EXCEPT ![h][i] = NoHost]
        /\ Joining(table[h][i]) => "early" \in cause'
  <2>1. PICK i \in Routes(h) :
          /\ ~Up(table[h][i]) /\ table' = [table EXCEPT ![h][i] = NoHost]
          /\ cause' = IF Joining(table[h][i]) THEN cause \cup {"early"} ELSE cause
    BY DEF SendFails
  <2>2. Joining(table[h][i]) => "early" \in cause'
    BY <2>1
  <2> QED
    BY <2>1, <2>2
<1>1. /\ ~Up(table[h][i]) /\ ~Joining(table[h][i])
      /\ table' = [table EXCEPT ![h][i] = NoHost]
  BY <1>a DEF Provided
<1>2. /\ table'[h][i] = NoHost /\ \A j \in ID \ {i} : table'[h][j] = table[h][j]
      /\ \A x \in Host \ {h} : table'[x] = table[x]
  <2>1. table \in [Host -> [ID -> Host \cup {NoHost}]] /\ i \in ID
    BY <1>0 DEF RouterTypeOK, Routes
  <2> QED
    BY <1>1, <2>1
<1>3. \A x \in Host : HasID(x) => id[x] \in ID
  BY <1>0, JoinBounds DEF RouterTypeOK, HasID, ID
<1>4. OneJoins' /\ Distinct'
  BY <1>0 DEF MeshInv, OneJoins, Distinct, HasID, Joining, Up
<1>5. ASSUME NEW x \in Host, NEW y \in Host, HasID(y), Told(x, y)
      PROVE  Told(x, y)'
  <2>1. CASE Knows(x, y)
    <3>1. table[x][id[y]] = y /\ id[y] \in ID /\ (Up(y) \/ Joining(y))
      BY <1>3, <1>5, <2>1 DEF Knows, HasID, Up, Joining
    <3>2. x # h \/ id[y] # i
      BY <1>1, <3>1
    <3> QED
      BY <1>0, <1>2, <3>1, <3>2 DEF Told, Knows
  <2> QED
    BY <1>0, <1>5, <2>1 DEF Told
<1>6. Linked'
  BY <1>0, <1>5 DEF MeshInv, Linked, Up, HasID
<1>7. \A x \in Host : \A j \in ID : table'[x][j] \in {table[x][j], NoHost}
  BY <1>2
<1>8. \A x \in Host : Foreign(x)'
  BY <1>0, <1>3, <1>7 DEF MeshInv, Foreign, HasID, Routes
<1>9. \A x \in Host : Entered(x)'
  <2> SUFFICES ASSUME NEW x \in Host  PROVE Entered(x)'
    OBVIOUS
  <2>1. CASE x = h
    BY <1>0, <2>1 DEF Entered, Up
  <2>2. CASE x # h
    <3>1. table'[x] = table[x] /\ Entered(x)
      BY <1>2, <2>2 DEF MeshInv
    <3>2. Routes(x)' = Routes(x) /\ First(x)' = First(x) /\ Rest(x)' = Rest(x)
      BY <1>0, <3>1 DEF Routes, First, Rest
    <3>3. (Neighbors(x)' <=> Neighbors(x)) /\ (Covers(x)' <=> Covers(x))
      BY <1>0, <3>1, <3>2 DEF Neighbors, Covers, Knows, Up
    <3>4. pc[x] = "table" => table'[First(x)][id[x]] \in {x, NoHost}
      <4>1. SUFFICES ASSUME pc[x] = "table"  PROVE table'[First(x)][id[x]] \in {x, NoHost}
        OBVIOUS
      <4>2. First(x) \in Host /\ id[x] \in ID
        BY <1>3, <4>1, Asked DEF HasID
      <4> QED
        BY <1>7, <3>1, <4>1, <4>2 DEF Entered
    <3>5. pc[x] = "update" => \A g \in Host : Up(g) /\ id[g] < at[x] => Told(g, x)'
      BY <1>5, <3>1 DEF Entered, HasID
    <3> QED
      BY <1>0, <3>1, <3>2, <3>3, <3>4, <3>5 DEF Entered, Up
  <2> QED
    BY <2>1, <2>2
<1> QED
  BY <1>4, <1>6, <1>8, <1>9 DEF MeshInv

\* A machine is gone, and no other was starting.
LEMMA MeshLeave ==
  ASSUME RouteInv, MeshInv, NEW h \in Host, ~Overlaps(h), Leave(h)
  PROVE  MeshInv'
<1>0. RouterTypeOK /\ TypeInv
  BY DEF RouteInv, TypeInv
<1>1. msgs = {} /\ \A g \in Host \ {h} : pc[g] = "off" \/ Up(g)
  BY Undisturbed
<1>2. /\ pc'[h] = "off" /\ msgs' = {} /\ Routes(h)' = {}
      /\ \A g \in Host \ {h} : pc'[g] = pc[g] /\ id'[g] = id[g] /\ idMax'[g] = idMax[g]
                               /\ table'[g] = table[g]
  <2>1. table'[h] = [i \in ID |-> NoHost] /\ msgs' = {}
    BY <1>0, <1>1 DEF Leave, RouterTypeOK
  <2> QED
    BY <1>0, <2>1, LeaveType DEF Routes
<1>3. \A g \in Host : HasID(g)' => Up(g) /\ Up(g)' /\ g # h /\ HasID(g)
  BY <1>1, <1>2 DEF HasID, Up
<1>4. OneJoins'
  BY <1>1, <1>2 DEF OneJoins, Joining, Up
<1>5. Distinct'
  BY <1>2, <1>3 DEF MeshInv, Distinct
<1>6. Linked'
  BY <1>1, <1>2, <1>3 DEF MeshInv, Linked, Told, Knows, Up, HasID
<1>7. \A g \in Host : Foreign(g)'
  BY <1>2, <1>3 DEF MeshInv, Foreign, Routes
<1>8. \A g \in Host : Entered(g)'
  <2> SUFFICES ASSUME NEW g \in Host  PROVE Entered(g)'
    OBVIOUS
  <2>1. pc'[g] \in {"off", "up"} /\ (pc'[g] = "off" => Routes(g)' = {})
    BY <1>1, <1>2 DEF MeshInv, Entered, Routes, Up
  <2> QED
    BY <2>1 DEF Entered
<1> QED
  BY <1>4, <1>5, <1>6, <1>7, <1>8 DEF MeshInv


LEMMA MeshInit == Init => MeshInv
<1> SUFFICES ASSUME Init  PROVE MeshInv
  OBVIOUS
<1>1. /\ msgs = {} /\ \A h \in Host : pc[h] = "off" /\ Routes(h) = {}
  BY DEF Init, Routes
<1> QED
  BY <1>1 DEF MeshInv, OneJoins, Distinct, Linked, Foreign, Entered, HasID, Up, Joining

LEMMA CauseGrows ==
  ASSUME [Next]_jvars
  PROVE  cause \subseteq cause'
<1>1. ASSUME NEW h \in Host, Join(h)
      PROVE  cause \subseteq cause'
  BY <1>1 DEF Join, ConnectNeighbor, TakeID, BeginID, CheckRepeat, AskMax, NewID, FetchTable,
              FetchEnd, Update, Serve, Answers, Fails, Fault
<1>2. ASSUME NEW h \in Host, Boot(h) \/ HandleUpdate(h) \/ SendFails(h) \/ Stop(h) \/ Crash(h)
      PROVE  cause \subseteq cause'
  BY <1>2 DEF Boot, HandleUpdate, SendFails, Stop, Crash, Fault
<1> QED
  BY <1>1, <1>2 DEF Next, LoseUpdate, Fault, jvars

LEMMA MeshNext == JoinInv /\ [Next]_jvars => JoinInv'
<1> SUFFICES ASSUME JoinInv, [Next]_jvars, Provided'
             PROVE  MeshInv'
  BY RouteNext DEF JoinInv
<1>0. RouteInv /\ MeshInv
  BY CauseGrows DEF JoinInv, Provided
<1>1. ASSUME NEW h \in Host, Join(h)
      PROVE  MeshInv'
  BY <1>0, <1>1, MeshNeighbor, MeshTakeID, MeshBeginID, MeshCheck, MeshAsk, MeshNewID, MeshFetch,
     MeshFetchEnd, MeshUpdate, MeshServe DEF Join
<1>2. ASSUME NEW h \in Host, Boot(h) \/ HandleUpdate(h) \/ SendFails(h)
      PROVE  MeshInv'
  BY <1>0, <1>2, MeshBoot, MeshHandle, MeshSend
<1>3. ASSUME NEW h \in Host, Stop(h) \/ Crash(h)
      PROVE  MeshInv'
  <2>1. Leave(h) /\ ~Overlaps(h)
    BY <1>3 DEF Stop, Crash, Fault, Provided
  <2> QED
    BY <1>0, <2>1, MeshLeave
<1>4. CASE LoseUpdate
  BY <1>4 DEF LoseUpdate, Fault, Provided
<1>5. CASE UNCHANGED jvars
  BY <1>0, <1>5 DEF jvars, MeshInv, OneJoins, Distinct, Linked, Foreign, Entered, Neighbors,
     Covers, First, Told, Knows, Routes, Rest, HasID, Up, Joining
<1> QED
  BY <1>1, <1>2, <1>3, <1>4, <1>5 DEF Next

LEMMA JoinAlways == Spec => []JoinInv
<1>1. Init => JoinInv
  BY RouteInit, MeshInit DEF JoinInv
<1> QED
  BY <1>1, MeshNext, PTL DEF Spec

\* However many machines join, stop, crash and come back with their ids: no two that
\* run, or are about to, have the same id, unless something happened that the protocol
\* does not provide for.
THEOREM IdsCorrect == Spec => []IdsDiffer
<1>1. JoinInv => IdsDiffer
  BY DEF JoinInv, MeshInv, Distinct, IdsDiffer
<1> QED
  BY <1>1, JoinAlways, PTL

\* When its updates are handled a newcomer is known to all that run, and knows all,
\* although it has asked only some of them, and one of them for its table.
THEOREM MeshedCorrect == Spec => []Meshed
<1>1. JoinInv => Meshed
  <2> SUFFICES ASSUME JoinInv, Quiet, Provided, NEW g \in Host, NEW h \in Host,
                      g # h, Up(g), Up(h)
               PROVE  table[h][id[g]] = g /\ idMax[h] >= id[g]
    BY DEF Meshed
  <2>1. /\ table[h][id[g]] = g /\ id[g] \in ID /\ id[g] <= idMax[h] /\ idMax[h] \in Nat
    BY Acquainted DEF JoinInv, Quiet
  <2> QED
    BY <2>1 DEF ID
<1> QED
  BY <1>1, JoinAlways, PTL
=============================================================================
