------------------------------ MODULE RouterJoin ------------------------------
(***************************************************************************)
(* How machines of a cluster find each other: the constructor of Router    *)
(* (initTopology, initMachineID, initTable, updateMachineIDMax) on a       *)
(* machine that starts, request by request, and the handlers that answer   *)
(* it on the machines that run.  A machine serves only after its           *)
(* constructor is done, and keeps its id across a clean stop only.  In     *)
(* BlockStore all of this is the action Restart.                           *)
(***************************************************************************)
EXTENDS Integers, Sequences, FiniteSets, FiniteSetsExt

CONSTANTS
  Host,         \* the machines, by their address
  NoHost,
  connectList,  \* connectList[h]: the addresses in the file of h
  MaxID,        \* bound: machine ids
  MaxBoots,     \* bound: starts, of all machines
  MaxFaults     \* bound: crashes, starts and ends while another machine starts,
                \* requests and updates that come to nothing

ASSUME HostAssumption ==
  NoHost \notin Host /\ connectList \in [Host -> Seq(Host)]
ASSUME JoinBounds == MaxID \in Nat \ {0} /\ MaxBoots \in Nat /\ MaxFaults \in Nat

VARIABLES
  pc,      \* pc[h]: "off", "up", or where the constructor of Router is
  id,      \* Server::_machineID
  idMax,   \* Server::_machineIDMax
  table,   \* Router::_routingTable, the addresses only
  snap,    \* the machine id in the snapshot, 0 if there is none
  todo,    \* what is left of connectList
  at,      \* the id an iterator over the table stands before
  best,    \* the greatest id an asked machine knows of
  msgs,    \* UpdateMachineIDMax messages on their way
  boots, faults,
  cause    \* history: what happened that the protocol does not provide for

jvars == <<pc, id, idMax, table, snap, todo, at, best, msgs, boots, faults, cause>>

ID == 1..MaxID
Causes == {"overlap", "apart", "refused", "early", "renamed"}

Up(h) == pc[h] = "up"
Joining(h) == pc[h] \notin {"off", "up"}
Routes(h) == {i \in ID : table[h][i] # NoHost}
Rest(h) == {i \in Routes(h) : i >= at[h]}   \* not yet visited

Init ==
  /\ pc = [h \in Host |-> "off"]
  /\ id = [h \in Host |-> 0]
  /\ idMax = [h \in Host |-> 0]
  /\ table = [h \in Host |-> [i \in ID |-> NoHost]]
  /\ snap = [h \in Host |-> 0]
  /\ todo = [h \in Host |-> <<>>]
  /\ at = [h \in Host |-> 1]
  /\ best = [h \in Host |-> 0]
  /\ msgs = {} /\ boots = 0 /\ faults = 0 /\ cause = {}

Goto(h, to) == pc' = [pc EXCEPT ![h] = to]
Rewind(h, to) == Goto(h, to) /\ at' = [at EXCEPT ![h] = 1]
Advance(h, i) == at' = [at EXCEPT ![h] = i + 1]

\* Something goes wrong, or does not.
Fault(bad, what) ==
  IF bad THEN /\ faults < MaxFaults /\ faults' = faults + 1
              /\ cause' = cause \cup what
         ELSE UNCHANGED <<faults, cause>>

\* A request to g is answered, refused by a machine that serves nobody, or
\* comes to nothing ("server busy!").
Answers(g) == Up(g) /\ UNCHANGED <<faults, cause>>
Fails(g) == Fault(Up(g), {"refused"})

\* h starts or ends while another machine starts.
Overlaps(h) == (\E g \in Host \ {h} : Joining(g)) \/ msgs # {}

-----------------------------------------------------------------------------
(* The machine that starts.                                                *)

\* Server::loadSnapshot, and the constructor of Router.
Boot(h) ==
  /\ pc[h] = "off" /\ boots < MaxBoots /\ boots' = boots + 1
  /\ id' = [id EXCEPT ![h] = snap[h]]
  /\ todo' = [todo EXCEPT ![h] = connectList[h]]
  /\ Fault(Overlaps(h), {"overlap"})
  /\ Goto(h, "topology")
  /\ UNCHANGED <<idMax, table, snap, at, best, msgs>>

\* Mutant: handleNeighborInit answers with the maximum.
NeighborMax(h) ==
  /\ pc[h] = "topology" /\ todo[h] # <<>>
  /\ LET g == Head(todo[h])
     IN \/ Answers(g) /\ table' = [table EXCEPT ![h][idMax[g]] = g]
        \/ Fails(g) /\ UNCHANGED table
  /\ todo' = [todo EXCEPT ![h] = Tail(@)]
  /\ UNCHANGED <<pc, id, idMax, snap, at, best, msgs, boots>>

\* initConnectNeighbor: the machine at an address of the list tells its id.
ConnectNeighbor(h) ==
  /\ pc[h] = "topology" /\ todo[h] # <<>>
  /\ LET g == Head(todo[h])
     IN \/ Answers(g) /\ table' = [table EXCEPT ![h][id[g]] = g]
        \/ Fails(g) /\ UNCHANGED table
  /\ todo' = [todo EXCEPT ![h] = Tail(@)]
  /\ UNCHANGED <<pc, id, idMax, snap, at, best, msgs, boots>>

Listed(h) == pc[h] = "topology" /\ todo[h] = <<>>

\* Some machine knows h by another id than the one it takes now.
Renames(h, new) ==
  \/ snap[h] \notin {0, new}
  \/ \E g \in Host \ {h} : \E i \in Routes(g) \ {new} : table[g][i] = h
  \/ \E m \in msgs : m.ip = h /\ m.src # new

\* initMachineID without neighbours: the id of the snapshot, or "first node".
TakeID(h) ==
  /\ Listed(h) /\ Routes(h) = {}
  /\ LET new == IF snap[h] = 0 THEN 1 ELSE snap[h]
     IN /\ id' = [id EXCEPT ![h] = new] /\ idMax' = [idMax EXCEPT ![h] = new]
        /\ cause' = cause \cup (IF \E g \in Host : Up(g) THEN {"apart"} ELSE {})
                          \cup (IF Renames(h, new) THEN {"renamed"} ELSE {})
  /\ Rewind(h, "update")
  /\ UNCHANGED <<table, snap, todo, best, msgs, boots, faults>>

BeginID(h) ==
  /\ Listed(h) /\ Routes(h) # {}
  /\ Rewind(h, IF snap[h] = 0 THEN "ask" ELSE "check")
  /\ UNCHANGED <<id, idMax, table, snap, todo, best, msgs, boots, faults, cause>>

\* handleCheckRepeatMachineID of g: may h have this id?
Available(g, h, i) == id[g] # i /\ table[g][i] \in {h, NoHost}

\* Mutant: a machine with a snapshot does not ask.
CheckSkipped(h) ==
  /\ pc[h] = "check"
  /\ idMax' = [idMax EXCEPT ![h] = id[h]]
  /\ Rewind(h, "table")
  /\ UNCHANGED <<id, table, snap, todo, best, msgs, boots, faults, cause>>

\* The id of the snapshot, if the first machine of the table has no objection.
CheckRepeat(h) ==
  /\ pc[h] = "check"
  /\ LET g == table[h][Min(Routes(h))]
         ok == Up(g) /\ Available(g, h, id[h])
     IN \/ /\ Answers(g) /\ ok
           /\ idMax' = [idMax EXCEPT ![h] = Max({id[h], idMax[g]})]
           /\ Rewind(h, "table")
        \/ /\ (Answers(g) /\ ~ok) \/ Fails(g)
           /\ UNCHANGED idMax
           /\ Rewind(h, "ask")
  /\ UNCHANGED <<id, table, snap, todo, best, msgs, boots>>

\* MC_MachineIDMax, to each machine of the table.
AskMax(h) ==
  /\ pc[h] = "ask" /\ Rest(h) # {}
  /\ LET i == Min(Rest(h))  g == table[h][i]
     IN /\ Advance(h, i)
        /\ \/ Answers(g) /\ best' = [best EXCEPT ![h] = Max({@, idMax[g]})]
           \/ Fails(g) /\ UNCHANGED best
  /\ UNCHANGED <<pc, id, idMax, table, snap, todo, msgs, boots>>

\* Mutant: the new id is not the new maximum.
NewIDNoMax(h) ==
  /\ pc[h] = "ask" /\ Rest(h) = {} /\ best[h] < MaxID
  /\ LET new == best[h] + 1
     IN /\ id' = [id EXCEPT ![h] = new] /\ idMax' = [idMax EXCEPT ![h] = best[h]]
        /\ cause' = IF Renames(h, new) THEN cause \cup {"renamed"} ELSE cause
  /\ best' = [best EXCEPT ![h] = 0]
  /\ Rewind(h, "table")
  /\ UNCHANGED <<table, snap, todo, msgs, boots, faults>>

NewID(h) ==
  /\ pc[h] = "ask" /\ Rest(h) = {} /\ best[h] < MaxID
  /\ LET new == best[h] + 1
     IN /\ id' = [id EXCEPT ![h] = new] /\ idMax' = [idMax EXCEPT ![h] = new]
        /\ cause' = IF Renames(h, new) THEN cause \cup {"renamed"} ELSE cause
  /\ best' = [best EXCEPT ![h] = 0]
  /\ Rewind(h, "table")
  /\ UNCHANGED <<table, snap, todo, msgs, boots, faults>>

\* initTable: what g knows, but for h itself, on top of what h knows.
Learn(h, g) ==
  [i \in ID |-> IF table[g][i] \in {h, NoHost} THEN table[h][i] ELSE table[g][i]]

\* The first machine that knows another than h ends the search.
FetchTable(h) ==
  /\ pc[h] = "table" /\ Rest(h) # {}
  /\ LET i == Min(Rest(h))  g == table[h][i]
         done == \E j \in ID : table[g][j] \notin {h, NoHost}
     IN \/ /\ Answers(g) /\ done
           /\ table' = [table EXCEPT ![h] = Learn(h, g)]
           /\ Rewind(h, "update")
        \/ /\ (Answers(g) /\ ~done) \/ Fails(g)
           /\ Advance(h, i)
           /\ UNCHANGED <<table, pc>>
  /\ UNCHANGED <<id, idMax, snap, todo, best, msgs, boots>>

FetchEnd(h) ==
  /\ pc[h] = "table" /\ Rest(h) = {}
  /\ Rewind(h, "update")
  /\ UNCHANGED <<id, idMax, table, snap, todo, best, msgs, boots, faults, cause>>

\* Mutant: the iterator of broadcast is not moved.
UpdateStays(h) ==
  /\ pc[h] = "update" /\ Rest(h) # {}
  /\ LET g == table[h][Min(Rest(h))]
     IN Up(g) /\ msgs' = msgs \cup {[to |-> g, ip |-> h, src |-> id[h], max |-> idMax[h]]}
  /\ UNCHANGED <<pc, id, idMax, table, snap, todo, at, best, boots, faults, cause>>

\* updateMachineIDMax: sendTo drops a route whose machine does not listen.
Update(h) ==
  /\ pc[h] = "update" /\ Rest(h) # {}
  /\ LET i == Min(Rest(h))  g == table[h][i]
     IN /\ Advance(h, i)
        /\ IF Up(g)
           THEN /\ msgs' = msgs \cup
                     {[to |-> g, ip |-> h, src |-> id[h], max |-> idMax[h]]}
                /\ UNCHANGED table
           ELSE table' = [table EXCEPT ![h][i] = NoHost] /\ UNCHANGED msgs
  /\ UNCHANGED <<pc, id, idMax, snap, todo, best, boots, faults, cause>>

\* The rest of Server's constructor, and Dispatcher::start.
Serve(h) ==
  /\ pc[h] = "update" /\ Rest(h) = {}
  /\ Rewind(h, "up")
  /\ UNCHANGED <<id, idMax, table, snap, todo, best, msgs, boots, faults, cause>>

-----------------------------------------------------------------------------
(* The machines that run.                                                  *)

\* Mutant: the sender's maximum is kept and its address is not.
HandleUpdateMaxOnly(h) ==
  /\ Up(h)
  /\ \E m \in msgs :
       /\ m.to = h /\ msgs' = msgs \ {m}
       /\ idMax' = [idMax EXCEPT ![h] = Max({@, m.max})]
  /\ UNCHANGED <<pc, id, table, snap, todo, at, best, boots, faults, cause>>

HandleUpdate(h) ==
  /\ Up(h)
  /\ \E m \in msgs :
       /\ m.to = h /\ msgs' = msgs \ {m}
       /\ idMax' = [idMax EXCEPT ![h] = Max({@, m.max})]
       /\ table' = [table EXCEPT ![h][m.src] = m.ip]
  /\ UNCHANGED <<pc, id, snap, todo, at, best, boots, faults, cause>>

\* sendTo of any handler drops a route whose machine does not listen.
SendFails(h) ==
  /\ Up(h)
  /\ \E i \in Routes(h) :
       /\ ~Up(table[h][i])
       /\ table' = [table EXCEPT ![h][i] = NoHost]
       /\ cause' = IF Joining(table[h][i]) THEN cause \cup {"early"} ELSE cause
  /\ UNCHANGED <<pc, id, idMax, snap, todo, at, best, msgs, boots, faults>>

\* An update finds no free worker.
LoseUpdate ==
  /\ \E m \in msgs : msgs' = msgs \ {m}
  /\ Fault(TRUE, {"refused"})
  /\ UNCHANGED <<pc, id, idMax, table, snap, todo, at, best, boots>>

\* The process and what it had in memory are gone, and what was sent to it.
Leave(h) ==
  /\ Rewind(h, "off")
  /\ id' = [id EXCEPT ![h] = 0] /\ idMax' = [idMax EXCEPT ![h] = 0]
  /\ table' = [table EXCEPT ![h] = [i \in ID |-> NoHost]]
  /\ todo' = [todo EXCEPT ![h] = <<>>] /\ best' = [best EXCEPT ![h] = 0]
  /\ msgs' = {m \in msgs : m.to # h}
  /\ UNCHANGED boots

\* ~Server writes the snapshot.
Stop(h) ==
  /\ Up(h)
  /\ snap' = [snap EXCEPT ![h] = id[h]]
  /\ Leave(h)
  /\ Fault(Overlaps(h), {"overlap"})

Crash(h) ==
  /\ pc[h] # "off"
  /\ Leave(h)
  /\ Fault(TRUE, IF Overlaps(h) THEN {"overlap"} ELSE {})
  /\ UNCHANGED snap

Join(h) ==
  \/ ConnectNeighbor(h) \/ TakeID(h) \/ BeginID(h) \/ CheckRepeat(h) \/ AskMax(h)
  \/ NewID(h) \/ FetchTable(h) \/ FetchEnd(h) \/ Update(h) \/ Serve(h)

Next ==
  \/ \E h \in Host : Boot(h) \/ Join(h) \/ HandleUpdate(h) \/ SendFails(h) \/ Stop(h)
                     \/ Crash(h)
  \/ LoseUpdate

\* The starting thread is scheduled and its requests end: connect has a timeout, a
\* machine that serves answers or closes.
Spec == Init /\ [][Next]_jvars /\ \A h \in Host : WF_jvars(Join(h))

-----------------------------------------------------------------------------
(* Properties.                                                             *)

\* Every variable keeps its type; a machine that others can ask has an id it
\* knows to be no greater than the maximum.
RouterTypeOK ==
  /\ pc \in [Host -> {"off", "topology", "check", "ask", "table", "update", "up"}]
  /\ id \in [Host -> 0..MaxID] /\ idMax \in [Host -> 0..MaxID]
  /\ table \in [Host -> [ID -> Host \cup {NoHost}]]
  /\ snap \in [Host -> 0..MaxID] /\ best \in [Host -> 0..MaxID]
  /\ todo \in [Host -> Seq(Host)] /\ at \in [Host -> 1..MaxID + 1]
  /\ msgs \subseteq [to : Host, ip : Host, src : ID, max : ID]
  /\ boots \in 0..MaxBoots /\ faults \in 0..MaxFaults /\ cause \subseteq Causes
  /\ \A h \in Host : pc[h] \in {"table", "update", "up"} => id[h] \in 1..idMax[h]

HasID(h) == pc[h] \in {"table", "update", "up"}

\* All that happened is what the protocol provides for, or another id.
Provided == cause \subseteq {"renamed"}

\* No two machines run under one id, unless machines started or ended while another
\* started, or ran in parts that did not know each other, or a request or update came
\* to nothing, or a newcomer was called before it listened: an id is checked at one
\* machine only, and the maximum is known to those alone that run.
IdsDiffer ==
  Provided => \A g, h \in Host : g # h /\ HasID(g) /\ HasID(h) => id[g] # id[h]

\* A route leads to the machine that has the id, unless that machine now has
\* another: a message for an id is not handled by a machine of another id.
RoutesLead ==
  "renamed" \notin cause =>
    \A h \in Host : \A i \in Routes(h) : HasID(table[h][i]) => id[table[h][i]] = i

Quiet == msgs = {} /\ \A h \in Host : ~Joining(h)

\* When all updates are handled every machine that runs has a route to every
\* other and knows a maximum no id is above, under the conditions of IdsDiffer:
\* although a newcomer has the table of one machine only, whose routes to
\* machines that were down may be gone.
Meshed ==
  Quiet /\ Provided =>
    \A g, h \in Host : g # h /\ Up(g) /\ Up(h) =>
      table[h][id[g]] = g /\ idMax[h] >= id[g]

\* After the last start every machine gets through its constructor, whoever of the
\* others does not answer: none waits for one that waits for it.
JoinsEnd == <>[](\A h \in Host : ~Joining(h))
=============================================================================
