----------------------- MODULE PlanningServiceProofs -----------------------
(***************************************************************************)
(* The planning service, for any sessions, items, agents and backlogs and  *)
(* any number of requests: the assignment row names the assignee, the      *)
(* queue entry follows it, and a closed sprint keeps no open item.         *)
(*                                                                         *)
(* And its ranks, for an alphabet of any size above three, ranks of any    *)
(* lengths and any number of drops: a rank computed between two others is  *)
(* above the first, and below the second whenever there is room at the     *)
(* longer one's length.  The values of the strings are defined by          *)
(* recursion over their letters; induction over the lengths goes by way of *)
(* sets: a set of numbers that has no least element is empty.              *)
(***************************************************************************)
EXTENDS Assignments, Sprints, LexoRank, WellFoundedInduction, SequenceTheorems, TLAPS

-----------------------------------------------------------------------------
(* Work items and assignments *)

\* What the position of a request says of it.
Stage(r) ==
    LET req == itemRequest[r]
    IN  /\ req.op = "assign" => req.at \in {"row", "write"} /\ req.agent \in Agents
        /\ req.op = "unassign" => req.at \in {"row", "write"} /\ req.agent = NoOne
        /\ req.op # "patch" /\ req.at = "write" => req.previous # req.agent
        /\ req.op = "patch" => req.at \in {"write", "hook"}
        /\ req.at = "hook" => req.agent # Keep /\ req.agent # req.previous

\* A PATCH that nobody overtook still knows the assignee column: as it read it, then as it
\* wrote it.
KnowsColumn(r) ==
    LET req == itemRequest[r]
    IN  req.op = "patch" /\ r \notin overtaken /\ Exists(req.item) =>
          workItem[req.item].assignee = IF req.at = "hook" THEN req.agent ELSE req.previous

RequestsInv == \A r \in ItemSessions : itemRequest[r] # Quiet => Stage(r) /\ KnowsColumn(r)

\* Nothing refers to an item that does not exist yet.
UnbornInv ==
    \A i \in WorkItems : workItem[i] = Unborn =>
        liveEntry[i] = NoOne /\ \A r \in ItemSessions : ~On(r, i)

RowsInv ==
    \A i \in WorkItems :
        /\ ~Exists(i) => activeRow[i] = NoOne
        /\ Exists(i) /\ i \notin patched => activeRow[i] \in {NoOne, workItem[i].assignee}

\* The hook that will take a stray entry away, or set the item adrift.
Owed(i) ==
    \E r \in ItemSessions :
        /\ itemRequest[r].at = "hook" /\ itemRequest[r].item = i
        /\ r \in overtaken \/ itemRequest[r].previous = liveEntry[i]

EntriesInv ==
    \A i \in WorkItems \ adrift :
        Exists(i) => liveEntry[i] \in {NoOne, workItem[i].assignee} \/ Owed(i)

AssignmentsInv == AssignmentsTypeOK /\ RequestsInv /\ UnbornInv /\ RowsInv /\ EntriesInv

-----------------------------------------------------------------------------
(* What the steps have in common *)

LEMMA Positions ==
    ASSUME AssignmentsTypeOK, NEW r \in ItemSessions
    PROVE  \/ itemRequest[r] = Quiet /\ itemRequest[r].at = "idle"
           \/ /\ itemRequest[r] \in ItemRequests /\ itemRequest[r] # Quiet
              /\ itemRequest[r].at \in {"row", "write", "hook"}
              /\ itemRequest[r].item \in WorkItems
              /\ On(r, itemRequest[r].item)
BY DEF AssignmentsTypeOK, ItemRequests, Quiet, On

LEMMA AssignmentsStart == ASSUME AssignmentsInit PROVE AssignmentsInv
<1> USE AssignmentsAssumption DEF AssignmentsInit
<1>1. AssignmentsTypeOK
  BY DEF AssignmentsTypeOK, ItemRows, ItemStatuses, Unborn, ItemRequests, Quiet
<1>2. RequestsInv /\ UnbornInv
  BY DEF RequestsInv, UnbornInv, On, Quiet
<1>3. RowsInv /\ EntriesInv
  BY DEF RowsInv, EntriesInv
<1> QED BY <1>1, <1>2, <1>3 DEF AssignmentsInv

\* A session that ends leaves the invariant alone, unless the hook it has not run is owed.
LEMMA RefusedKeeps ==
    ASSUME AssignmentsInv, NEW r \in ItemSessions, Refused(r), received' \in 0..MaxRequests,
           itemRequest[r].at = "hook" => ~Exists(itemRequest[r].item)
    PROVE  AssignmentsInv'
<1> USE DEF Refused, Ends, Goes
<1>1. AssignmentsTypeOK'
  BY DEF AssignmentsInv, AssignmentsTypeOK
<1>2. \A o \in ItemSessions : o # r => itemRequest'[o] = itemRequest[o] /\ (o \in overtaken' <=> o \in overtaken)
  BY DEF AssignmentsInv, AssignmentsTypeOK
<1>3. itemRequest'[r] = Quiet /\ itemRequest'[r].at = "idle"
  BY DEF AssignmentsInv, AssignmentsTypeOK, Quiet
<1>4. RequestsInv'
  BY <1>2, <1>3 DEF AssignmentsInv, RequestsInv, Stage, KnowsColumn, Exists
<1>5. UnbornInv'
  BY <1>2, <1>3 DEF AssignmentsInv, UnbornInv, On
<1>6. RowsInv'
  BY DEF AssignmentsInv, RowsInv, Exists
<1>7. EntriesInv'
  <2> SUFFICES ASSUME NEW i \in WorkItems \ adrift, Exists(i), Owed(i)
               PROVE  Owed(i)'
    BY DEF AssignmentsInv, EntriesInv, Exists
  <2> QED BY <1>2 DEF Owed
<1> QED BY <1>1, <1>4, <1>5, <1>6, <1>7 DEF AssignmentsInv

-----------------------------------------------------------------------------
(* Each step keeps the invariant *)

LEMMA CreateKeeps ==
    ASSUME AssignmentsInv, NEW i \in WorkItems, NEW agent \in Agents \cup {NoOne}, CreateWorkItem(i, agent)
    PROVE  AssignmentsInv'
<1> USE AssignmentsAssumption DEF CreateWorkItem, Receives
<1> DEFINE born == [status |-> "TODO", assignee |-> agent]
<1>1. /\ born \in ItemRows /\ born # Unborn /\ born # Gone
      /\ workItem' = [workItem EXCEPT ![i] = born]
  BY DEF ItemRows, ItemStatuses, Unborn, Gone
<1>2. AssignmentsTypeOK'
  BY <1>1 DEF AssignmentsInv, AssignmentsTypeOK
<1>3. \A o \in ItemSessions : ~On(o, i)
  BY DEF AssignmentsInv, UnbornInv
<1>4. \A j \in WorkItems : workItem'[j] = IF j = i THEN born ELSE workItem[j]
  BY <1>1 DEF AssignmentsInv, AssignmentsTypeOK
<1>5. RequestsInv'
  BY <1>3, <1>4, Positions DEF AssignmentsInv, RequestsInv, Stage, KnowsColumn, Exists, On
<1>6. UnbornInv'
  BY <1>1, <1>4 DEF AssignmentsInv, UnbornInv, On
<1>7. activeRow[i] = NoOne /\ liveEntry[i] = NoOne
  BY DEF AssignmentsInv, RowsInv, UnbornInv, Exists
<1>8. RowsInv'
  BY <1>1, <1>4, <1>7 DEF AssignmentsInv, RowsInv, Exists
<1>9. EntriesInv'
  <2>1. \A j \in WorkItems : Owed(j)' <=> Owed(j)
    BY DEF Owed
  <2> QED BY <1>4, <1>7, <2>1 DEF AssignmentsInv, EntriesInv, Exists
<1> QED BY <1>2, <1>5, <1>6, <1>8, <1>9 DEF AssignmentsInv

LEMMA DeleteKeeps ==
    ASSUME AssignmentsInv, NEW i \in WorkItems, DeleteWorkItem(i)
    PROVE  AssignmentsInv'
<1> USE AssignmentsAssumption DEF DeleteWorkItem, Receives
<1>1. AssignmentsTypeOK'
  BY DEF AssignmentsInv, AssignmentsTypeOK, ItemRows
<1>2. \A j \in WorkItems : /\ workItem'[j] = IF j = i THEN Gone ELSE workItem[j]
                           /\ activeRow'[j] = IF j = i THEN NoOne ELSE activeRow[j]
  BY DEF AssignmentsInv, AssignmentsTypeOK
<1>3. RequestsInv'
  BY <1>2, Positions DEF AssignmentsInv, RequestsInv, Stage, KnowsColumn, Exists
<1>4. UnbornInv'
  BY <1>2 DEF AssignmentsInv, UnbornInv, On, Unborn, Gone
<1>5. RowsInv'
  BY <1>2 DEF AssignmentsInv, RowsInv, Exists
<1>6. EntriesInv'
  <2>1. \A j \in WorkItems : Owed(j)' <=> Owed(j)
    BY DEF Owed
  <2> QED BY <1>2, <2>1 DEF AssignmentsInv, EntriesInv, Exists
<1> QED BY <1>1, <1>3, <1>4, <1>5, <1>6 DEF AssignmentsInv

\* Reading the item.
LEMMA ReadKeeps ==
    ASSUME AssignmentsInv, NEW r \in ItemSessions, NEW i \in WorkItems, NEW op \in {"assign", "unassign", "patch"},
           NEW agent \in Agents \cup {NoOne, Keep}, NEW status \in PatchStatuses \cup {Keep},
           op = "assign" => agent \in Agents, op = "unassign" => agent = NoOne,
           Read(r, op, i, agent, status)
    PROVE  AssignmentsInv'
<1> USE AssignmentsAssumption DEF Read, Receives, Goes
<1> DEFINE new == [at |-> IF op = "patch" THEN "write" ELSE "row", op |-> op, item |-> i, agent |-> agent,
                   status |-> status, found |-> IF op = "assign" THEN workItem[i].status ELSE Keep,
                   previous |-> IF op = "patch" THEN workItem[i].assignee ELSE NoOne]
<1>0. workItem[i].status \in ItemStatuses /\ workItem[i].assignee \in Agents \cup {NoOne}
  BY DEF AssignmentsInv, AssignmentsTypeOK, ItemRows, Exists
<1>1. new \in ItemRequests
  BY <1>0 DEF ItemRequests
<1>2. AssignmentsTypeOK'
  BY <1>1 DEF AssignmentsInv, AssignmentsTypeOK
<1>3. \A o \in ItemSessions : o # r => itemRequest'[o] = itemRequest[o] /\ (o \in overtaken' <=> o \in overtaken)
  BY DEF AssignmentsInv, AssignmentsTypeOK
<1>4. itemRequest'[r] = new
  BY DEF AssignmentsInv, AssignmentsTypeOK
<1>5. RequestsInv'
  BY <1>3, <1>4 DEF AssignmentsInv, RequestsInv, Stage, KnowsColumn, Exists
<1>6. UnbornInv'
  BY <1>3, <1>4 DEF AssignmentsInv, UnbornInv, On, Exists
<1>7. RowsInv'
  BY DEF AssignmentsInv, RowsInv, Exists
<1>8. EntriesInv'
  <2> SUFFICES ASSUME NEW j \in WorkItems \ adrift, Exists(j), Owed(j)
               PROVE  Owed(j)'
    BY DEF AssignmentsInv, EntriesInv, Exists
  <2>1. itemRequest[r].at # "hook"
    BY DEF Quiet
  <2> QED BY <1>3, <2>1 DEF Owed
<1> QED BY <1>2, <1>5, <1>6, <1>7, <1>8 DEF AssignmentsInv

LEMMA ReadRowKeeps ==
    ASSUME AssignmentsInv, NEW r \in ItemSessions, ReadRow(r)
    PROVE  AssignmentsInv'
<1> USE AssignmentsAssumption DEF ReadRow
<1> DEFINE i == itemRequest[r].item
<1> DEFINE new == [itemRequest[r] EXCEPT !.at = "write", !.previous = activeRow[i]]
<1>0. received' \in 0..MaxRequests
  BY DEF AssignmentsInv, AssignmentsTypeOK
<1>1. CASE activeRow[i] = itemRequest[r].agent
  BY <1>0, <1>1, RefusedKeeps
<1>2. CASE activeRow[i] # itemRequest[r].agent
  <2>1. /\ itemRequest' = [itemRequest EXCEPT ![r] = new] /\ overtaken' = overtaken \ {r}
        /\ UNCHANGED <<workItem, activeRow, liveEntry, patched, adrift, received>>
    BY <1>2 DEF Goes
  <2>2. itemRequest[r] \in ItemRequests /\ i \in WorkItems /\ itemRequest[r] # Quiet /\ On(r, i)
    BY Positions DEF AssignmentsInv
  <2>3. Stage(r) /\ itemRequest[r].op # "patch"
    BY <2>2 DEF AssignmentsInv, RequestsInv, Stage
  <2>4. new \in ItemRequests /\ new.item = i /\ new.op = itemRequest[r].op
        /\ new.agent = itemRequest[r].agent /\ new.at = "write" /\ new.previous = activeRow[i]
    BY <2>2 DEF AssignmentsInv, AssignmentsTypeOK, ItemRequests
  <2>5. AssignmentsTypeOK'
    BY <2>1, <2>4 DEF AssignmentsInv, AssignmentsTypeOK
  <2>6. \A o \in ItemSessions : o # r => itemRequest'[o] = itemRequest[o] /\ (o \in overtaken' <=> o \in overtaken)
    BY <2>1 DEF AssignmentsInv, AssignmentsTypeOK
  <2>7. itemRequest'[r] = new
    BY <2>1 DEF AssignmentsInv, AssignmentsTypeOK
  <2>8. RequestsInv'
    <3>1. Stage(r)' /\ KnowsColumn(r)'
      BY <1>2, <2>3, <2>4, <2>7 DEF Stage, KnowsColumn
    <3>2. ASSUME NEW o \in ItemSessions, o # r, itemRequest'[o] # Quiet PROVE Stage(o)' /\ KnowsColumn(o)'
      BY <2>1, <2>6, <3>2 DEF AssignmentsInv, RequestsInv, Stage, KnowsColumn, Exists
    <3> QED BY <3>1, <3>2 DEF RequestsInv
  <2>9. UnbornInv'
    BY <2>1, <2>2, <2>4, <2>6, <2>7 DEF AssignmentsInv, UnbornInv, On
  <2>10. RowsInv'
    BY <2>1 DEF AssignmentsInv, RowsInv, Exists
  <2>11. EntriesInv'
    <3> SUFFICES ASSUME NEW j \in WorkItems \ adrift, Exists(j), Owed(j)
                 PROVE  Owed(j)'
      BY <2>1 DEF AssignmentsInv, EntriesInv, Exists
    <3> QED BY <2>1, <2>6 DEF Owed
  <2> QED BY <2>5, <2>8, <2>9, <2>10, <2>11 DEF AssignmentsInv
<1> QED BY <1>1, <1>2

\* A step that ends r and overtakes the others on its item: what is left to show is the item.
LEMMA OthersKeep ==
    ASSUME AssignmentsInv, NEW r \in ItemSessions, NEW i \in WorkItems, itemRequest[r].at # "hook",
           On(r, i), Ends(r), Overtakes(r, i),
           NEW row \in ItemRows, (Exists(i) /\ row.status \notin {"UNBORN", "GONE"}) \/ (~Exists(i) /\ row = workItem[i]),
           workItem' = [workItem EXCEPT ![i] = row],
           \A j \in WorkItems \ {i} :
               /\ activeRow'[j] = activeRow[j] /\ liveEntry'[j] = liveEntry[j]
               /\ j \in patched' <=> j \in patched
               /\ j \in adrift' <=> j \in adrift,
           ~Exists(i) => activeRow'[i] = NoOne,
           Exists(i) /\ i \notin patched' => activeRow'[i] \in {NoOne, row.assignee},
           Exists(i) /\ i \notin adrift' =>
               \/ liveEntry'[i] \in {NoOne, row.assignee}
               \/ Owed(i) /\ i \notin adrift /\ liveEntry'[i] = liveEntry[i]
    PROVE  RequestsInv' /\ UnbornInv' /\ RowsInv' /\ EntriesInv'
<1> USE DEF Ends, Goes, Overtakes
<1>1. /\ itemRequest'[r] = Quiet /\ itemRequest'[r].at = "idle"
      /\ \A o \in ItemSessions : o # r => itemRequest'[o] = itemRequest[o]
  BY DEF AssignmentsInv, AssignmentsTypeOK, Quiet
<1>2. \A o \in ItemSessions : o # r => (o \in overtaken' <=> o \in overtaken \/ On(o, i))
  OBVIOUS
<1>3. \A j \in WorkItems : workItem'[j] = IF j = i THEN row ELSE workItem[j]
  BY DEF AssignmentsInv, AssignmentsTypeOK
<1>4. Exists(i)' <=> Exists(i)
  BY <1>3 DEF Exists, Unborn, Gone
<1>5. RequestsInv'
  <2> SUFFICES ASSUME NEW o \in ItemSessions, o # r, itemRequest[o] # Quiet
               PROVE  Stage(o)' /\ KnowsColumn(o)'
    BY <1>1 DEF RequestsInv
  <2>1. Stage(o)'
    BY <1>1 DEF AssignmentsInv, RequestsInv, Stage
  <2>2. KnowsColumn(o)'
    BY <1>1, <1>2, <1>3, Positions DEF AssignmentsInv, RequestsInv, KnowsColumn, Exists, On
  <2> QED BY <2>1, <2>2
<1>6. UnbornInv'
  <2>1. workItem'[i] # Unborn
    BY <1>3 DEF AssignmentsInv, UnbornInv, Unborn
  <2> QED BY <1>1, <1>3, <2>1 DEF AssignmentsInv, UnbornInv, On
<1>7. RowsInv'
  BY <1>3, <1>4 DEF AssignmentsInv, RowsInv, Exists
<1>8. \A j \in WorkItems : Owed(j) /\ liveEntry'[j] = liveEntry[j] => Owed(j)'
  BY <1>1, <1>2 DEF Owed
<1>9. EntriesInv'
  <2> SUFFICES ASSUME NEW j \in WorkItems \ adrift', Exists(j)'
               PROVE  liveEntry'[j] \in {NoOne, workItem'[j].assignee} \/ Owed(j)'
    BY DEF EntriesInv
  <2>1. CASE j = i
    BY <1>3, <1>4, <1>8, <2>1
  <2>2. CASE j # i
    BY <1>3, <1>8, <2>2 DEF AssignmentsInv, EntriesInv, Exists
  <2> QED BY <2>1, <2>2
<1> QED BY <1>5, <1>6, <1>7, <1>9

\* What the hook leaves in the queue.
LEMMA QueueAfterAgent ==
    ASSUME NEW i \in WorkItems, NEW agent, NEW previous, NEW status
    PROVE  /\ QueueAfter(i, agent, previous, status) \in {NoOne, agent, liveEntry[i]}
           /\ previous # NoOne /\ previous # agent => QueueAfter(i, agent, previous, status) \in {NoOne, agent}
BY DEF QueueAfter

LEMMA AssignKeeps ==
    ASSUME AssignmentsInv, NEW r \in ItemSessions, AssignAgent(r)
    PROVE  AssignmentsInv'
<1> USE AssignmentsAssumption
<1> DEFINE req == itemRequest[r]
           i == req.item
<1>0. received' \in 0..MaxRequests
  BY DEF AssignAgent, AssignmentsInv, AssignmentsTypeOK
<1>1. req \in ItemRequests /\ i \in WorkItems /\ On(r, i) /\ req.at = "write" /\ req.op = "assign"
  BY Positions DEF AssignAgent, At, AssignmentsInv, ItemRequests
<1>2. req.agent \in Agents /\ req.previous # req.agent
  BY <1>1, Positions DEF AssignmentsInv, RequestsInv, Stage
<1>3. PICK left \in (IF req.previous = NoOne THEN {activeRow[i]} ELSE RowsLeft(r)) :
         IF ~Exists(i) \/ left # NoOne THEN Refused(r)
         ELSE /\ workItem' = [workItem EXCEPT ![i].assignee = req.agent]
              /\ activeRow' = [activeRow EXCEPT ![i] = req.agent]
              /\ HandedOver(i, req.agent, req.previous, req.found)
              /\ patched' = patched \ {i}
              /\ adrift' = IF req.previous # NoOne THEN adrift \ {i}
                           ELSE IF workItem[i].assignee # NoOne THEN adrift \cup {i} ELSE adrift
              /\ Ends(r) /\ Overtakes(r, i)
  BY DEF AssignAgent
<1>4. CASE ~Exists(i) \/ left # NoOne
  BY <1>0, <1>1, <1>3, <1>4, RefusedKeeps
<1>5. CASE Exists(i) /\ left = NoOne
  <2> DEFINE row == [workItem[i] EXCEPT !.assignee = req.agent]
             entry == QueueAfter(i, req.agent, req.previous, req.found)
  <2>1. /\ row \in ItemRows /\ row.status \notin {"UNBORN", "GONE"} /\ Exists(i) /\ row.assignee = req.agent
        /\ workItem' = [workItem EXCEPT ![i] = row]
    BY <1>1, <1>2, <1>3, <1>5 DEF AssignmentsInv, AssignmentsTypeOK, ItemRows, ItemStatuses, Exists
  <2>2. /\ liveEntry' = [liveEntry EXCEPT ![i] = entry]
        /\ entry \in {NoOne, req.agent, liveEntry[i]}
        /\ req.previous # NoOne => entry \in {NoOne, req.agent}
    BY <1>1, <1>2, <1>3, <1>5, QueueAfterAgent DEF HandedOver
  <2>3. AssignmentsTypeOK'
    BY <1>0, <1>1, <1>2, <1>3, <1>5, <2>1, <2>2 DEF AssignmentsInv, AssignmentsTypeOK, Ends, Goes, Overtakes
  <2>4. /\ activeRow'[i] = req.agent /\ liveEntry'[i] = entry
        /\ \A j \in WorkItems \ {i} : activeRow'[j] = activeRow[j] /\ liveEntry'[j] = liveEntry[j]
    BY <1>1, <1>3, <1>5, <2>2 DEF AssignmentsInv, AssignmentsTypeOK
  <2>5. ASSUME i \notin adrift'
        PROVE  \/ liveEntry'[i] \in {NoOne, row.assignee}
               \/ Owed(i) /\ i \notin adrift /\ liveEntry'[i] = liveEntry[i]
    <3>1. CASE req.previous # NoOne
      BY <2>1, <2>2, <2>4, <3>1
    <3>2. CASE req.previous = NoOne
      <4>1. workItem[i].assignee = NoOne /\ i \notin adrift
        BY <1>3, <1>5, <2>5, <3>2
      <4>2. liveEntry[i] = NoOne \/ Owed(i)
        BY <1>1, <1>5, <4>1 DEF AssignmentsInv, EntriesInv
      <4> QED BY <2>1, <2>2, <2>4, <4>1, <4>2
    <3> QED BY <3>1, <3>2
  <2>6. /\ \A j \in WorkItems \ {i} : (j \in patched' <=> j \in patched) /\ (j \in adrift' <=> j \in adrift)
        /\ activeRow'[i] \in {NoOne, row.assignee} /\ itemRequest[r].at # "hook"
        /\ Ends(r) /\ Overtakes(r, i)
        /\ ~Exists(i) => activeRow'[i] = NoOne
        /\ i \notin adrift' => \/ liveEntry'[i] \in {NoOne, row.assignee}
                               \/ Owed(i) /\ i \notin adrift /\ liveEntry'[i] = liveEntry[i]
    BY <1>1, <1>3, <1>5, <2>1, <2>4, <2>5
  <2> HIDE DEF row, entry
  <2>7. RequestsInv' /\ UnbornInv' /\ RowsInv' /\ EntriesInv'
    BY <1>1, <2>1, <2>4, <2>6, OthersKeep
  <2> QED BY <2>3, <2>7 DEF AssignmentsInv
<1> QED BY <1>4, <1>5

LEMMA UnassignKeeps ==
    ASSUME AssignmentsInv, NEW r \in ItemSessions, UnassignCurrentAgent(r)
    PROVE  AssignmentsInv'
<1> USE AssignmentsAssumption
<1> DEFINE req == itemRequest[r]
           i == req.item
<1>1. req \in ItemRequests /\ i \in WorkItems /\ On(r, i) /\ req.at = "write" /\ req.op = "unassign"
  BY Positions DEF UnassignCurrentAgent, At, AssignmentsInv, ItemRequests
<1>2. req.previous # NoOne /\ req.previous \in Agents
  BY <1>1, Positions DEF AssignmentsInv, RequestsInv, Stage, ItemRequests
<1>3. PICK left \in RowsLeft(r) :
         LET closed == activeRow[i] # left
         IN  /\ activeRow' = [activeRow EXCEPT ![i] = left]
             /\ workItem' = IF closed THEN [workItem EXCEPT ![i].assignee = NoOne] ELSE workItem
             /\ HandedOver(i, NoOne, req.previous, req.found)
             /\ patched' = IF closed THEN patched \ {i} ELSE patched
             /\ adrift' = adrift \ {i}
             /\ Ends(r) /\ Overtakes(r, i)
  BY DEF UnassignCurrentAgent
<1>4. /\ left \in {NoOne, activeRow[i]} /\ activeRow[i] \in Agents \cup {NoOne}
      /\ ~Exists(i) => activeRow[i] = NoOne
  BY <1>1 DEF RowsLeft, AssignmentsInv, AssignmentsTypeOK, RowsInv
<1> DEFINE row == IF activeRow[i] # left THEN [workItem[i] EXCEPT !.assignee = NoOne] ELSE workItem[i]
<1>5. /\ (Exists(i) /\ row.status \notin {"UNBORN", "GONE"}) \/ (~Exists(i) /\ row = workItem[i])
      /\ activeRow[i] # left => row.assignee = NoOne
      /\ workItem' = [workItem EXCEPT ![i] = row]
  <2>1. workItem \in [WorkItems -> ItemRows]
    BY DEF AssignmentsInv, AssignmentsTypeOK
  <2>2. CASE activeRow[i] # left
    <3>1. Exists(i)
      BY <1>4, <2>2
    <3>2. workItem[i].status \notin {"UNBORN", "GONE"} /\ row = [workItem[i] EXCEPT !.assignee = NoOne]
      BY <1>1, <2>1, <2>2, <3>1, AssignmentsAssumption DEF Exists, ItemRows, ItemStatuses
    <3>3. row.status = workItem[i].status /\ row.assignee = NoOne
      BY <1>1, <2>1, <3>1, <3>2 DEF Exists, ItemRows
    <3>4. workItem' = [workItem EXCEPT ![i] = row]
      BY <1>1, <1>3, <2>1, <2>2
    <3> HIDE DEF row
    <3> QED BY <3>1, <3>2, <3>3, <3>4
  <2>3. CASE activeRow[i] = left
    <3>1. row = workItem[i] /\ workItem' = workItem
      BY <1>3, <2>3
    <3>2. ~Exists(i) \/ (Exists(i) /\ workItem[i].status \notin {"UNBORN", "GONE"})
      BY <1>1, <2>1, AssignmentsAssumption DEF Exists, ItemRows, ItemStatuses
    <3>3. workItem' = [workItem EXCEPT ![i] = row]
      BY <1>1, <2>1, <3>1
    <3> QED BY <2>3, <3>1, <3>2, <3>3
  <2> QED BY <2>2, <2>3
<1>6. row \in ItemRows
  BY <1>1, <1>4 DEF AssignmentsInv, AssignmentsTypeOK, ItemRows, ItemStatuses, Exists
<1>7. liveEntry' = [liveEntry EXCEPT ![i] = NoOne]
  <2>1. QueueAfter(i, NoOne, req.previous, req.found) = NoOne
    BY <1>2 DEF QueueAfter
  <2> QED BY <1>3, <2>1 DEF HandedOver
<1>8. AssignmentsTypeOK'
  BY <1>1, <1>3, <1>4, <1>5, <1>6, <1>7
     DEF AssignmentsInv, AssignmentsTypeOK, Ends, Goes, Overtakes, UnassignCurrentAgent
<1>9. /\ activeRow'[i] = left /\ liveEntry'[i] = NoOne
      /\ \A j \in WorkItems \ {i} : activeRow'[j] = activeRow[j] /\ liveEntry'[j] = liveEntry[j]
  BY <1>1, <1>3, <1>7 DEF AssignmentsInv, AssignmentsTypeOK
<1>10. Exists(i) /\ i \notin patched' => activeRow'[i] \in {NoOne, row.assignee}
  BY <1>1, <1>3, <1>4, <1>5, <1>9 DEF AssignmentsInv, RowsInv
<1>11. /\ \A j \in WorkItems \ {i} : (j \in patched' <=> j \in patched) /\ (j \in adrift' <=> j \in adrift)
       /\ ~Exists(i) => activeRow'[i] = NoOne
       /\ itemRequest[r].at # "hook" /\ Ends(r) /\ Overtakes(r, i)
  BY <1>1, <1>3, <1>4, <1>9
<1> HIDE DEF row
<1>12. RequestsInv' /\ UnbornInv' /\ RowsInv' /\ EntriesInv'
  BY <1>1, <1>5, <1>6, <1>9, <1>10, <1>11, OthersKeep
<1> QED BY <1>8, <1>12 DEF AssignmentsInv

LEMMA UpdateKeeps ==
    ASSUME AssignmentsInv, NEW r \in ItemSessions, UpdateWorkItem(r)
    PROVE  AssignmentsInv'
<1> USE AssignmentsAssumption
<1> DEFINE req == itemRequest[r]
           i == req.item
           carries == req.agent # Keep
           row == [status |-> IF req.status = Keep THEN workItem[i].status ELSE req.status,
                   assignee |-> IF carries THEN req.agent ELSE workItem[i].assignee]
           new == IF carries /\ req.agent # req.previous THEN [req EXCEPT !.at = "hook"] ELSE Quiet
<1>0. received' \in 0..MaxRequests
  BY DEF UpdateWorkItem, AssignmentsInv, AssignmentsTypeOK
<1>1. req \in ItemRequests /\ i \in WorkItems /\ On(r, i) /\ req.at = "write" /\ req.op = "patch"
  BY Positions DEF UpdateWorkItem, At, AssignmentsInv, ItemRequests
<1>2. CASE ~Exists(i)
  <2>1. Refused(r)
    BY <1>2 DEF UpdateWorkItem
  <2> QED BY <1>0, <1>1, <2>1, RefusedKeeps
<1>3. CASE Exists(i)
  <2>1. PICK left \in (IF req.status = "DONE" THEN RowsLeft(r) ELSE {activeRow[i]}) :
           /\ activeRow' = [activeRow EXCEPT ![i] = left]
           /\ workItem' = [workItem EXCEPT
                ![i] = [status |-> IF req.status = Keep THEN @.status ELSE req.status,
                        assignee |-> IF carries THEN req.agent ELSE @.assignee]]
           /\ patched' = IF carries THEN patched \cup {i} ELSE patched
           /\ adrift' = IF carries /\ r \in overtaken THEN adrift \cup {i} ELSE adrift
           /\ IF carries /\ req.agent # req.previous
              THEN Goes(r, [req EXCEPT !.at = "hook"]) ELSE Ends(r)
           /\ IF carries \/ left # activeRow[i] THEN Overtakes(r, i) ELSE overtaken' = overtaken \ {r}
           /\ UNCHANGED liveEntry
    BY <1>3 DEF UpdateWorkItem
  <2>2. left \in {NoOne, activeRow[i]} /\ left \in Agents \cup {NoOne}
    BY <1>1 DEF RowsLeft, AssignmentsInv, AssignmentsTypeOK
  <2>3. workItem[i].status \in ItemStatuses /\ workItem[i].assignee \in Agents \cup {NoOne}
    BY <1>1, <1>3 DEF AssignmentsInv, AssignmentsTypeOK, ItemRows, Exists
  <2>4. /\ row \in ItemRows /\ row # Unborn /\ row # Gone
        /\ carries => row.assignee = req.agent
        /\ ~carries => row.assignee = workItem[i].assignee
    BY <1>1, <2>3 DEF ItemRequests, ItemRows, ItemStatuses, Unborn, Gone
  <2>5. /\ new \in ItemRequests \cup {Quiet}
        /\ new # Quiet => /\ carries /\ new.at = "hook" /\ new.op = "patch" /\ new.item = i
                          /\ new.agent = req.agent /\ new.previous = req.previous /\ new.agent # new.previous
        /\ carries /\ req.agent # req.previous =>
             new.at = "hook" /\ new.item = i /\ new.previous = req.previous
    BY <1>1 DEF ItemRequests, Quiet
  <2>6. itemRequest' = [itemRequest EXCEPT ![r] = new]
    BY <2>1 DEF Goes, Ends
  <2>7. \A j \in WorkItems : /\ workItem'[j] = IF j = i THEN row ELSE workItem[j]
                             /\ activeRow'[j] = IF j = i THEN left ELSE activeRow[j]
    BY <1>1, <2>1 DEF AssignmentsInv, AssignmentsTypeOK
  <2>8. itemRequest'[r] = new /\ \A o \in ItemSessions : o # r => itemRequest'[o] = itemRequest[o]
    BY <2>6 DEF AssignmentsInv, AssignmentsTypeOK
  <2>9. /\ \A o \in ItemSessions : o # r /\ o \in overtaken => o \in overtaken'
        /\ \A o \in ItemSessions : o # r /\ carries /\ On(o, i) => o \in overtaken'
        /\ overtaken' \subseteq ItemSessions
        /\ r \notin overtaken'
    BY <2>1 DEF Overtakes, AssignmentsInv, AssignmentsTypeOK
  <2>10. AssignmentsTypeOK'
    <3>1. workItem' \in [WorkItems -> ItemRows]
      BY <1>1, <2>1, <2>4 DEF AssignmentsInv, AssignmentsTypeOK
    <3>2. itemRequest' \in [ItemSessions -> ItemRequests \cup {Quiet}]
      BY <2>5, <2>6 DEF AssignmentsInv, AssignmentsTypeOK
    <3> QED BY <1>0, <1>1, <2>1, <2>2, <2>9, <3>1, <3>2 DEF AssignmentsInv, AssignmentsTypeOK
  <2> HIDE DEF row, new
  <2>11. RequestsInv'
    <3>1. ASSUME new # Quiet PROVE Stage(r)' /\ KnowsColumn(r)'
      BY <1>1, <2>4, <2>5, <2>7, <2>8, <3>1 DEF Stage, KnowsColumn
    <3>2. ASSUME NEW o \in ItemSessions, o # r, itemRequest[o] # Quiet PROVE Stage(o)' /\ KnowsColumn(o)'
      <4>1. Stage(o)'
        BY <2>8, <3>2 DEF AssignmentsInv, RequestsInv, Stage
      <4>2. CASE itemRequest[o].item = i /\ carries
        <5>1. o \in overtaken'
          BY <2>9, <3>2, <4>2, Positions DEF AssignmentsInv, On
        <5> QED BY <2>8, <3>2, <4>1, <5>1 DEF KnowsColumn
      <4>3. CASE itemRequest[o].item = i /\ ~carries
        <5>1. workItem'[i].assignee = workItem[i].assignee
          BY <1>1, <2>4, <2>7, <4>3
        <5> QED BY <1>3, <2>8, <2>9, <3>2, <4>1, <4>3, <5>1 DEF AssignmentsInv, RequestsInv, KnowsColumn
      <4>4. CASE itemRequest[o].item # i
        <5>1. itemRequest[o].item \in WorkItems
          BY <3>2, Positions DEF AssignmentsInv
        <5> QED BY <2>7, <2>8, <2>9, <3>2, <4>1, <4>4, <5>1 DEF AssignmentsInv, RequestsInv, KnowsColumn, Exists
      <4> QED BY <4>2, <4>3, <4>4
    <3> QED BY <2>8, <3>1, <3>2 DEF RequestsInv
  <2>12. UnbornInv'
    BY <2>1, <2>4, <2>5, <2>7, <2>8, <1>1 DEF AssignmentsInv, UnbornInv, On, Quiet
  <2>13. RowsInv'
    BY <1>1, <1>3, <2>1, <2>2, <2>4, <2>7 DEF AssignmentsInv, RowsInv, Exists
  <2>14. EntriesInv'
    <3> SUFFICES ASSUME NEW j \in WorkItems \ adrift', Exists(j)'
                 PROVE  liveEntry[j] \in {NoOne, workItem'[j].assignee} \/ Owed(j)'
      BY <2>1 DEF EntriesInv
    <3>0. j \notin adrift
      BY <2>1
    <3>1. Exists(j)
      BY <1>3, <2>7 DEF Exists
    <3>2. liveEntry[j] \in {NoOne, workItem[j].assignee} \/ Owed(j)
      BY <3>0, <3>1 DEF AssignmentsInv, EntriesInv
    <3>3. Owed(j) => Owed(j)'
      BY <1>1, <2>1, <2>8, <2>9 DEF Owed
    <3>4. CASE j # i \/ ~carries
      BY <2>4, <2>7, <3>2, <3>3, <3>4
    <3>5. CASE j = i /\ carries
      <4>1. r \notin overtaken
        BY <2>1, <3>5
      <4>2. workItem[i].assignee = req.previous
        BY <1>1, <1>3, <4>1, Positions DEF AssignmentsInv, RequestsInv, KnowsColumn
      <4>3. liveEntry[i] = req.previous /\ req.agent # req.previous => Owed(j)'
        BY <2>1, <2>5, <2>8, <3>5 DEF Owed
      <4> QED BY <2>4, <2>7, <3>2, <3>3, <3>5, <4>2, <4>3
    <3> QED BY <3>4, <3>5
  <2> QED BY <2>10, <2>11, <2>12, <2>13, <2>14 DEF AssignmentsInv
<1> QED BY <1>2, <1>3

LEMMA NotifyKeeps ==
    ASSUME AssignmentsInv, NEW r \in ItemSessions, NotifyAssignmentChanged(r)
    PROVE  AssignmentsInv'
<1> USE AssignmentsAssumption
<1> DEFINE req == itemRequest[r]
           i == req.item
           entry == QueueAfter(i, req.agent, req.previous, workItem[i].status)
<1>0. received' \in 0..MaxRequests
  BY DEF NotifyAssignmentChanged, AssignmentsInv, AssignmentsTypeOK
<1>1. req \in ItemRequests /\ i \in WorkItems /\ On(r, i) /\ req.at = "hook"
  BY Positions DEF NotifyAssignmentChanged, AssignmentsInv, ItemRequests, Quiet
<1>2. /\ req.op = "patch" /\ req.agent \in Agents \cup {NoOne} /\ req.agent # req.previous
      /\ KnowsColumn(r)
  BY <1>1, Positions DEF AssignmentsInv, RequestsInv, Stage, ItemRequests
<1>3. CASE ~Exists(i)
  <2>1. Refused(r)
    BY <1>3 DEF NotifyAssignmentChanged
  <2> QED BY <1>0, <1>1, <1>3, <2>1, RefusedKeeps
<1>4. CASE Exists(i)
  <2>1. /\ liveEntry' = [liveEntry EXCEPT ![i] = entry]
        /\ adrift' = IF r \in overtaken THEN adrift \cup {i} ELSE adrift
        /\ itemRequest' = [itemRequest EXCEPT ![r] = Quiet]
        /\ overtaken' = overtaken \ {r}
        /\ UNCHANGED <<workItem, activeRow, patched>>
    BY <1>4 DEF NotifyAssignmentChanged, HandedOver, Ends, Goes
  <2>2. entry \in {NoOne, req.agent, liveEntry[i]} /\ (req.previous # NoOne => entry \in {NoOne, req.agent})
    BY <1>2 DEF QueueAfter
  <2> HIDE DEF entry
  <2>3. AssignmentsTypeOK'
    BY <1>0, <1>1, <1>2, <2>1, <2>2 DEF AssignmentsInv, AssignmentsTypeOK
  <2>4. /\ itemRequest'[r] = Quiet /\ itemRequest'[r].at = "idle"
        /\ \A o \in ItemSessions : o # r => itemRequest'[o] = itemRequest[o] /\ (o \in overtaken' <=> o \in overtaken)
    BY <2>1 DEF AssignmentsInv, AssignmentsTypeOK, Quiet
  <2>5. \A j \in WorkItems : liveEntry'[j] = IF j = i THEN entry ELSE liveEntry[j]
    BY <1>1, <2>1 DEF AssignmentsInv, AssignmentsTypeOK
  <2>6. RequestsInv'
    BY <2>1, <2>4 DEF AssignmentsInv, RequestsInv, Stage, KnowsColumn, Exists
  <2>7. UnbornInv'
    BY <1>4, <2>1, <2>4, <2>5 DEF AssignmentsInv, UnbornInv, On, Exists
  <2>8. RowsInv'
    BY <2>1 DEF AssignmentsInv, RowsInv, Exists
  <2>9. EntriesInv'
    <3> SUFFICES ASSUME NEW j \in WorkItems \ adrift', Exists(j), j \notin adrift
                 PROVE  liveEntry'[j] \in {NoOne, workItem[j].assignee} \/ Owed(j)'
      BY <2>1 DEF EntriesInv, Exists
    <3>1. liveEntry[j] \in {NoOne, workItem[j].assignee} \/ Owed(j)
      BY DEF AssignmentsInv, EntriesInv
    <3>2. CASE j # i
      <4>1. Owed(j) => Owed(j)'
        BY <2>4, <2>5, <3>2 DEF Owed
      <4> QED BY <2>5, <3>1, <3>2, <4>1
    <3>3. CASE j = i
      <4>1. r \notin overtaken /\ workItem[i].assignee = req.agent
        BY <1>1, <1>2, <1>4, <2>1, <3>3 DEF KnowsColumn
      <4>2. CASE entry \in {NoOne, req.agent}
        BY <2>5, <3>3, <4>1, <4>2
      <4>3. CASE req.previous = NoOne /\ liveEntry[i] # NoOne /\ entry = liveEntry[i]
        <5>1. Owed(j) => Owed(j)'
          BY <1>1, <2>4, <2>5, <3>3, <4>1, <4>3 DEF Owed
        <5> QED BY <2>5, <3>1, <3>3, <4>3, <5>1
      <4> QED BY <2>2, <4>2, <4>3
    <3> QED BY <3>2, <3>3
  <2> QED BY <2>3, <2>6, <2>7, <2>8, <2>9 DEF AssignmentsInv
<1> QED BY <1>3, <1>4

LEMMA DeathKeeps ==
    ASSUME AssignmentsInv, NEW r \in ItemSessions, RequestDies(r)
    PROVE  AssignmentsInv'
<1> USE AssignmentsAssumption DEF RequestDies, Ends, Goes
<1>1. \A o \in ItemSessions : o # r => itemRequest'[o] = itemRequest[o] /\ (o \in overtaken' <=> o \in overtaken)
  BY DEF AssignmentsInv, AssignmentsTypeOK
<1>2. itemRequest'[r] = Quiet /\ itemRequest'[r].at = "idle"
  BY DEF AssignmentsInv, AssignmentsTypeOK, Quiet
<1>3. AssignmentsTypeOK'
  BY Positions DEF AssignmentsInv, AssignmentsTypeOK
<1>4. RequestsInv'
  BY <1>1, <1>2 DEF AssignmentsInv, RequestsInv, Stage, KnowsColumn, Exists
<1>5. UnbornInv'
  BY <1>1, <1>2 DEF AssignmentsInv, UnbornInv, On
<1>6. RowsInv'
  BY DEF AssignmentsInv, RowsInv, Exists
<1>7. EntriesInv'
  <2> SUFFICES ASSUME NEW j \in WorkItems \ adrift', Owed(j)
               PROVE  Owed(j)'
    BY DEF AssignmentsInv, EntriesInv, Exists
  <2> QED BY <1>1 DEF Owed
<1> QED BY <1>3, <1>4, <1>5, <1>6, <1>7 DEF AssignmentsInv

LEMMA AssignmentsStepKeeps == ASSUME AssignmentsInv, [AssignmentsNext]_itemVars PROVE AssignmentsInv'
<1>1. CASE UNCHANGED itemVars
  <2>1. AssignmentsTypeOK' /\ RequestsInv' /\ UnbornInv' /\ RowsInv'
    BY <1>1 DEF AssignmentsInv, itemVars, AssignmentsTypeOK, RequestsInv, Stage, KnowsColumn, UnbornInv, RowsInv, Exists, On
  <2>2. \A j \in WorkItems : Owed(j)' <=> Owed(j)
    BY <1>1 DEF itemVars, Owed
  <2>3. EntriesInv'
    BY <1>1, <2>2 DEF AssignmentsInv, itemVars, EntriesInv, Exists
  <2> QED BY <2>1, <2>3 DEF AssignmentsInv
<1>2. ASSUME NEW i \in WorkItems, DeleteWorkItem(i) PROVE AssignmentsInv'
  BY <1>2, DeleteKeeps
<1>3. ASSUME NEW i \in WorkItems, NEW agent \in Agents \cup {NoOne}, CreateWorkItem(i, agent) PROVE AssignmentsInv'
  BY <1>3, CreateKeeps
<1>4. ASSUME NEW r \in ItemSessions, ReceivePatch(r) PROVE AssignmentsInv'
  <2>1. PICK i \in WorkItems, agent \in Agents \cup {NoOne, Keep}, status \in PatchStatuses \cup {Keep} :
           Read(r, "patch", i, agent, status)
    BY <1>4 DEF ReceivePatch
  <2> QED BY <2>1, ReadKeeps
<1>5. ASSUME NEW r \in ItemSessions, ReceiveAssign(r) PROVE AssignmentsInv'
  <2>1. PICK i \in WorkItems, agent \in Agents : Read(r, "assign", i, agent, Keep)
    BY <1>5 DEF ReceiveAssign
  <2> QED BY <2>1, ReadKeeps
<1>6. ASSUME NEW r \in ItemSessions, ReceiveUnassign(r) PROVE AssignmentsInv'
  <2>1. PICK i \in WorkItems : Read(r, "unassign", i, NoOne, Keep)
    BY <1>6 DEF ReceiveUnassign
  <2> QED BY <2>1, ReadKeeps
<1>7. ASSUME NEW r \in ItemSessions,
             \/ ReadRow(r) \/ AssignAgent(r) \/ UnassignCurrentAgent(r)
             \/ UpdateWorkItem(r) \/ NotifyAssignmentChanged(r) \/ RequestDies(r)
      PROVE  AssignmentsInv'
  BY <1>7, ReadRowKeeps, AssignKeeps, UnassignKeeps, UpdateKeeps, NotifyKeeps, DeathKeeps
<1> QED BY <1>1, <1>2, <1>3, <1>4, <1>5, <1>6, <1>7 DEF AssignmentsNext

-----------------------------------------------------------------------------
(* Theorems *)

\* The inductive invariant: where each request stands, what the rows and the column say of
\* an item, and who will still take a stray queue entry away.
THEOREM AssignmentsInvariance == AssignmentsSpec => []AssignmentsInv
<1>1. AssignmentsInit => AssignmentsInv
  BY AssignmentsStart
<1>2. AssignmentsInv /\ [AssignmentsNext]_itemVars => AssignmentsInv'
  BY AssignmentsStepKeeps
<1> QED BY <1>1, <1>2, PTL DEF AssignmentsSpec

\* The active assignment row and the assignee column agree on every item no PATCH of the
\* assignee was the last to write, however assign, unassign, DONE and deaths interleave.
THEOREM AgreeingRows == AssignmentsSpec => []RowNamesAssignee
<1>1. AssignmentsInv => RowNamesAssignee
  BY DEF AssignmentsInv, RowsInv, RowNamesAssignee
<1> QED BY <1>1, AssignmentsInvariance, PTL

\* Once its requests have ended, an item that is not adrift waits for its assignee or for
\* nobody.
THEOREM EntriesFollow == AssignmentsSpec => []EntryFollowsAssignee
<1>1. ASSUME AssignmentsInv PROVE EntryFollowsAssignee
  <2> SUFFICES ASSUME NEW i \in WorkItems \ adrift, Exists(i), \A r \in ItemSessions : ~On(r, i)
               PROVE  liveEntry[i] \in {NoOne, workItem[i].assignee}
    BY DEF EntryFollowsAssignee
  <2>1. ~Owed(i)
    BY DEF Owed, On
  <2> QED BY <1>1, <2>1 DEF AssignmentsInv, EntriesInv
<1> QED BY <1>1, AssignmentsInvariance, PTL

-----------------------------------------------------------------------------
(* Backlogs and sprints *)

\* An open item that came to a backlog in the way the code provides for.
OpenIn(i, b) == place[i] = b /\ progress[i] = "OPEN" /\ i \notin astray

\* What a completion has still to move, and has moved.
CompletionsInv ==
    \A r \in SprintSessions :
        /\ plan[r].at \in {"read", "move", "close"} => plan[r].board # NoPlace
        /\ \A i \in SprintItems : /\ plan[r].at = "move" /\ OpenIn(i, plan[r].board) => i \in plan[r].items
                                  /\ plan[r].at = "close" => ~OpenIn(i, plan[r].board)

SprintsInv == SprintsTypeOK /\ CompletionsInv /\ CompletedSprintKeepsNothingOpen

LEMMA PlanRows ==
    ASSUME SprintsTypeOK, NEW r \in SprintSessions
    PROVE  plan[r] \in PlanRecords
BY DEF SprintsTypeOK

LEMMA SprintsStart == ASSUME SprintsInit PROVE SprintsInv
<1> USE SprintsAssumption
<1>1. PICK t \in InitialSprints : backlog = t.boards /\ place = t.on /\ progress = t.items
  BY DEF SprintsInit
<1>2. SprintsTypeOK
  BY <1>1, InitialSprintsAssumption DEF SprintsInit, SprintsTypeOK, PlanRecords, Unplanned, BoardExists, ItemExists
<1>3. CompletionsInv
  BY DEF SprintsInit, CompletionsInv, Unplanned
<1>4. CompletedSprintKeepsNothingOpen
  BY <1>1, InitialSprintsAssumption DEF CompletedSprintKeepsNothingOpen
<1> QED BY <1>2, <1>3, <1>4 DEF SprintsInv

\* An item that arrives on a backlog and is not astray met no completion there.
LEMMA Arrivals ==
    ASSUME NEW items \in SUBSET SprintItems, NEW b \in SprintBoards \cup {NoPlace}, Arrive(items, b),
           NEW i \in SprintItems, i \notin astray'
    PROVE  /\ i \notin items => i \notin astray
           /\ i \in items /\ b # NoPlace => backlog[b].status # "CLOSED" /\ ~Completing(b)
BY DEF Arrive

\* A request that begins, or ends, without writing a table.
LEMMA ReadsKeep ==
    ASSUME SprintsInv, NEW r \in SprintSessions, NEW new \in PlanRecords, Proceeds(r, new),
           planned' \in 0..MaxPlans, UNCHANGED <<backlog, place, progress, astray>>,
           new.at \in {"read", "move", "close"} => new.board # NoPlace,
           new.at = "move" => \A i \in SprintItems : OpenIn(i, new.board) => i \in new.items,
           new.at = "close" => \A i \in SprintItems : ~OpenIn(i, new.board)
    PROVE  SprintsInv'
<1>1. SprintsTypeOK'
  BY DEF SprintsInv, SprintsTypeOK, Proceeds, BoardExists, ItemExists
<1>2. plan'[r] = new /\ \A o \in SprintSessions : o # r => plan'[o] = plan[o]
  BY DEF SprintsInv, SprintsTypeOK, Proceeds
<1>3. \A i \in SprintItems, b \in SprintBoards \cup {NoPlace} : OpenIn(i, b)' <=> OpenIn(i, b)
  BY DEF OpenIn
<1>4. CompletionsInv'
  BY <1>2 DEF SprintsInv, CompletionsInv, OpenIn
<1>5. CompletedSprintKeepsNothingOpen'
  BY DEF SprintsInv, CompletedSprintKeepsNothingOpen
<1> QED BY <1>1, <1>4, <1>5 DEF SprintsInv

LEMMA EndsKeep ==
    ASSUME SprintsInv, NEW r \in SprintSessions, RolledBack(r)
    PROVE  SprintsInv'
<1>1. Unplanned \in PlanRecords /\ Unplanned.at = "idle"
  BY SprintsAssumption DEF Unplanned, PlanRecords
<1>2. planned' \in 0..MaxPlans
  BY DEF RolledBack, SprintsInv, SprintsTypeOK
<1> QED BY <1>1, <1>2, ReadsKeep DEF RolledBack, Concludes

\* A step that writes rows of backlogs and leaves the items where they are.
LEMMA BacklogKeeps ==
    ASSUME SprintsInv, NEW b \in SprintBoards, NEW row \in PlanBoardRows,
           backlog' = [backlog EXCEPT ![b] = row], UNCHANGED <<place, progress, astray>>,
           planned' \in 0..MaxPlans, plan' = plan \/ (\E r \in SprintSessions : Concludes(r)),
           BoardExists(b) => row.status \in {"OPEN", "ACTIVE", "CLOSED"},
           row.status = "CLOSED" => backlog[b].status = "CLOSED" \/ (\A i \in SprintItems : ~OpenIn(i, b))
    PROVE  SprintsInv'
<1> USE SprintsAssumption
<1>1. \A c \in SprintBoards : backlog'[c] = IF c = b THEN row ELSE backlog[c]
  BY DEF SprintsInv, SprintsTypeOK
<1>2. plan' \in [SprintSessions -> PlanRecords]
  BY DEF SprintsInv, SprintsTypeOK, Concludes, Proceeds, Unplanned, PlanRecords
<1>3. SprintsTypeOK'
  BY <1>1, <1>2 DEF SprintsInv, SprintsTypeOK, BoardExists, ItemExists
<1>4. \A r \in SprintSessions : plan'[r] = plan[r] \/ plan'[r].at = "idle"
  BY DEF SprintsInv, SprintsTypeOK, Concludes, Proceeds, Unplanned
<1>5. CompletionsInv'
  BY <1>4 DEF SprintsInv, CompletionsInv, OpenIn
<1>6. CompletedSprintKeepsNothingOpen'
  BY <1>1 DEF SprintsInv, SprintsTypeOK, CompletedSprintKeepsNothingOpen, OpenIn
<1> QED BY <1>3, <1>5, <1>6 DEF SprintsInv

\* A step that puts open items on a backlog: nothing of them is left behind.
LEMMA ItemsKeep ==
    ASSUME SprintsInv, NEW items \in SUBSET SprintItems, NEW b \in SprintBoards \cup {NoPlace}, Arrive(items, b),
           b # NoPlace => BoardExists(b),
           place' \in [SprintItems -> SprintBoards \cup {NoPlace}],
           \A i \in SprintItems : place'[i] = IF i \in items THEN b ELSE place[i],
           progress' \in [SprintItems -> {"UNBORN", "OPEN", "DONE", "GONE"}],
           \A i \in SprintItems : (i \in items => ItemExists(i)') /\ (i \notin items => progress'[i] = progress[i]),
           UNCHANGED backlog, planned' \in 0..MaxPlans,
           plan' \in [SprintSessions -> PlanRecords],
           \A r \in SprintSessions :
               \/ plan'[r] = plan[r] \/ plan'[r].at \notin {"read", "move", "close"}
               \/ /\ plan[r].at = "move" /\ plan'[r].at = "close"
                  /\ plan'[r].board = plan[r].board /\ items = plan[r].items
    PROVE  SprintsInv'
<1> USE SprintsAssumption
<1>3. SprintsTypeOK'
  BY DEF SprintsInv, SprintsTypeOK, BoardExists, ItemExists, Arrive
<1>4. \A i \in SprintItems : i \notin astray' =>
         /\ i \notin items => i \notin astray
         /\ i \in items /\ b # NoPlace => backlog[b].status # "CLOSED" /\ ~Completing(b)
  BY Arrivals
<1>5. ASSUME NEW i \in SprintItems, NEW c, c # NoPlace, OpenIn(i, c)'
      PROVE  \/ i \notin items /\ OpenIn(i, c)
             \/ i \in items /\ c = b /\ backlog[c].status # "CLOSED" /\ ~Completing(c)
  BY <1>4, <1>5 DEF OpenIn
<1>6. CompletionsInv'
  <2> SUFFICES ASSUME NEW r \in SprintSessions, plan'[r].at \in {"read", "move", "close"}
               PROVE  /\ plan'[r].board # NoPlace
                      /\ \A i \in SprintItems :
                            /\ plan'[r].at = "move" /\ OpenIn(i, plan[r].board)' => i \in plan'[r].items
                            /\ plan'[r].at = "close" => ~OpenIn(i, plan[r].board)'
    BY DEF CompletionsInv
  <2>1. /\ plan[r].at \in {"read", "move", "close"} /\ plan'[r].board = plan[r].board
        /\ plan'[r] = plan[r] \/ (plan[r].at = "move" /\ plan'[r].at = "close" /\ items = plan[r].items)
    OBVIOUS
  <2>2. plan[r].board # NoPlace /\ (plan[r].at # "read" => Completing(plan[r].board))
    BY <2>1 DEF SprintsInv, CompletionsInv, Completing
  <2>3. \A i \in SprintItems :
           plan[r].at # "read" /\ OpenIn(i, plan[r].board)' => OpenIn(i, plan[r].board) /\ i \notin items
    BY <1>4, <2>1, <2>2 DEF OpenIn
  <2> QED BY <2>1, <2>2, <2>3 DEF SprintsInv, CompletionsInv
<1>7. CompletedSprintKeepsNothingOpen'
  <2> SUFFICES ASSUME NEW i \in SprintItems \ astray', progress'[i] = "OPEN", place'[i] # NoPlace
               PROVE  backlog[place'[i]].status # "CLOSED"
    BY DEF CompletedSprintKeepsNothingOpen
  <2> QED BY <1>5 DEF SprintsInv, CompletedSprintKeepsNothingOpen, OpenIn
<1> QED BY <1>3, <1>6, <1>7 DEF SprintsInv

\* A step after which fewer items are open on the backlogs.
LEMMA FewerKeep ==
    ASSUME SprintsInv, SprintsTypeOK', UNCHANGED plan,
           \A i \in SprintItems, c \in SprintBoards : OpenIn(i, c)' => OpenIn(i, c),
           \A c \in SprintBoards : backlog'[c].status = "CLOSED" => backlog[c].status = "CLOSED"
    PROVE  SprintsInv'
<1>1. CompletionsInv'
  <2> SUFFICES ASSUME NEW r \in SprintSessions, plan[r].at \in {"read", "move", "close"}
               PROVE  /\ plan[r].board # NoPlace
                      /\ \A i \in SprintItems :
                            /\ plan[r].at = "move" /\ OpenIn(i, plan[r].board)' => i \in plan[r].items
                            /\ plan[r].at = "close" => ~OpenIn(i, plan[r].board)'
    BY DEF CompletionsInv
  <2>1. plan[r].board \in SprintBoards
    BY PlanRows DEF SprintsInv, CompletionsInv, PlanRecords
  <2> QED BY <2>1 DEF SprintsInv, CompletionsInv
<1>2. CompletedSprintKeepsNothingOpen'
  BY DEF SprintsInv, CompletedSprintKeepsNothingOpen, OpenIn, SprintsTypeOK
<1> QED BY <1>1, <1>2 DEF SprintsInv

-----------------------------------------------------------------------------
(* Each step keeps the invariant *)

LEMMA CreateBacklogKeeps ==
    ASSUME SprintsInv, NEW b \in SprintBoards, NEW kind \in Kinds, CreateBacklog(b, kind)
    PROVE  SprintsInv'
<1>1. [kind |-> kind, status |-> IF kind = "SPRINT" THEN "OPEN" ELSE "ACTIVE"] \in PlanBoardRows
  BY DEF PlanBoardRows
<1>2. planned' \in 0..MaxPlans
  BY SprintsAssumption DEF CreateBacklog, Plans, SprintsInv, SprintsTypeOK
<1> QED BY <1>1, <1>2, BacklogKeeps DEF CreateBacklog

LEMMA DeleteBacklogKeeps ==
    ASSUME SprintsInv, NEW b \in SprintBoards, DeleteBacklog(b)
    PROVE  SprintsInv'
<1> USE SprintsAssumption DEF DeleteBacklog, Plans
<1>1. \A c \in SprintBoards : c # b => backlog'[c] = backlog[c]
  BY DEF SprintsInv, SprintsTypeOK
<1>2. backlog' \in [SprintBoards -> PlanBoardRows] /\ backlog'[b].status = "GONE"
  BY DEF SprintsInv, SprintsTypeOK, PlanBoardRows
<1>3. \A i \in SprintItems : place'[i] = place[i] \/ place'[i] = NoPlace
  OBVIOUS
<1>4. SprintsTypeOK'
  BY <1>1, <1>2 DEF SprintsInv, SprintsTypeOK, BoardExists, ItemExists
<1>5. \A i \in SprintItems, c \in SprintBoards : OpenIn(i, c)' => OpenIn(i, c)
  BY <1>3 DEF OpenIn
<1> QED BY <1>1, <1>2, <1>4, <1>5, FewerKeep

LEMMA AddItemKeeps ==
    ASSUME SprintsInv, NEW i \in SprintItems, NEW b \in SprintBoards, AddItemToBacklog(i, b)
    PROVE  SprintsInv'
<1> USE SprintsAssumption DEF AddItemToBacklog, Plans
<1>1. /\ place' \in [SprintItems -> SprintBoards \cup {NoPlace}] /\ planned' \in 0..MaxPlans
      /\ \A j \in SprintItems : place'[j] = IF j \in {i} THEN b ELSE place[j]
  BY DEF SprintsInv, SprintsTypeOK
<1>2. /\ progress' \in [SprintItems -> {"UNBORN", "OPEN", "DONE", "GONE"}]
      /\ plan' \in [SprintSessions -> PlanRecords] /\ ItemExists(i)'
  BY DEF SprintsInv, SprintsTypeOK, ItemExists
<1> QED BY <1>1, <1>2, ItemsKeep

LEMMA RemoveItemKeeps ==
    ASSUME SprintsInv, NEW i \in SprintItems, RemoveItemFromBacklog(i) \/ EraseItem(i) \/ FinishItem(i)
    PROVE  SprintsInv'
<1> USE SprintsAssumption DEF RemoveItemFromBacklog, EraseItem, FinishItem, Plans
<1>1. SprintsTypeOK'
  BY DEF SprintsInv, SprintsTypeOK, BoardExists, ItemExists
<1>2. \A j \in SprintItems, c \in SprintBoards : OpenIn(j, c)' => OpenIn(j, c)
  BY DEF SprintsInv, SprintsTypeOK, OpenIn
<1> QED BY <1>1, <1>2, FewerKeep

LEMMA CreateItemKeeps ==
    ASSUME SprintsInv, NEW i \in SprintItems, NEW b \in SprintBoards \cup {NoPlace}, CreateItem(i, b)
    PROVE  SprintsInv'
<1> USE SprintsAssumption DEF CreateItem, Plans
<1>1. /\ place' \in [SprintItems -> SprintBoards \cup {NoPlace}] /\ planned' \in 0..MaxPlans
      /\ \A j \in SprintItems : place'[j] = IF j \in {i} THEN b ELSE place[j]
  BY DEF SprintsInv, SprintsTypeOK
<1>2. /\ progress' \in [SprintItems -> {"UNBORN", "OPEN", "DONE", "GONE"}]
      /\ plan' \in [SprintSessions -> PlanRecords] /\ ItemExists(i)'
      /\ \A j \in SprintItems : j # i => progress'[j] = progress[j]
  BY DEF SprintsInv, SprintsTypeOK, ItemExists
<1> QED BY <1>1, <1>2, ItemsKeep

LEMMA ReopenItemKeeps ==
    ASSUME SprintsInv, NEW i \in SprintItems, ReopenItem(i)
    PROVE  SprintsInv'
<1> USE SprintsAssumption DEF ReopenItem, Plans
<1>1. /\ place' \in [SprintItems -> SprintBoards \cup {NoPlace}] /\ planned' \in 0..MaxPlans
      /\ \A j \in SprintItems : place'[j] = IF j \in {i} THEN place[i] ELSE place[j]
  BY DEF SprintsInv, SprintsTypeOK
<1>2. /\ progress' \in [SprintItems -> {"UNBORN", "OPEN", "DONE", "GONE"}]
      /\ plan' \in [SprintSessions -> PlanRecords] /\ ItemExists(i)'
      /\ \A j \in SprintItems : j # i => progress'[j] = progress[j]
      /\ place[i] \in SprintBoards \cup {NoPlace} /\ (place[i] # NoPlace => BoardExists(place[i]))
  BY DEF SprintsInv, SprintsTypeOK, ItemExists
<1> QED BY <1>1, <1>2, ItemsKeep

\* The requests that read first.
LEMMA BeginKeeps ==
    ASSUME SprintsInv, NEW r \in SprintSessions,
           \/ \E b \in SprintBoards : \/ StartSprint(r, b)
                                      \/ \E kind \in Kinds : TransitionBacklogKind(r, b, kind)
                                      \/ \E target \in SprintBoards : CompleteSprint(r, b, target)
           \/ \E i \in SprintItems : MoveItemToActiveSprint(r, i) \/ MoveItemToProductBacklog(r, i)
    PROVE  SprintsInv'
<1>1. PICK new \in PlanRecords : /\ Proceeds(r, new) /\ new.at \in {"update", "read", "carry"}
                                 /\ new.at = "read" => new.board # NoPlace
                                 /\ UNCHANGED <<backlog, place, progress, astray>> /\ Plans
  <2>1. CASE \E b \in SprintBoards : StartSprint(r, b)
    BY <2>1, SprintsAssumption DEF StartSprint, Unplanned, PlanRecords
  <2>2. CASE \E b \in SprintBoards, kind \in Kinds : TransitionBacklogKind(r, b, kind)
    BY <2>2, SprintsAssumption DEF TransitionBacklogKind, Unplanned, PlanRecords
  <2>3. CASE \E b \in SprintBoards, target \in SprintBoards : CompleteSprint(r, b, target)
    BY <2>3, SprintsAssumption DEF CompleteSprint, Unplanned, PlanRecords
  <2>4. CASE \E i \in SprintItems : MoveItemToActiveSprint(r, i)
    BY <2>4, SprintsAssumption DEF MoveItemToActiveSprint, Unplanned, PlanRecords
  <2>5. CASE \E i \in SprintItems : MoveItemToProductBacklog(r, i)
    BY <2>5, SprintsAssumption DEF MoveItemToProductBacklog, Unplanned, PlanRecords
  <2> QED BY <2>1, <2>2, <2>3, <2>4, <2>5
<1>2. planned' \in 0..MaxPlans
  BY <1>1, SprintsAssumption DEF Plans, SprintsInv, SprintsTypeOK
<1> QED BY <1>1, <1>2, ReadsKeep

LEMMA ReadOpenItemsKeeps ==
    ASSUME SprintsInv, NEW r \in SprintSessions, ReadOpenItems(r)
    PROVE  SprintsInv'
<1> USE SprintsAssumption
<1> DEFINE open == {i \in SprintItems : place[i] = plan[r].board /\ progress[i] = "OPEN"}
           new == [plan[r] EXCEPT !.at = IF open = {} THEN "close" ELSE "move", !.items = open]
<1>1. plan[r] \in PlanRecords
  BY PlanRows DEF SprintsInv
<1>2. new \in PlanRecords /\ new.board = plan[r].board /\ new.items = open
  BY <1>1 DEF PlanRecords
<1>3. /\ Proceeds(r, new) /\ UNCHANGED <<backlog, place, progress, astray>> /\ planned' \in 0..MaxPlans
      /\ new.at = IF open = {} THEN "close" ELSE "move"
  BY <1>1 DEF ReadOpenItems, SprintsInv, SprintsTypeOK, PlanRecords
<1>4. \A i \in SprintItems : OpenIn(i, plan[r].board) => i \in open
  BY DEF OpenIn
<1>5. new.board # NoPlace
  BY <1>2 DEF ReadOpenItems, SprintsInv, CompletionsInv
<1> HIDE DEF new, open
<1>6. /\ new.at = "move" => \A i \in SprintItems : OpenIn(i, new.board) => i \in new.items
      /\ new.at = "close" => \A i \in SprintItems : ~OpenIn(i, new.board)
  BY <1>2, <1>3, <1>4
<1> QED BY <1>2, <1>3, <1>5, <1>6, ReadsKeep

LEMMA MoveKeeps ==
    ASSUME SprintsInv, NEW r \in SprintSessions, MoveNonDoneItems(r) \/ MoveItem(r)
    PROVE  SprintsInv'
<1> USE SprintsAssumption
<1> DEFINE items == plan[r].items
           to == plan[r].to
<1>1. plan[r] \in PlanRecords /\ items \in SUBSET SprintItems /\ to \in SprintBoards \cup {NoPlace}
  BY PlanRows DEF SprintsInv, PlanRecords
<1>2. CASE RolledBack(r)
  BY <1>2, EndsKeep
<1>3. CASE ~RolledBack(r)
  <2>1. /\ CanMove(items, plan[r].board, to) /\ Arrive(items, to)
        /\ place' = [i \in SprintItems |-> IF i \in items THEN to ELSE place[i]]
        /\ UNCHANGED <<backlog, progress, planned>>
        /\ \/ plan[r].at = "move" /\ Proceeds(r, [plan[r] EXCEPT !.at = "close"])
           \/ Concludes(r)
    BY <1>3 DEF MoveNonDoneItems, MoveItem
  <2>2. /\ plan' \in [SprintSessions -> PlanRecords]
        /\ \A o \in SprintSessions :
             \/ plan'[o] = plan[o] \/ plan'[o].at \notin {"read", "move", "close"}
             \/ /\ plan[o].at = "move" /\ plan'[o].at = "close"
                /\ plan'[o].board = plan[o].board /\ items = plan[o].items
    BY <1>1, <2>1 DEF SprintsInv, SprintsTypeOK, Concludes, Proceeds, Unplanned, PlanRecords
  <2>3. /\ place' \in [SprintItems -> SprintBoards \cup {NoPlace}]
        /\ \A i \in SprintItems : place'[i] = IF i \in items THEN to ELSE place[i]
        /\ progress' \in [SprintItems -> {"UNBORN", "OPEN", "DONE", "GONE"}] /\ planned' \in 0..MaxPlans
    BY <1>1, <2>1 DEF SprintsInv, SprintsTypeOK
  <2>4. BoardExists(to) /\ \A i \in items : ItemExists(i)'
    BY <2>1 DEF CanMove, ItemExists
  <2>5. \A i \in SprintItems : (i \in items => ItemExists(i)') /\ (i \notin items => progress'[i] = progress[i])
    BY <2>1, <2>4
  <2> QED BY <1>1, <2>1, <2>2, <2>3, <2>4, <2>5, ItemsKeep
<1> QED BY <1>2, <1>3

LEMMA UpdateBacklogKeeps ==
    ASSUME SprintsInv, NEW r \in SprintSessions, UpdateBacklog(r) \/ CloseSprint(r)
    PROVE  SprintsInv'
<1> USE SprintsAssumption
<1> DEFINE b == plan[r].board
<1>1. plan[r] \in PlanRecords
  BY PlanRows DEF SprintsInv
<1>2. CASE RolledBack(r)
  BY <1>2, EndsKeep
<1>3. CASE ~RolledBack(r)
  <2>1. /\ BoardExists(b) /\ Concludes(r) /\ UNCHANGED <<place, progress, planned, astray>>
        /\ planned' \in 0..MaxPlans
    BY <1>3 DEF UpdateBacklog, CloseSprint, SprintsInv, SprintsTypeOK
  <2>2. b \in SprintBoards /\ backlog[b] \in PlanBoardRows /\ backlog[b].status \in {"OPEN", "ACTIVE", "CLOSED"}
    BY <1>1, <2>1 DEF BoardExists, PlanRecords, SprintsInv, SprintsTypeOK
  <2>3. CASE UpdateBacklog(r)
    <3> DEFINE row == [kind |-> IF plan[r].kind = "NONE" THEN backlog[b].kind ELSE plan[r].kind,
                       status |-> IF plan[r].status = "NONE" THEN backlog[b].status ELSE plan[r].status]
    <3>1. backlog' = [backlog EXCEPT ![b] = row]
      BY <1>3, <2>3 DEF UpdateBacklog
    <3>2. row \in PlanBoardRows /\ row.status \in {"OPEN", "ACTIVE", "CLOSED"}
          /\ (row.status = "CLOSED" => backlog[b].status = "CLOSED")
      BY <1>1, <2>2 DEF PlanRecords, PlanBoardRows
    <3> HIDE DEF row
    <3> QED BY <2>1, <2>2, <3>1, <3>2, BacklogKeeps
  <2>4. CASE CloseSprint(r)
    <3> DEFINE row == [backlog[b] EXCEPT !.status = "CLOSED"]
    <3>1. backlog' = [backlog EXCEPT ![b] = row] /\ plan[r].at = "close"
      BY <1>3, <2>2, <2>4 DEF CloseSprint, SprintsInv, SprintsTypeOK
    <3>2. row \in PlanBoardRows /\ row.status = "CLOSED"
      BY <2>2 DEF PlanBoardRows
    <3>3. \A i \in SprintItems : ~OpenIn(i, b)
      BY <3>1 DEF SprintsInv, CompletionsInv
    <3> HIDE DEF row
    <3> QED BY <2>1, <2>2, <3>1, <3>2, <3>3, BacklogKeeps
  <2> QED BY <2>3, <2>4
<1> QED BY <1>2, <1>3

LEMMA SprintsStepKeeps == ASSUME SprintsInv, [SprintsNext]_sprintVars PROVE SprintsInv'
<1>1. CASE UNCHANGED sprintVars
  <2>1. SprintsTypeOK'
    BY <1>1 DEF sprintVars, SprintsInv, SprintsTypeOK, BoardExists, ItemExists
  <2> QED BY <1>1, <2>1, FewerKeep DEF sprintVars, OpenIn
<1>2. ASSUME NEW b \in SprintBoards, DeleteBacklog(b) \/ (\E kind \in Kinds : CreateBacklog(b, kind))
      PROVE  SprintsInv'
  BY <1>2, DeleteBacklogKeeps, CreateBacklogKeeps
<1>3. ASSUME NEW i \in SprintItems, NEW b \in SprintBoards, AddItemToBacklog(i, b) PROVE SprintsInv'
  BY <1>3, AddItemKeeps
<1>4. ASSUME NEW i \in SprintItems, RemoveItemFromBacklog(i) \/ EraseItem(i) \/ FinishItem(i) PROVE SprintsInv'
  BY <1>4, RemoveItemKeeps
<1>5. ASSUME NEW i \in SprintItems, ReopenItem(i) PROVE SprintsInv'
  BY <1>5, ReopenItemKeeps
<1>6. ASSUME NEW i \in SprintItems, NEW b \in SprintBoards \cup {NoPlace}, CreateItem(i, b) PROVE SprintsInv'
  BY <1>6, CreateItemKeeps
<1>7. ASSUME NEW r \in SprintSessions,
             \/ \E b \in SprintBoards : \/ StartSprint(r, b)
                                        \/ \E kind \in Kinds : TransitionBacklogKind(r, b, kind)
                                        \/ \E target \in SprintBoards : CompleteSprint(r, b, target)
             \/ \E i \in SprintItems : MoveItemToActiveSprint(r, i) \/ MoveItemToProductBacklog(r, i)
      PROVE  SprintsInv'
  BY <1>7, BeginKeeps
<1>8. ASSUME NEW r \in SprintSessions,
             \/ UpdateBacklog(r) \/ ReadOpenItems(r) \/ MoveNonDoneItems(r) \/ CloseSprint(r) \/ MoveItem(r)
             \/ PlanDies(r)
      PROVE  SprintsInv'
  BY <1>8, UpdateBacklogKeeps, ReadOpenItemsKeeps, MoveKeeps, EndsKeep DEF PlanDies
<1> QED BY <1>1, <1>2, <1>3, <1>4, <1>5, <1>6, <1>7, <1>8 DEF SprintsNext

-----------------------------------------------------------------------------
(* Theorems *)

\* The inductive invariant: types, foreign keys, and what each completion has still to move.
THEOREM SprintsInvariance == SprintsSpec => []SprintsInv
<1>1. SprintsInit => SprintsInv
  BY SprintsStart
<1>2. SprintsInv /\ [SprintsNext]_sprintVars => SprintsInv'
  BY SprintsStepKeeps
<1> QED BY <1>1, <1>2, PTL DEF SprintsSpec

\* A closed sprint keeps no open item but those that came to it in ways the code does not
\* check, however completions, moves and deaths interleave.
THEOREM ClosedSprintsAreEmptied == SprintsSpec => []CompletedSprintKeepsNothingOpen
<1>1. SprintsInv => CompletedSprintKeepsNothingOpen
  BY DEF SprintsInv
<1> QED BY <1>1, SprintsInvariance, PTL

-----------------------------------------------------------------------------
(* Induction and recursion over the natural numbers, by way of sets.       *)

(* A set of natural numbers has a least element.                           *)
LEMMA LeastNatural ==
  ASSUME NEW S \in SUBSET Nat, S # {}
  PROVE  \E n \in S : \A m \in S : n <= m
<1>1. PICK R : R = OpToRel(<, Nat)
  OBVIOUS
<1>2. IsWellFoundedOn(R, Nat)
  BY <1>1, NatLessThanWellFounded
<1>3. PICK n \in S : \A m \in S : <<m, n>> \notin R
  BY <1>2, WFMin
<1>4. \A m, k \in Nat : m < k => <<m, k>> \in R
  BY <1>1 DEF OpToRel
<1>5. \A m \in S : m \in Nat /\ n \in Nat /\ ~(m < n)
  BY <1>3, <1>4
<1>6. \A m \in S : n <= m
  BY <1>5
<1> QED BY <1>3, <1>6

(* A set with 0 that is closed under successors has every natural number.  *)
LEMMA SetInduction ==
  ASSUME NEW S, 0 \in S, \A n \in Nat : n \in S => n + 1 \in S
  PROVE  \A n \in Nat : n \in S
<1> SUFFICES ASSUME Nat \ S # {} PROVE FALSE
  OBVIOUS
<1>1. PICK n \in Nat \ S : \A m \in Nat \ S : n <= m
  BY LeastNatural
<1>2. n - 1 \in Nat /\ n - 1 \in S
  BY <1>1
<1> QED BY <1>1, <1>2

(* g starts with x and goes on by f, up to n.                              *)
Unfolds(f, x, n, g) == g[0] = x /\ \A k \in 1..n : g[k] = f[<<k, g[k - 1]>>]

(* A start and a step determine a sequence of any length.                  *)
LEMMA Recursion ==
  ASSUME NEW S, NEW x \in S, NEW f \in [Nat \X S -> S], NEW len \in Nat
  PROVE  \E g \in [0..len -> S] : Unfolds(f, x, len, g)
<1> USE DEF Unfolds
<1> DEFINE T == {n \in Nat : \E g \in [0..n -> S] : Unfolds(f, x, n, g)}
<1>1. 0 \in T
  <2>1. [i \in 0..0 |-> x] \in [0..0 -> S] /\ Unfolds(f, x, 0, [i \in 0..0 |-> x])
    OBVIOUS
  <2> QED BY <2>1
<1>2. ASSUME NEW n \in Nat, n \in T PROVE n + 1 \in T
  <2>1. PICK g \in [0..n -> S] : Unfolds(f, x, n, g)
    BY <1>2
  <2>2. PICK y \in S : y = f[<<n + 1, g[n]>>]
    OBVIOUS
  <2>3. PICK h : h = [i \in 0..(n + 1) |-> IF i = n + 1 THEN y ELSE g[i]]
    OBVIOUS
  <2>4. h \in [0..(n + 1) -> S]
    BY <2>3
  <2>5. h[0] = x /\ h[n + 1] = y /\ h[n] = g[n]
    BY <2>1, <2>3
  <2>6. \A k \in 1..n : h[k] = g[k] /\ h[k - 1] = g[k - 1]
    BY <2>3
  <2>7. \A k \in 1..(n + 1) : k = n + 1 \/ k \in 1..n
    OBVIOUS
  <2>8. \A k \in 1..(n + 1) : h[k] = f[<<k, h[k - 1]>>]
    <3> SUFFICES ASSUME NEW k \in 1..(n + 1) PROVE h[k] = f[<<k, h[k - 1]>>]
      OBVIOUS
    <3>1. CASE k \in 1..n
      BY <2>1, <2>6, <3>1
    <3>2. CASE k = n + 1
      <4>1. k - 1 = n
        BY <3>2
      <4> QED BY <2>2, <2>5, <3>2, <4>1
    <3> QED BY <2>7, <3>1, <3>2
  <2>9. Unfolds(f, x, n + 1, h)
    BY <2>5, <2>8
  <2> QED BY <2>4, <2>9
<1> HIDE DEF T
<1>3. \A n \in Nat : n \in T
  BY <1>1, <1>2, SetInduction
<1> QED BY <1>3 DEF T

-----------------------------------------------------------------------------
(* The value of a string of letters, prefix by prefix.                     *)

Letters == 0..(Base - 1)

Values(d, n, v) ==
  /\ v \in [0..n -> Nat] /\ v[0] = 0
  /\ \A k \in 1..n : v[k] = v[k - 1] * Base + d[k]

LEMMA ValueDefined ==
  ASSUME NEW d \in Seq(Letters)
  PROVE  \E v : Values(d, Len(d), v) /\ ValueOf(d) = v[Len(d)]
<1>1. PICK n \in Nat : n = Len(d) /\ DOMAIN d = 1..n /\ \A k \in 1..n : d[k] \in Nat
  BY LenProperties, LexoAssumption DEF Letters
<1>2. PICK f : f = [p \in Nat \X Nat |-> p[2] * Base + (IF p[1] \in 1..n THEN d[p[1]] ELSE 0)]
  OBVIOUS
<1>a. f \in [Nat \X Nat -> Nat]
  <2>1. \A k \in Nat : (IF k \in 1..n THEN d[k] ELSE 0) \in Nat
    BY <1>1
  <2>2. \A p \in Nat \X Nat : p[2] * Base + (IF p[1] \in 1..n THEN d[p[1]] ELSE 0) \in Nat
    BY <2>1, LexoAssumption
  <2> QED BY <1>2, <2>2
<1>3. PICK v \in [0..n -> Nat] : v[0] = 0 /\ \A k \in 1..n : v[k] = f[<<k, v[k - 1]>>]
  <2>1. PICK S, zero : S = Nat /\ zero = 0
    OBVIOUS
  <2>2. zero \in S /\ f \in [Nat \X S -> S]
    BY <1>a, <2>1
  <2>3. \E g \in [0..n -> S] : Unfolds(f, zero, n, g)
    BY <2>2, Recursion
  <2> QED BY <2>1, <2>3 DEF Unfolds
<1>4. Values(d, n, v)
  <2>1. \A k \in 1..n : k \in Nat /\ v[k - 1] \in Nat
    OBVIOUS
  <2>2. \A k \in 1..n : f[<<k, v[k - 1]>>] = v[k - 1] * Base + d[k]
    BY <1>2, <2>1
  <2> QED BY <1>3, <2>2 DEF Values
<1> DEFINE Body(w) == [k \in 0..n |-> IF k = 0 THEN 0 ELSE w[k - 1] * Base + d[k]]
           w == CHOOSE w : w = Body(w)
<1>5. v = Body(v)
  BY <1>4 DEF Values
<1>6. w = Body(w)
  <2> HIDE DEF Body
  <2> QED BY <1>5
<1>7. ValueOf(d) = w[n]
  BY <1>1 DEF ValueOf
<1> HIDE DEF w
<1>8. \A k \in 1..n : w[k] = w[k - 1] * Base + d[k]
  BY <1>6
<1>9. w[0] = 0
  BY <1>6
<1> DEFINE S == {k \in Nat : k \in 0..n => w[k] = v[k]}
<1>10. 0 \in S
  BY <1>4, <1>9 DEF Values
<1>11. ASSUME NEW k \in Nat, k \in S PROVE k + 1 \in S
  <2>1. ASSUME k + 1 \in 0..n PROVE w[k + 1] = v[k + 1]
    <3>1. k \in 0..n /\ k + 1 \in 1..n /\ (k + 1) - 1 = k /\ w[k] = v[k]
      BY <1>11, <2>1
    <3> QED BY <1>4, <1>8, <3>1 DEF Values
  <2> QED BY <2>1
<1> HIDE DEF S
<1>12. \A k \in Nat : k \in S
  BY <1>10, <1>11, SetInduction
<1>13. w[n] = v[n]
  BY <1>12 DEF S
<1> QED BY <1>1, <1>4, <1>7, <1>13

(* Arithmetic with an arbitrary base.                                      *)
LEMMA DivMod ==
  ASSUME NEW x \in Nat
  PROVE  /\ x = (x \div Base) * Base + (x % Base)
         /\ x % Base \in Letters /\ x \div Base \in Nat
BY LexoAssumption DEF Letters

LEMMA Quotient ==
  ASSUME NEW q \in Nat, NEW d \in Letters
  PROVE  (q * Base + d) \div Base = q /\ (q * Base + d) % Base = d
BY LexoAssumption DEF Letters

LEMMA DivMonotone ==
  ASSUME NEW x \in Nat, NEW y \in Nat, x <= y
  PROVE  x \div Base <= y \div Base
BY LexoAssumption

LEMMA LeadingWins ==
  ASSUME NEW p \in Nat, NEW q \in Nat, NEW c \in Letters, NEW d \in Letters, p < q
  PROVE  p * Base + c < q * Base + d
BY LexoAssumption DEF Letters

(* A string has one value.                                                 *)
LEMMA ValueUnique ==
  ASSUME NEW d, NEW n \in Nat, NEW v, NEW w, Values(d, n, v), Values(d, n, w)
  PROVE  v = w
<1> DEFINE S == {k \in Nat : k \in 0..n => w[k] = v[k]}
<1>1. 0 \in S
  BY DEF Values
<1>2. ASSUME NEW k \in Nat, k \in S PROVE k + 1 \in S
  <2>1. ASSUME k + 1 \in 0..n PROVE w[k + 1] = v[k + 1]
    <3>1. k \in 0..n /\ k + 1 \in 1..n /\ (k + 1) - 1 = k /\ w[k] = v[k]
      BY <1>2, <2>1
    <3> QED BY <3>1 DEF Values
  <2> QED BY <2>1
<1> HIDE DEF S
<1>3. \A k \in Nat : k \in S
  BY <1>1, <1>2, SetInduction
<1>4. \A k \in 0..n : w[k] = v[k]
  BY <1>3 DEF S
<1> QED BY <1>4 DEF Values

LEMMA ValueOfIs ==
  ASSUME NEW d \in Seq(Letters), NEW v, Values(d, Len(d), v)
  PROVE  ValueOf(d) = v[Len(d)]
<1>1. Len(d) \in Nat
  BY LenProperties
<1>2. PICK w : Values(d, Len(d), w) /\ ValueOf(d) = w[Len(d)]
  BY ValueDefined
<1> QED BY <1>1, <1>2, ValueUnique

(* The letters of a number, from its last to its first.                    *)
Quotients(x, n, r) == r \in [0..n -> Nat] /\ r[0] = x /\ \A k \in 1..n : r[k] = r[k - 1] \div Base

LEMMA DigitsDefined ==
  ASSUME NEW x \in Nat, NEW n \in Nat
  PROVE  \E r : Quotients(x, n, r) /\ DigitsOf(x, n) = [i \in 1..n |-> r[n - i] % Base]
<1>1. PICK f : f = [p \in Nat \X Nat |-> p[2] \div Base]
  OBVIOUS
<1>2. f \in [Nat \X Nat -> Nat]
  <2>1. \A p \in Nat \X Nat : p[2] \div Base \in Nat
    BY DivMod
  <2> QED BY <1>1, <2>1
<1>3. PICK r \in [0..n -> Nat] : Unfolds(f, x, n, r)
  <2>1. PICK S : S = Nat
    OBVIOUS
  <2>2. x \in S /\ f \in [Nat \X S -> S]
    BY <1>2, <2>1
  <2>3. \E g \in [0..n -> S] : Unfolds(f, x, n, g)
    BY <2>2, Recursion
  <2> QED BY <2>1, <2>3
<1>4. Quotients(x, n, r)
  <2>1. \A k \in 1..n : k \in Nat /\ r[k - 1] \in Nat
    OBVIOUS
  <2>2. \A k \in 1..n : f[<<k, r[k - 1]>>] = r[k - 1] \div Base
    BY <1>1, <2>1
  <2> QED BY <1>3, <2>2 DEF Quotients, Unfolds
<1> DEFINE Body(w) == [k \in 0..n |-> IF k = 0 THEN x ELSE w[k - 1] \div Base]
           w == CHOOSE w : w = Body(w)
<1>5. r = Body(r)
  BY <1>4 DEF Quotients
<1>6. w = Body(w)
  <2> HIDE DEF Body
  <2> QED BY <1>5
<1>7. DigitsOf(x, n) = [i \in 1..n |-> w[n - i] % Base]
  BY DEF DigitsOf
<1> HIDE DEF w
<1>8. \A k \in 1..n : w[k] = w[k - 1] \div Base
  BY <1>6
<1>9. w[0] = x
  BY <1>6
<1> DEFINE S == {k \in Nat : k \in 0..n => w[k] = r[k]}
<1>10. 0 \in S
  BY <1>4, <1>9 DEF Quotients
<1>11. ASSUME NEW k \in Nat, k \in S PROVE k + 1 \in S
  <2>1. ASSUME k + 1 \in 0..n PROVE w[k + 1] = r[k + 1]
    <3>1. k \in 0..n /\ k + 1 \in 1..n /\ (k + 1) - 1 = k /\ w[k] = r[k]
      BY <1>11, <2>1
    <3> QED BY <1>4, <1>8, <3>1 DEF Quotients
  <2> QED BY <2>1
<1> HIDE DEF S
<1>12. \A k \in Nat : k \in S
  BY <1>10, <1>11, SetInduction
<1>13. \A k \in 0..n : w[k] = r[k]
  BY <1>12 DEF S
<1>14. \A i \in 1..n : n - i \in 0..n
  OBVIOUS
<1>15. DigitsOf(x, n) = [i \in 1..n |-> r[n - i] % Base]
  BY <1>7, <1>13, <1>14
<1> QED BY <1>4, <1>15

-----------------------------------------------------------------------------
(* The midpoint of two strings of one length is the mean of their values.  *)

(* Between two values, prefix by prefix.                                   *)
LEMMA Sandwich ==
  ASSUME NEW n \in Nat, NEW a \in [1..n -> Letters], NEW b \in [1..n -> Letters],
         NEW va, NEW vb, Values(a, n, va), Values(b, n, vb),
         NEW x \in Nat, va[n] <= x, x <= vb[n], NEW r, Quotients(x, n, r)
  PROVE  \A k \in 0..n : va[n - k] <= r[k] /\ r[k] <= vb[n - k]
<1> DEFINE S == {k \in Nat : k \in 0..n => va[n - k] <= r[k] /\ r[k] <= vb[n - k]}
<1>1. 0 \in S
  BY DEF Quotients
<1>2. ASSUME NEW k \in Nat, k \in S PROVE k + 1 \in S
  <2> SUFFICES ASSUME k + 1 \in 0..n
               PROVE  va[n - (k + 1)] <= r[k + 1] /\ r[k + 1] <= vb[n - (k + 1)]
    OBVIOUS
  <2>1. PICK i \in 1..n : i = n - k
    OBVIOUS
  <2>2. k \in 0..n /\ k + 1 \in 1..n /\ (k + 1) - 1 = k /\ n - (k + 1) = i - 1 /\ i - 1 \in 0..n
    BY <2>1
  <2>3. va[i] <= r[k] /\ r[k] <= vb[i]
    BY <1>2, <2>1, <2>2
  <2>4. /\ va[i - 1] \in Nat /\ vb[i - 1] \in Nat /\ va[i] \in Nat /\ vb[i] \in Nat
        /\ a[i] \in Letters /\ b[i] \in Letters
        /\ va[i] = va[i - 1] * Base + a[i] /\ vb[i] = vb[i - 1] * Base + b[i]
    BY <2>2 DEF Values
  <2>5. va[i] \div Base = va[i - 1] /\ vb[i] \div Base = vb[i - 1]
    BY <2>4, Quotient
  <2>6. r[k] \in Nat /\ r[k + 1] = r[k] \div Base
    BY <2>2 DEF Quotients
  <2>7. va[i] \div Base <= r[k] \div Base /\ r[k] \div Base <= vb[i] \div Base
    BY <2>3, <2>4, <2>6, DivMonotone
  <2> QED BY <2>2, <2>5, <2>6, <2>7
<1> HIDE DEF S
<1>3. \A k \in Nat : k \in S
  BY <1>1, <1>2, SetInduction
<1> QED BY <1>3 DEF S

(* A number between the values of two strings fits into their length.      *)
LEMMA DigitsValue ==
  ASSUME NEW n \in Nat, NEW a \in [1..n -> Letters], NEW b \in [1..n -> Letters],
         NEW va, NEW vb, Values(a, n, va), Values(b, n, vb),
         NEW x \in Nat, va[n] <= x, x <= vb[n]
  PROVE  /\ DigitsOf(x, n) \in [1..n -> Letters]
         /\ \E w : Values(DigitsOf(x, n), n, w) /\ w[n] = x
<1>1. PICK r : Quotients(x, n, r) /\ DigitsOf(x, n) = [i \in 1..n |-> r[n - i] % Base]
  BY DigitsDefined
<1>2. PICK w : w = [i \in 0..n |-> r[n - i]]
  OBVIOUS
<1>3. \A i \in 0..n : n - i \in 0..n /\ r[n - i] \in Nat
  BY <1>1 DEF Quotients
<1>4. DigitsOf(x, n) \in [1..n -> Letters]
  <2>1. \A i \in 1..n : i \in 0..n /\ r[n - i] \in Nat
    BY <1>3
  <2>2. \A i \in 1..n : r[n - i] % Base \in Letters
    BY <2>1, DivMod
  <2> QED BY <1>1, <2>2
<1>5. r[n] = 0
  <2>1. n \in 0..n /\ va[n - n] <= r[n] /\ r[n] <= vb[n - n]
    BY <1>1, Sandwich
  <2>2. n - n = 0 /\ va[0] = 0 /\ vb[0] = 0 /\ r[n] \in Nat
    BY <1>1, <2>1 DEF Values, Quotients
  <2> QED BY <2>1, <2>2
<1>6. w \in [0..n -> Nat] /\ w[0] = 0 /\ w[n] = x
  BY <1>1, <1>2, <1>3, <1>5 DEF Quotients
<1>7. \A k \in 1..n : w[k] = w[k - 1] * Base + DigitsOf(x, n)[k]
  <2> SUFFICES ASSUME NEW k \in 1..n PROVE w[k] = w[k - 1] * Base + DigitsOf(x, n)[k]
    OBVIOUS
  <2>1. PICK j \in 1..n : j = n - (k - 1)
    OBVIOUS
  <2>2. j - 1 = n - k /\ j - 1 \in 0..n /\ r[j - 1] \in Nat /\ r[j] = r[j - 1] \div Base
    BY <1>1, <2>1 DEF Quotients
  <2>3. w[k] = r[j - 1] /\ w[k - 1] = r[j] /\ DigitsOf(x, n)[k] = r[j - 1] % Base
    BY <1>1, <1>2, <2>1, <2>2
  <2> QED BY <2>2, <2>3, DivMod
<1>8. Values(DigitsOf(x, n), n, w)
  BY <1>6, <1>7 DEF Values
<1> QED BY <1>4, <1>6, <1>8

(* Of two strings of one length, the one whose letter is less where they
   first differ has the lesser value, and the other way round.             *)
FirstLess(c, d, i) == (\A j \in 1..(i - 1) : c[j] = d[j]) /\ c[i] < d[i]

LEMMA EqualPrefix ==
  ASSUME NEW n \in Nat, NEW c, NEW d, NEW v, NEW w, Values(c, n, v), Values(d, n, w),
         NEW m \in 0..n, \A j \in 1..m : c[j] = d[j]
  PROVE  \A k \in 0..m : v[k] = w[k]
<1> DEFINE S == {k \in Nat : k \in 0..m => v[k] = w[k]}
<1>1. 0 \in S
  BY DEF Values
<1>2. ASSUME NEW k \in Nat, k \in S PROVE k + 1 \in S
  <2>1. ASSUME k + 1 \in 0..m PROVE v[k + 1] = w[k + 1]
    <3>1. /\ k \in 0..m /\ k + 1 \in 1..m /\ k + 1 \in 1..n /\ (k + 1) - 1 = k
          /\ v[k] = w[k] /\ c[k + 1] = d[k + 1]
      BY <1>2, <2>1
    <3> QED BY <3>1 DEF Values
  <2> QED BY <2>1
<1> HIDE DEF S
<1>3. \A k \in Nat : k \in S
  BY <1>1, <1>2, SetInduction
<1> QED BY <1>3 DEF S

LEMMA StaysLess ==
  ASSUME NEW n \in Nat, NEW c \in [1..n -> Letters], NEW d \in [1..n -> Letters],
         NEW v, NEW w, Values(c, n, v), Values(d, n, w), NEW m \in 0..n, v[m] < w[m]
  PROVE  v[n] < w[n]
<1> DEFINE S == {k \in Nat : m + k \in 0..n => v[m + k] < w[m + k]}
<1>1. 0 \in S
  OBVIOUS
<1>2. ASSUME NEW k \in Nat, k \in S PROVE k + 1 \in S
  <2>1. ASSUME m + (k + 1) \in 0..n PROVE v[m + (k + 1)] < w[m + (k + 1)]
    <3>1. PICK i \in 1..n : i = m + (k + 1)
      BY <2>1
    <3>2. i - 1 = m + k /\ i - 1 \in 0..n /\ v[i - 1] < w[i - 1]
      BY <1>2, <3>1
    <3>3. /\ v[i - 1] \in Nat /\ w[i - 1] \in Nat /\ c[i] \in Letters /\ d[i] \in Letters
          /\ v[i] = v[i - 1] * Base + c[i] /\ w[i] = w[i - 1] * Base + d[i]
      BY <3>2 DEF Values
    <3> QED BY <3>1, <3>2, <3>3, LeadingWins
  <2> QED BY <2>1
<1> HIDE DEF S
<1>3. \A k \in Nat : k \in S
  BY <1>1, <1>2, SetInduction
<1>4. n - m \in Nat /\ m + (n - m) = n
  OBVIOUS
<1> QED BY <1>3, <1>4 DEF S

LEMMA LessByLetter ==
  ASSUME NEW n \in Nat, NEW c \in [1..n -> Letters], NEW d \in [1..n -> Letters],
         NEW v, NEW w, Values(c, n, v), Values(d, n, w), NEW i \in 1..n, FirstLess(c, d, i)
  PROVE  v[n] < w[n]
<1>1. i - 1 \in 0..n /\ v[i - 1] = w[i - 1]
  BY EqualPrefix DEF FirstLess
<1>2. /\ v[i - 1] \in Nat /\ w[i - 1] \in Nat /\ c[i] \in Nat /\ d[i] \in Nat
      /\ v[i] = v[i - 1] * Base + c[i] /\ w[i] = w[i - 1] * Base + d[i]
  BY <1>1 DEF Values, Letters
<1>3. v[i] < w[i]
  BY <1>1, <1>2, LexoAssumption DEF FirstLess
<1>4. i \in 0..n
  OBVIOUS
<1> QED BY <1>3, <1>4, StaysLess

LEMMA FirstDifference ==
  ASSUME NEW n \in Nat, NEW c \in [1..n -> Letters], NEW d \in [1..n -> Letters]
  PROVE  c = d \/ \E i \in 1..n : FirstLess(c, d, i) \/ FirstLess(d, c, i)
<1> SUFFICES ASSUME c # d PROVE \E i \in 1..n : FirstLess(c, d, i) \/ FirstLess(d, c, i)
  OBVIOUS
<1> DEFINE S == {i \in 1..n : c[i] # d[i]}
<1>1. S # {} /\ S \in SUBSET Nat
  OBVIOUS
<1>2. PICK i \in S : \A j \in S : i <= j
  <2> HIDE DEF S
  <2> QED BY <1>1, LeastNatural
<1>3. \A j \in 1..(i - 1) : c[j] = d[j]
  <2> SUFFICES ASSUME NEW j \in 1..(i - 1), c[j] # d[j] PROVE FALSE
    OBVIOUS
  <2>1. j \in 1..n /\ j < i
    BY <1>2
  <2> QED BY <1>2, <2>1
<1>4. c[i] \in Nat /\ d[i] \in Nat /\ c[i] # d[i] /\ i \in 1..n
  BY <1>2 DEF Letters
<1> QED BY <1>3, <1>4 DEF FirstLess

LEMMA LetterByLess ==
  ASSUME NEW n \in Nat, NEW c \in [1..n -> Letters], NEW d \in [1..n -> Letters],
         NEW v, NEW w, Values(c, n, v), Values(d, n, w), v[n] < w[n]
  PROVE  \E i \in 1..n : FirstLess(c, d, i)
<1>1. v[n] \in Nat /\ w[n] \in Nat
  BY DEF Values
<1>2. CASE c = d
  BY <1>1, <1>2, ValueUnique
<1>3. ASSUME NEW i \in 1..n, FirstLess(d, c, i) PROVE FALSE
  <2>1. w[n] < v[n]
    BY <1>3, LessByLetter
  <2> QED BY <1>1, <2>1
<1> QED BY <1>2, <1>3, FirstDifference

-----------------------------------------------------------------------------
(* Ranks: strings and their order.                                         *)

RankStrings == Seq(Letters) \ {<<>>}

LEMMA MidLetter == MidIdx \in Letters /\ 0 \in Letters
BY LexoAssumption DEF MidIdx, Letters

(* A function over 1..n is a string of n letters.                          *)
LEMMA StringOf ==
  ASSUME NEW n \in Nat, NEW c \in [1..n -> Letters]
  PROVE  c \in Seq(Letters) /\ Len(c) = n
<1>1. c \in Seq(Letters)
  BY SeqDef
<1>2. Len(c) \in Nat /\ DOMAIN c = 1..Len(c)
  BY <1>1, LenProperties
<1>3. DOMAIN c = 1..n
  OBVIOUS
<1> QED BY <1>1, <1>2, <1>3

LEMMA Padded ==
  ASSUME NEW a \in Seq(Letters), NEW n \in Nat
  PROVE  PadEnd(a, n) \in [1..n -> Letters]
<1>1. \A i \in 1..Len(a) : a[i] \in Letters
  BY ElementOfSeq
<1>2. Len(a) \in Nat
  BY LenProperties
<1>3. \A i \in 1..n : (IF i <= Len(a) THEN a[i] ELSE 0) \in Letters
  BY <1>1, <1>2, MidLetter
<1> QED BY <1>3 DEF PadEnd

(* In JavaScript's order the padded strings do not come apart.             *)
LEMMA PaddedLess ==
  ASSUME NEW a \in Seq(Letters), NEW b \in Seq(Letters), RankLess(a, b),
         NEW n \in Nat, Len(a) <= n, Len(b) <= n
  PROVE  \/ PadEnd(a, n) = PadEnd(b, n)
         \/ \E i \in 1..n : FirstLess(PadEnd(a, n), PadEnd(b, n), i)
<1>1. PICK k \in 1..Len(b) :
        /\ \A j \in 1..(k - 1) : j <= Len(a) /\ a[j] = b[j]
        /\ k > Len(a) \/ a[k] < b[k]
  BY DEF RankLess
<1>2. PICK c, d : c = PadEnd(a, n) /\ d = PadEnd(b, n)
  OBVIOUS
<1>3. c \in [1..n -> Letters] /\ d \in [1..n -> Letters] /\ Len(a) \in Nat /\ Len(b) \in Nat
  BY <1>2, Padded, LenProperties
<1>4. \A j \in 1..n : /\ j <= Len(a) => c[j] = a[j]
                      /\ j > Len(a) => c[j] = 0
                      /\ j <= Len(b) => d[j] = b[j]
  BY <1>2, <1>3 DEF PadEnd
<1>5. ASSUME NEW i \in 1..n, FirstLess(d, c, i) PROVE FALSE
  <2>1. d[i] < c[i] /\ d[i] \in Nat /\ c[i] \in Nat /\ \A j \in 1..(i - 1) : d[j] = c[j]
    BY <1>3, <1>5 DEF FirstLess, Letters
  <2>2. i <= Len(a)
    <3>1. i > Len(a) => c[i] = 0
      BY <1>4
    <3>2. c[i] # 0
      BY <2>1
    <3> QED BY <1>3, <3>1, <3>2
  <2>3. CASE i < k
    <3>1. i \in 1..(k - 1) /\ i <= Len(b)
      BY <1>3, <2>3
    <3>2. c[i] = a[i] /\ d[i] = b[i] /\ a[i] = b[i]
      BY <1>1, <1>4, <2>2, <3>1
    <3> QED BY <2>1, <3>2
  <2>4. CASE i = k
    BY <1>1, <1>3, <1>4, <2>1, <2>2, <2>4
  <2>5. CASE i > k
    <3>1. k \in 1..(i - 1) /\ k \in 1..n /\ k <= Len(a) /\ k <= Len(b)
      BY <1>3, <2>2, <2>5
    <3>2. d[k] = c[k] /\ c[k] = a[k] /\ d[k] = b[k] /\ c[k] \in Nat
      BY <1>3, <1>4, <2>1, <3>1 DEF Letters
    <3> QED BY <1>1, <1>3, <3>1, <3>2
  <2> QED BY <2>3, <2>4, <2>5
<1>6. c = d \/ \E i \in 1..n : FirstLess(c, d, i)
  BY <1>3, <1>5, FirstDifference
<1> QED BY <1>2, <1>6

(* MidpointDigits computes the mean, and so lies between the two.          *)
LEMMA Midpoint ==
  ASSUME NEW n \in Nat, NEW c \in [1..n -> Letters], NEW d \in [1..n -> Letters],
         c = d \/ \E i \in 1..n : FirstLess(c, d, i),
         NEW m, m = MidpointDigits(c, d)
  PROVE  /\ m \in [1..n -> Letters]
         /\ ValueOf(m) = (ValueOf(c) + ValueOf(d)) \div 2
         /\ m = c \/ \E i \in 1..n : FirstLess(c, m, i)
         /\ c = d \/ \E i \in 1..n : FirstLess(m, d, i)
         /\ m = c => ValueOf(d) - ValueOf(c) <= 1
<1>1. c \in Seq(Letters) /\ d \in Seq(Letters) /\ Len(c) = n /\ Len(d) = n
  BY StringOf
<1>2. PICK v, w : /\ Values(c, n, v) /\ ValueOf(c) = v[n]
                  /\ Values(d, n, w) /\ ValueOf(d) = w[n]
  BY <1>1, ValueDefined
<1>3. v[n] \in Nat /\ w[n] \in Nat
  BY <1>2 DEF Values
<1>4. c # d => v[n] < w[n]
  BY <1>2, LessByLetter
<1>5. c = d => v[n] = w[n]
  BY <1>2, ValueUnique
<1>6. PICK x \in Nat : x = (v[n] + w[n]) \div 2
  BY <1>3
<1>7. v[n] <= x /\ x <= w[n] /\ (v[n] < w[n] => x < w[n])
  BY <1>3, <1>4, <1>5, <1>6
<1>8. m = DigitsOf(x, n)
  BY <1>1, <1>2, <1>6 DEF MidpointDigits
<1>9. m \in [1..n -> Letters] /\ \E u : Values(m, n, u) /\ u[n] = x
  BY <1>2, <1>7, <1>8, DigitsValue
<1>10. PICK u : Values(m, n, u) /\ u[n] = x
  BY <1>9
<1>11. m \in Seq(Letters) /\ Len(m) = n
  BY <1>9, StringOf
<1>12. ValueOf(m) = x
  BY <1>10, <1>11, ValueOfIs
<1>13. m = c => x = v[n]
  BY <1>2, <1>12
<1>14. m # c => \E i \in 1..n : FirstLess(c, m, i)
  <2>1. ASSUME NEW i \in 1..n, FirstLess(m, c, i) PROVE FALSE
    <3>1. u[n] < v[n]
      BY <1>2, <1>9, <1>10, <2>1, LessByLetter
    <3> QED BY <1>3, <1>7, <1>10, <3>1
  <2> QED BY <1>9, <2>1, FirstDifference
<1>15. c # d => \E i \in 1..n : FirstLess(m, d, i)
  BY <1>2, <1>4, <1>7, <1>9, <1>10, LetterByLess
<1>16. m = c => w[n] - v[n] <= 1
  BY <1>3, <1>6, <1>13
<1> QED BY <1>2, <1>6, <1>9, <1>12, <1>14, <1>15, <1>16

(* What is left of a string without the a's at its end.                    *)
LEMMA Stripped ==
  ASSUME NEW n \in Nat, NEW m \in [1..n -> Letters]
  PROVE  \E p \in 0..n :
           /\ StripTrailingMin(m) \in Seq(Letters) /\ Len(StripTrailingMin(m)) = p
           /\ \A j \in 1..p : StripTrailingMin(m)[j] = m[j]
           /\ \A j \in (p + 1)..n : m[j] = 0
<1>1. m \in Seq(Letters) /\ Len(m) = n
  BY StringOf
<1>2. CASE \A i \in 1..n : m[i] = 0
  <2>1. StripTrailingMin(m) = <<>>
    BY <1>1, <1>2 DEF StripTrailingMin
  <2>2. <<>> \in Seq(Letters) /\ Len(<<>>) = 0 /\ 0 \in 0..n
    BY EmptySeq
  <2>3. \A j \in (0 + 1)..n : m[j] = 0
    BY <1>2
  <2> QED BY <2>1, <2>2, <2>3
<1>3. CASE ~ \A i \in 1..n : m[i] = 0
  <2> DEFINE S == {k \in Nat : \E i \in 1..n : m[i] # 0 /\ k = n - i}
             Last(q) == m[q] # 0 /\ \A j \in (q + 1)..n : m[j] = 0
             p == CHOOSE q \in 1..n : Last(q)
  <2>1. S # {} /\ S \in SUBSET Nat
    <3>1. PICK i \in 1..n : m[i] # 0
      BY <1>3
    <3>2. n - i \in Nat
      OBVIOUS
    <3>3. n - i \in S
      BY <3>1, <3>2
    <3> QED BY <3>3
  <2>2. PICK k \in S : \A h \in S : k <= h
    <3> HIDE DEF S
    <3> QED BY <2>1, LeastNatural
  <2>3. PICK q \in 1..n : m[q] # 0 /\ k = n - q
    BY <2>2
  <2>4. \A j \in (q + 1)..n : m[j] = 0
    <3> SUFFICES ASSUME NEW j \in (q + 1)..n, m[j] # 0 PROVE FALSE
      OBVIOUS
    <3>1. j \in 1..n /\ n - j \in Nat /\ n - j < k
      BY <2>3
    <3>2. n - j \in S
      BY <3>1
    <3> QED BY <2>2, <2>3, <3>1, <3>2
  <2>5. p \in 1..n /\ Last(p)
    <3>1. q \in 1..n /\ Last(q)
      BY <2>3, <2>4
    <3> HIDE DEF Last
    <3> QED BY <3>1
  <2>6. StripTrailingMin(m) = SubSeq(m, 1, p)
    BY <1>1, <1>3 DEF StripTrailingMin
  <2> HIDE DEF p
  <2>7. /\ SubSeq(m, 1, p) \in Seq(Letters) /\ Len(SubSeq(m, 1, p)) = p
        /\ \A j \in 1..p : SubSeq(m, 1, p)[j] = m[j]
    BY <1>1, <2>5
  <2>8. p \in 0..n /\ \A j \in (p + 1)..n : m[j] = 0
    BY <2>5
  <2> QED BY <2>6, <2>7, <2>8
<1> QED BY <1>2, <1>3

LEMMA AboveStripped ==
  ASSUME NEW a \in Seq(Letters), NEW n \in Nat, Len(a) <= n, NEW m \in [1..n -> Letters],
         NEW i \in 1..n, FirstLess(PadEnd(a, n), m, i)
  PROVE  RankLess(a, StripTrailingMin(m))
<1>1. PICK c, s : c = PadEnd(a, n) /\ s = StripTrailingMin(m)
  OBVIOUS
<1>2. PICK p \in 0..n : /\ Len(s) = p /\ \A j \in 1..p : s[j] = m[j]
                        /\ \A j \in (p + 1)..n : m[j] = 0
  BY <1>1, Stripped
<1>3. c \in [1..n -> Letters] /\ Len(a) \in Nat
  BY <1>1, Padded, LenProperties
<1>4. \A j \in 1..n : j <= Len(a) => c[j] = a[j]
  BY <1>1, <1>3 DEF PadEnd
<1>5. c[i] < m[i] /\ c[i] \in Nat /\ m[i] \in Nat /\ \A j \in 1..(i - 1) : c[j] = m[j]
  BY <1>1, <1>3 DEF FirstLess, Letters
<1>6. i <= p
  BY <1>2, <1>5
<1>7. CASE i <= Len(a)
  <2>1. \A j \in 1..(i - 1) : j <= Len(a) /\ a[j] = s[j]
    BY <1>2, <1>3, <1>4, <1>5, <1>6, <1>7
  <2>2. a[i] < s[i] /\ i \in 1..Len(s)
    BY <1>2, <1>3, <1>4, <1>5, <1>6, <1>7
  <2> QED BY <1>1, <2>1, <2>2 DEF RankLess
<1>8. CASE i > Len(a)
  <2>1. PICK k \in 1..Len(s) : k = Len(a) + 1
    BY <1>2, <1>3, <1>6, <1>8
  <2>2. \A j \in 1..(k - 1) : j <= Len(a) /\ a[j] = s[j]
    BY <1>2, <1>3, <1>4, <1>5, <1>6, <1>8, <2>1
  <2>3. k > Len(a)
    BY <1>3, <2>1
  <2> QED BY <1>1, <2>2, <2>3 DEF RankLess
<1> QED BY <1>3, <1>7, <1>8

LEMMA BelowStripped ==
  ASSUME NEW b \in Seq(Letters), NEW n \in Nat, Len(b) <= n, NEW m \in [1..n -> Letters],
         NEW i \in 1..n, FirstLess(m, PadEnd(b, n), i)
  PROVE  RankLess(StripTrailingMin(m), b)
<1>1. PICK d, s : d = PadEnd(b, n) /\ s = StripTrailingMin(m)
  OBVIOUS
<1>2. PICK p \in 0..n : Len(s) = p /\ \A j \in 1..p : s[j] = m[j]
  BY <1>1, Stripped
<1>3. d \in [1..n -> Letters] /\ Len(b) \in Nat
  BY <1>1, Padded, LenProperties
<1>4. \A j \in 1..n : /\ j <= Len(b) => d[j] = b[j]
                      /\ j > Len(b) => d[j] = 0
  BY <1>1, <1>3 DEF PadEnd
<1>5. m[i] < d[i] /\ d[i] \in Nat /\ m[i] \in Nat /\ \A j \in 1..(i - 1) : m[j] = d[j]
  BY <1>1, <1>3 DEF FirstLess, Letters
<1>6. i <= Len(b)
  BY <1>3, <1>4, <1>5
<1>7. CASE i <= p
  <2>1. \A j \in 1..(i - 1) : j <= Len(s) /\ s[j] = b[j]
    BY <1>2, <1>3, <1>4, <1>5, <1>6, <1>7
  <2>2. s[i] < b[i] /\ i \in 1..Len(b)
    BY <1>2, <1>3, <1>4, <1>5, <1>6, <1>7
  <2> QED BY <1>1, <2>1, <2>2 DEF RankLess
<1>8. CASE i > p
  <2>1. PICK k \in 1..Len(b) : k = p + 1
    BY <1>2, <1>3, <1>6, <1>8
  <2>2. \A j \in 1..(k - 1) : j <= Len(s) /\ s[j] = b[j]
    BY <1>2, <1>3, <1>4, <1>5, <1>6, <1>8, <2>1
  <2>3. k > Len(s)
    BY <1>2, <2>1
  <2> QED BY <1>1, <2>2, <2>3 DEF RankLess
<1> QED BY <1>7, <1>8

LEMMA AppendedLess ==
  ASSUME NEW a \in Seq(Letters), NEW c \in Letters
  PROVE  RankLess(a, Append(a, c)) /\ Append(a, c) \in RankStrings
<1>1. /\ Len(a) \in Nat /\ Append(a, c) \in Seq(Letters) /\ Len(Append(a, c)) = Len(a) + 1
      /\ \A j \in 1..Len(a) : Append(a, c)[j] = a[j]
  BY LenProperties, AppendProperties
<1>2. PICK k \in 1..Len(Append(a, c)) : k = Len(a) + 1
  BY <1>1
<1>3. \A j \in 1..(k - 1) : j <= Len(a) /\ a[j] = Append(a, c)[j]
  BY <1>1, <1>2
<1>4. k > Len(a)
  BY <1>1, <1>2
<1>5. RankLess(a, Append(a, c))
  BY <1>3, <1>4 DEF RankLess
<1>6. Append(a, c) # <<>>
  BY <1>1, EmptySeq
<1> QED BY <1>1, <1>5, <1>6 DEF RankStrings

LEMMA ValueIsNatural ==
  ASSUME NEW d \in Seq(Letters)
  PROVE  ValueOf(d) \in Nat
<1>1. Len(d) \in Nat /\ \E v : Values(d, Len(d), v) /\ ValueOf(d) = v[Len(d)]
  BY LenProperties, ValueDefined
<1> QED BY <1>1 DEF Values

(* rankBetween: a rank above the first argument, and below the second when
   there is a number between theirs, whatever the lengths of the strings.  *)
LEMMA BetweenTwo ==
  ASSUME NEW a \in Seq(Letters), NEW b \in Seq(Letters), RankLess(a, b),
         NEW n, n = LongerLen(a, b)
  PROVE  /\ RankLess(a, RankBetween(a, b))
         /\ ValueOf(PadEnd(b, n)) - ValueOf(PadEnd(a, n)) > 1 => RankLess(RankBetween(a, b), b)
<1>1. n \in Nat /\ Len(a) <= n /\ Len(b) <= n
  BY LenProperties DEF LongerLen
<1>2. PICK c, d : c = PadEnd(a, n) /\ d = PadEnd(b, n)
  OBVIOUS
<1>3. c \in [1..n -> Letters] /\ d \in [1..n -> Letters]
  BY <1>1, <1>2, Padded
<1>4. c = d \/ \E i \in 1..n : FirstLess(c, d, i)
  BY <1>1, <1>2, PaddedLess
<1>5. PICK m : m = MidpointDigits(c, d)
  OBVIOUS
<1>6. /\ m \in [1..n -> Letters]
      /\ m = c \/ \E i \in 1..n : FirstLess(c, m, i)
      /\ c = d \/ \E i \in 1..n : FirstLess(m, d, i)
      /\ m = c => ValueOf(d) - ValueOf(c) <= 1
  BY <1>1, <1>3, <1>4, <1>5, Midpoint
<1>7. c \in Seq(Letters) /\ d \in Seq(Letters)
  BY <1>1, <1>3, StringOf
<1>8. CASE m = c
  <2>1. RankBetween(a, b) = Append(a, MidIdx)
    BY <1>2, <1>5, <1>8 DEF RankBetween
  <2>2. ValueOf(c) \in Nat /\ ValueOf(d) \in Nat
    BY <1>7, ValueIsNatural
  <2>3. ~(ValueOf(d) - ValueOf(c) > 1)
    BY <1>6, <1>8, <2>2
  <2> QED BY <1>2, <2>1, <2>3, AppendedLess, MidLetter
<1>9. CASE m # c
  <2>1. RankLess(a, StripTrailingMin(m))
    BY <1>1, <1>2, <1>6, <1>9, AboveStripped
  <2>2. StripTrailingMin(m) # <<>>
    BY <2>1, EmptySeq DEF RankLess
  <2>3. RankBetween(a, b) = StripTrailingMin(m)
    BY <1>2, <1>5, <1>9, <2>2 DEF RankBetween
  <2>4. c = d => ValueOf(d) - ValueOf(c) = 0
    BY <1>7, ValueIsNatural
  <2>5. ASSUME ValueOf(d) - ValueOf(c) > 1 PROVE RankLess(StripTrailingMin(m), b)
    <3>1. c # d
      BY <2>4, <2>5
    <3>2. PICK i \in 1..n : FirstLess(m, PadEnd(b, n), i)
      BY <1>2, <1>6, <3>1
    <3> QED BY <1>1, <1>6, <3>2, BelowStripped
  <2> QED BY <1>2, <2>1, <2>3, <2>5
<1> QED BY <1>8, <1>9

-----------------------------------------------------------------------------
(* The column.                                                             *)

ColumnInv == column \in Seq(RankStrings) /\ moves \in Nat

LEMMA BetweenType ==
  ASSUME NEW a \in Seq(Letters), NEW b \in Seq(Letters)
  PROVE  RankBetween(a, b) \in RankStrings
<1>1. PICK n \in Nat : n = LongerLen(a, b)
  BY LenProperties DEF LongerLen
<1>2. PICK c, d, m : c = PadEnd(a, n) /\ d = PadEnd(b, n) /\ m = MidpointDigits(c, d)
  OBVIOUS
<1>3. c \in Seq(Letters) /\ d \in Seq(Letters) /\ Len(c) = n
  BY <1>2, Padded, StringOf
<1>4. PICK x \in Nat : x = (ValueOf(c) + ValueOf(d)) \div 2
  BY <1>3, ValueIsNatural
<1>5. m \in [1..n -> Letters]
  <2>1. m = DigitsOf(x, n)
    BY <1>2, <1>3, <1>4 DEF MidpointDigits
  <2>2. PICK r : Quotients(x, n, r) /\ m = [i \in 1..n |-> r[n - i] % Base]
    BY <2>1, DigitsDefined
  <2>3. \A i \in 1..n : n - i \in 0..n /\ r[n - i] \in Nat
    BY <2>2 DEF Quotients
  <2>4. \A i \in 1..n : r[n - i] % Base \in Letters
    BY <2>3, DivMod
  <2> QED BY <2>2, <2>4
<1>6. StripTrailingMin(m) \in Seq(Letters)
  BY <1>5, Stripped
<1>7. <<0>> \in RankStrings
  <2>1. <<0>> \in Seq(Letters) /\ Len(<<0>>) = 1
    BY MidLetter
  <2> QED BY <2>1, EmptySeq DEF RankStrings
<1>8. Append(a, MidIdx) \in RankStrings
  BY AppendedLess, MidLetter
<1> QED BY <1>1, <1>2, <1>6, <1>7, <1>8 DEF RankBetween, RankStrings

LEMMA ReorderType ==
  ASSUME NEW u \in Seq(Letters), NEW l \in Seq(Letters)
  PROVE  ComputeReorderRank(u, l) \in RankStrings
<1>1. Append(u, MidIdx) \in RankStrings /\ RankBetween(u, l) \in RankStrings
  BY AppendedLess, MidLetter, BetweenType
<1>2. <<0>> \in Seq(Letters) /\ <<MidIdx>> \in RankStrings /\ <<0, MidIdx>> \in RankStrings
  <2>1. <<0>> \in Seq(Letters) /\ <<MidIdx>> \in Seq(Letters) /\ <<0, MidIdx>> \in Seq(Letters)
    BY MidLetter
  <2>2. Len(<<MidIdx>>) = 1 /\ Len(<<0, MidIdx>>) = 2
    OBVIOUS
  <2> QED BY <2>1, <2>2, EmptySeq DEF RankStrings
<1>3. RankBetween(<<0>>, l) \in RankStrings
  BY <1>2, BetweenType
<1> QED BY <1>1, <1>2, <1>3 DEF ComputeReorderRank, RankAfter, RankBefore

LEMMA DropType ==
  ASSUME ColumnInv, NEW slot \in 0..Len(column), DropAt(slot)
  PROVE  ColumnInv'
<1>1. Len(column) \in Nat /\ \A i \in 1..Len(column) : column[i] \in RankStrings
  BY LenProperties, ElementOfSeq DEF ColumnInv
<1>2. Neighbour(slot) \in Seq(Letters) /\ Neighbour(slot + 1) \in Seq(Letters)
  BY <1>1, EmptySeq DEF Neighbour, RankStrings
<1>3. PICK r \in RankStrings : r = ComputeReorderRank(Neighbour(slot), Neighbour(slot + 1))
  BY <1>2, ReorderType
<1>4. PICK p, q : p = SubSeq(column, 1, slot) /\ q = SubSeq(column, slot + 1, Len(column))
  OBVIOUS
<1>5. p \in Seq(RankStrings) /\ q \in Seq(RankStrings) /\ <<r>> \in Seq(RankStrings)
  BY <1>1, <1>4, SubSeqProperties
<1>6. p \o <<r>> \o q \in Seq(RankStrings)
  BY <1>5, ConcatProperties
<1>7. column' = p \o <<r>> \o q /\ moves' = moves + 1
  BY <1>3, <1>4 DEF DropAt
<1> QED BY <1>6, <1>7 DEF ColumnInv

LEMMA ColumnKeeps == ColumnInv /\ [RankNext]_rankVars => ColumnInv'
BY DropType DEF RankNext, rankVars, ColumnInv

LEMMA ColumnSays == ColumnInv => RanksWellFormed
<1> SUFFICES ASSUME ColumnInv PROVE RanksWellFormed
  OBVIOUS
<1>1. \A i \in 1..Len(column) : column[i] \in RankStrings
  BY ElementOfSeq DEF ColumnInv
<1>2. \A s \in RankStrings : s # <<>> /\ \A j \in 1..Len(s) : s[j] \in 0..(Base - 1)
  BY ElementOfSeq DEF RankStrings, Letters
<1> QED BY <1>1, <1>2 DEF RanksWellFormed

(* However the stories are dropped, the column is a sequence of ranks.      *)
THEOREM RanksInvariance == RankSpec => []ColumnInv
<1>1. RankInit => ColumnInv
  BY EmptySeq DEF RankInit, ColumnInv
<1> QED BY <1>1, ColumnKeeps, PTL DEF RankSpec

(* Every drop gives the story a rank that is a string of letters and not
   empty, wherever it is dropped (computeReorderRank).                     *)
THEOREM RanksTypeCorrect == RankSpec => []RanksWellFormed
BY RanksInvariance, ColumnSays, PTL

(* In a column of any length, of ranks of any lengths over any alphabet of
   more than three letters: the rank for a place between two others is above
   the upper one, and below the lower one whenever a string of the longer
   one's length lies between them (rankBetween, computeReorderRank).       *)
THEOREM RanksBetween == RankSpec => []RoomMeansBetween
<1>1. ColumnInv => RoomMeansBetween
  <2> SUFFICES ASSUME ColumnInv, NEW i \in 1..Len(column), NEW j \in 1..Len(column),
                      NEW a, NEW b, a = column[i], b = column[j], RankLess(a, b),
                      NEW n, n = LongerLen(a, b), NEW new, new = ComputeReorderRank(a, b)
               PROVE  /\ RankLess(a, new)
                      /\ ValueOf(PadEnd(b, n)) - ValueOf(PadEnd(a, n)) > 1 => RankLess(new, b)
    BY DEF RoomMeansBetween
  <2>1. a \in Seq(Letters) /\ b \in Seq(Letters) /\ a # <<>> /\ b # <<>>
    BY ElementOfSeq DEF ColumnInv, RankStrings
  <2>2. new = RankBetween(a, b)
    BY <2>1 DEF ComputeReorderRank
  <2> QED BY <2>1, <2>2, BetweenTwo
<1> QED BY <1>1, RanksInvariance, PTL
=============================================================================
