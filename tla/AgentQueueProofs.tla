-------------------------- MODULE AgentQueueProofs --------------------------
(***************************************************************************)
(* Proofs about AgentQueue, for any sets of sessions, items and agents and *)
(* any bound on the entries.  The steps fall into six kinds of effect on   *)
(* the table (nothing, a status written, a row inserted, commit, rollback, *)
(* the revert of a failed dispatch); TableInv is shown once for each kind, *)
(* FlowInv once for each action.                                           *)
(***************************************************************************)
EXTENDS AgentQueue, FiniteSetTheorems, TLAPS

-----------------------------------------------------------------------------
(* The inductive invariant.                                                *)

(* A row lock has one holder.                                              *)
LocksExclusive ==
  \A r, s \in Sessions, e \in Ids : Written(r, e) /\ Written(s, e) => r = s

(* Ids not yet handed out have no row, committed or not.                   *)
FreshIds ==
  \A e \in Ids : e >= nextId =>
    queue[e].status = "NONE" /\ \A r \in Sessions : ~Written(r, e)

(* A row keeps its work item.                                              *)
SameItem ==
  \A r \in Sessions, e \in Ids :
    Written(r, e) /\ queue[e].status # "NONE" => pend[r][e].item = queue[e].item

(* No session sees two live rows of an item.                               *)
OneLivePerView ==
  \A r \in Sessions, e, f \in Ids :
    /\ View(r, e).status \in Live /\ View(r, f).status \in Live
    /\ View(r, e).item = View(r, f).item
    => e = f

(* While a session has an uncommitted live row of an item, no other has
   touched a live row of it.                                               *)
NoRival ==
  \A r, s \in Sessions, e, f \in Ids :
    /\ Written(r, e) /\ pend[r][e].status \in Live
    /\ Written(s, f) /\ (pend[s][f].status \in Live \/ queue[f].status \in Live)
    /\ pend[r][e].item = pend[s][f].item
    => r = s

(* No session has written a cancelled row.                                 *)
CancelledUnwritten ==
  \A r \in Sessions, e \in Ids : queue[e].status = "CANCELLED" => ~Written(r, e)

TableInv ==
  /\ LocksExclusive /\ FreshIds /\ SameItem
  /\ OneLiveEntryPerItem /\ OneLivePerView /\ NoRival
  /\ CancelledUnwritten

(* What a session's position says of its locals and its writes.            *)
Clean(r) == \A e \in Ids : ~Written(r, e)

Flow(r) ==
  /\ pc[r] \in {"idle", "cancel", "cancel_wait"} \cup Claimed => Clean(r)
  /\ pc[r] = "cancel_wait" => snap[r] \in Ids
  /\ pc[r] \in {"claim", "ack", "commit"} \cup Claimed => cand[r] \in Ids
  /\ pc[r] \in Claimed \ {"reread"} => sel[r] \in Ids
  /\ pc[r] = "ack" => pend[r][cand[r]].status = "DISPATCHING"
  /\ pc[r] = "commit" => pend[r][cand[r]].status = "ACK_PENDING"
  /\ \A e \in Ids :
       pend[r][e].status = "ACK_PENDING" => pc[r] = "commit" /\ cand[r] = e
  /\ pc[r] \in Claimed => queue[cand[r]].status # "NONE"
  /\ pc[r] \in Claimed \ {"reread"} =>
       /\ queue[sel[r]].status # "NONE"
       /\ sel[r] = cand[r] \/ queue[cand[r]].status = "CANCELLED"

FlowInv == \A r \in Sessions : Flow(r)

IInv ==
  /\ TypeOK /\ TableInv /\ FlowInv
  /\ AckPendingAccountedFor /\ DeliveredIsDurable

-----------------------------------------------------------------------------
(* The effects of the steps on the table.                                  *)

(* Rows neither disappear nor come back from their cancellation.           *)
Monotone ==
  \A e \in Ids : /\ queue[e].status # "NONE" => queue'[e].status # "NONE"
                 /\ queue[e].status = "CANCELLED" => queue'[e] = queue[e]

(* A session writes a new status to a live row that no other has locked.   *)
LEMMA WriteStep ==
  ASSUME TypeOK, TableInv,
         NEW r \in Sessions, NEW e \in Ids, NEW st \in Live \cup {"CANCELLED"},
         ~Locked(r, e), View(r, e).status \in Live,
         SetStatus(r, e, st), UNCHANGED <<queue, nextId>>
  PROVE  TableInv' /\ Monotone
<1> USE DEF Live
<1>1. /\ pend'[r][e].item = View(r, e).item
      /\ pend'[r][e].status = st
      /\ \A s \in Sessions, f \in Ids : s # r \/ f # e => pend'[s][f] = pend[s][f]
  BY DEF SetStatus, View, Written, TypeOK, Entry
<1>2. \A s \in Sessions, f \in Ids : Written(s, f)' <=> Written(s, f) \/ (s = r /\ f = e)
  BY <1>1 DEF Written
<1>3. \A s \in Sessions, f \in Ids : s # r \/ f # e => View(s, f)' = View(s, f)
  BY <1>1 DEF View, Written
<1>4. View(r, e)'.item = View(r, e).item /\ View(r, e)'.status = st
  BY <1>1 DEF View, Written
<1>5. LocksExclusive'
  BY <1>2 DEF TableInv, LocksExclusive, Locked, Written
<1>6. FreshIds'
  BY <1>2 DEF TableInv, FreshIds, View, Ids, Written
<1>7. SameItem'
  BY <1>1, <1>2 DEF TableInv, SameItem, View, Written
<1>8. OneLivePerView'
  BY <1>3, <1>4 DEF TableInv, OneLivePerView, Written
<1>9. NoRival'
  <2> SUFFICES ASSUME NEW s \in Sessions, NEW t \in Sessions,
                      NEW f \in Ids, NEW g \in Ids, s # t,
                      Written(s, f)', pend'[s][f].status \in Live,
                      Written(t, g)', pend'[t][g].status \in Live \/ queue[g].status \in Live,
                      pend'[s][f].item = pend'[t][g].item
               PROVE  FALSE
    BY DEF NoRival, Written
  <2>1. ~Written(s, e) \/ s = r
    BY DEF Locked
  <2>2. ~Written(t, e) \/ t = r
    BY DEF Locked
  <2>3. CASE s = r /\ f = e
    <3>1. Written(t, g) /\ g # e /\ pend'[t][g] = pend[t][g]
      BY <1>1, <1>2, <2>2, <2>3
    <3>2. View(r, e).item = pend[t][g].item
      BY <1>1, <2>3, <3>1
    <3>3. CASE Written(r, e)
      BY <2>3, <3>1, <3>2, <3>3 DEF TableInv, NoRival, View
    <3>4. CASE ~Written(r, e)
      <4>1. View(t, e) = queue[e] /\ View(r, e) = queue[e] /\ View(t, g) = pend[t][g]
        BY <2>2, <2>3, <3>1, <3>4 DEF View
      <4>2. CASE pend[t][g].status \in Live
        BY <3>1, <3>2, <4>1, <4>2 DEF TableInv, OneLivePerView
      <4>3. CASE queue[g].status \in Live
        BY <3>1, <3>2, <4>1, <4>3 DEF TableInv, OneLiveEntryPerItem, SameItem
      <4> QED BY <3>1, <4>2, <4>3
    <3> QED BY <3>3, <3>4
  <2>4. CASE t = r /\ g = e
    <3>1. Written(s, f) /\ f # e /\ pend'[s][f] = pend[s][f]
      BY <1>1, <1>2, <2>1, <2>4
    <3>2. View(r, e).item = pend[s][f].item
      BY <1>1, <2>4, <3>1
    <3>3. CASE Written(r, e)
      BY <2>4, <3>1, <3>2, <3>3 DEF TableInv, NoRival, View
    <3>4. CASE ~Written(r, e)
      <4>1. View(s, e) = queue[e] /\ View(r, e) = queue[e] /\ View(s, f) = pend[s][f]
        BY <2>1, <2>4, <3>1, <3>4 DEF View
      <4> QED BY <3>1, <3>2, <4>1 DEF TableInv, OneLivePerView
    <3> QED BY <3>3, <3>4
  <2>5. CASE ~(s = r /\ f = e) /\ ~(t = r /\ g = e)
    BY <1>1, <1>2, <2>5 DEF TableInv, NoRival, Written
  <2> QED BY <2>3, <2>4, <2>5
<1>10. CancelledUnwritten'
  BY <1>2 DEF TableInv, CancelledUnwritten, View, Written
<1>11. OneLiveEntryPerItem'
  BY DEF TableInv, OneLiveEntryPerItem
<1> QED
  BY <1>5, <1>6, <1>7, <1>8, <1>9, <1>10, <1>11 DEF TableInv, Monotone

(* A session inserts a queued row of an item it sees no live row of, and
   that the unique index makes it wait for nobody.                         *)
LEMMA InsertStep ==
  ASSUME TypeOK, TableInv,
         NEW r \in Sessions, NEW p \in Nat,
         IndexWaits(r, req[r].item) = {}, LiveOf(r, req[r].item) = {}, PutEntry(r, p)
  PROVE  TableInv' /\ Monotone
<1> USE DEF Live
<1>0. PICK e, i : e = nextId /\ i = req[r].item
  OBVIOUS
<1>a. e \in Ids /\ e \in Nat /\ nextId' = e + 1 /\ queue' = queue
  BY <1>0, BoundAssumption DEF PutEntry, TypeOK, Ids
<1>b. pend' = [pend EXCEPT ![r][e] = [item |-> i, agent |-> req[r].agent,
                                     status |-> "QUEUED", pos |-> p]]
  BY <1>0 DEF PutEntry
<1>1. /\ e \in Ids /\ e \in Nat /\ nextId' = e + 1 /\ queue' = queue
      /\ pend'[r][e].item = i /\ pend'[r][e].status = "QUEUED"
      /\ \A s \in Sessions, f \in Ids : s # r \/ f # e => pend'[s][f] = pend[s][f]
  BY <1>a, <1>b DEF TypeOK
<1>2. queue[e].status = "NONE" /\ \A s \in Sessions : ~Written(s, e)
  BY <1>0, <1>1 DEF TableInv, FreshIds, Ids
<1>3. \A s \in Sessions, f \in Ids : Written(s, f)' <=> Written(s, f) \/ (s = r /\ f = e)
  BY <1>1 DEF Written
<1>4. \A s \in Sessions, f \in Ids : s # r \/ f # e => View(s, f)' = View(s, f)
  BY <1>1 DEF View, Written
<1>5. View(r, e)'.item = i /\ View(r, e)'.status = "QUEUED"
  BY <1>1 DEF View, Written
<1>6. \A f \in Ids : View(r, f).status \in Live => View(r, f).item # i
  BY <1>0 DEF LiveOf
<1>7. \A s \in Sessions \ {r}, f \in Ids :
        /\ Written(s, f)
        /\ pend[s][f].status \in Live \/ queue[f].status \in Live
        => pend[s][f].item # i
  BY <1>0 DEF IndexWaits
<1>8. LocksExclusive'
  BY <1>2, <1>3 DEF TableInv, LocksExclusive, Written
<1>9. FreshIds'
  BY <1>0, <1>1, <1>3 DEF TableInv, FreshIds, Written, Ids
<1>10. SameItem'
  BY <1>1, <1>2, <1>3 DEF TableInv, SameItem, Written
<1>11. OneLivePerView'
  BY <1>4, <1>5, <1>6 DEF TableInv, OneLivePerView
<1>12. NoRival'
  BY <1>1, <1>2, <1>3, <1>7 DEF TableInv, NoRival, Written
<1>13. CancelledUnwritten'
  BY <1>1, <1>2, <1>3 DEF TableInv, CancelledUnwritten, Written
<1>14. OneLiveEntryPerItem'
  BY <1>1 DEF TableInv, OneLiveEntryPerItem
<1> QED
  BY <1>1, <1>8, <1>9, <1>10, <1>11, <1>12, <1>13, <1>14 DEF TableInv, Monotone

(* The rows a session has written are committed.                           *)
LEMMA CommitStep ==
  ASSUME TypeOK, TableInv, NEW r \in Sessions, Commit(r), nextId' = nextId
  PROVE  TableInv' /\ Monotone
<1> USE DEF Live
<1>1. \A f \in Ids : queue'[f] = View(r, f)
  BY DEF Commit, Committed
<1>2. /\ \A s \in Sessions \ {r} : pend'[s] = pend[s]
      /\ \A f \in Ids : pend'[r][f].status = "NONE"
  BY DEF Commit, Discard, NoWrites, NoEntry, TypeOK
<1>3. \A s \in Sessions, f \in Ids : Written(s, f)' <=> s # r /\ Written(s, f)
  BY <1>2 DEF Written
<1>4. \A s \in Sessions \ {r}, f \in Ids :
        Written(s, f) => queue'[f] = queue[f] /\ View(s, f)' = View(s, f)
  BY <1>1, <1>2 DEF TableInv, LocksExclusive, View, Written
<1>5. \A s \in Sessions, f \in Ids : ~Written(s, f)' => View(s, f)' = View(r, f)
  BY <1>1 DEF View
<1>6. LocksExclusive'
  BY <1>3 DEF TableInv, LocksExclusive, Written
<1>7. FreshIds'
  BY <1>1, <1>3 DEF TableInv, FreshIds, Written, View
<1>8. SameItem'
  BY <1>2, <1>3, <1>4 DEF TableInv, SameItem, Written
<1>9. OneLiveEntryPerItem'
  BY <1>1 DEF TableInv, OneLiveEntryPerItem, OneLivePerView
<1>10. OneLivePerView'
  <2> SUFFICES ASSUME NEW s \in Sessions, NEW f \in Ids, NEW g \in Ids,
                      View(s, f)'.status \in Live, View(s, g)'.status \in Live,
                      View(s, f)'.item = View(s, g)'.item
               PROVE  f = g
    BY DEF OneLivePerView
  <2>1. ASSUME NEW x \in Ids, NEW y \in Ids,
               View(s, x)'.status \in Live, View(s, y)'.status \in Live,
               View(s, x)'.item = View(s, y)'.item,
               s # r, Written(s, x), ~Written(s, y)
        PROVE  x = y
    <3>1. View(s, x)' = View(s, x) /\ View(s, x) = pend[s][x]
      BY <1>4, <2>1 DEF View
    <3>2. View(s, y)' = View(r, y)
      BY <1>3, <1>5, <2>1
    <3>3. CASE Written(r, y)
      BY <2>1, <3>1, <3>2, <3>3 DEF TableInv, NoRival, View
    <3>4. CASE ~Written(r, y)
      BY <2>1, <3>1, <3>2, <3>4 DEF TableInv, OneLivePerView, View
    <3> QED BY <3>3, <3>4
  <2>2. CASE s # r /\ Written(s, f) /\ Written(s, g)
    BY <1>4, <2>2 DEF TableInv, OneLivePerView
  <2>3. CASE ~Written(s, f)' /\ ~Written(s, g)'
    BY <1>5, <2>3 DEF TableInv, OneLivePerView
  <2> QED
    BY <1>3, <2>1, <2>2, <2>3
<1>11. NoRival'
  BY <1>2, <1>3, <1>4 DEF TableInv, NoRival, Written
<1>12. CancelledUnwritten'
  BY <1>3, <1>4 DEF TableInv, CancelledUnwritten, Written
<1>13. Monotone
  BY <1>1 DEF TableInv, CancelledUnwritten, Monotone, View, Written
<1> QED
  BY <1>6, <1>7, <1>8, <1>9, <1>10, <1>11, <1>12, <1>13 DEF TableInv

(* The rows a session has written are forgotten.                           *)
LEMMA RollbackStep ==
  ASSUME TypeOK, TableInv, NEW r \in Sessions, Rollback(r), nextId' = nextId
  PROVE  TableInv' /\ Monotone
<1> USE DEF Live
<1>1. /\ queue' = queue
      /\ \A s \in Sessions \ {r} : pend'[s] = pend[s]
      /\ \A f \in Ids : pend'[r][f].status = "NONE"
  BY DEF Rollback, Discard, NoWrites, NoEntry, TypeOK
<1>2. \A s \in Sessions, f \in Ids : Written(s, f)' <=> s # r /\ Written(s, f)
  BY <1>1 DEF Written
<1>3. \A f \in Ids : View(r, f)' = queue[f]
  BY <1>1 DEF View, Written
<1>4. \A s \in Sessions \ {r}, f \in Ids : View(s, f)' = View(s, f)
  BY <1>1 DEF View, Written
<1>5. LocksExclusive' /\ FreshIds' /\ CancelledUnwritten'
  BY <1>1, <1>2 DEF TableInv, LocksExclusive, FreshIds, CancelledUnwritten, Written
<1>6. SameItem'
  BY <1>1, <1>2 DEF TableInv, SameItem, Written
<1>7. OneLiveEntryPerItem'
  BY <1>1 DEF TableInv, OneLiveEntryPerItem
<1>8. OneLivePerView'
  BY <1>3, <1>4 DEF TableInv, OneLivePerView, OneLiveEntryPerItem
<1>9. NoRival'
  BY <1>1, <1>2 DEF TableInv, NoRival, Written
<1>10. Monotone
  BY <1>1 DEF Monotone
<1> QED
  BY <1>5, <1>6, <1>7, <1>8, <1>9, <1>10 DEF TableInv

(* A claimed entry that nobody has locked goes back to the queue.          *)
LEMMA RevertStep ==
  ASSUME TypeOK, TableInv, NEW e \in Ids,
         queue[e].status = "ACK_PENDING", \A s \in Sessions : ~Written(s, e),
         queue' = [queue EXCEPT ![e].status = "QUEUED"], UNCHANGED <<pend, nextId>>
  PROVE  TableInv' /\ Monotone
<1> USE DEF Live
<1>1. /\ queue'[e].item = queue[e].item /\ queue'[e].status = "QUEUED"
      /\ \A f \in Ids \ {e} : queue'[f] = queue[f]
  BY DEF TypeOK, Entry
<1>2. \A s \in Sessions, f \in Ids : f # e => View(s, f)' = View(s, f)
  BY <1>1 DEF View, Written
<1>3. \A s \in Sessions : View(s, e) = queue[e] /\ View(s, e)' = queue'[e]
  BY DEF View, Written
<1>4. LocksExclusive' /\ FreshIds' /\ CancelledUnwritten'
  BY <1>1 DEF TableInv, LocksExclusive, FreshIds, CancelledUnwritten, Written
<1>5. SameItem'
  BY <1>1 DEF TableInv, SameItem, Written
<1>6. OneLiveEntryPerItem'
  BY <1>1 DEF TableInv, OneLiveEntryPerItem
<1>7. OneLivePerView'
  <2> SUFFICES ASSUME NEW s \in Sessions, NEW f \in Ids, NEW g \in Ids,
                      View(s, f)'.status \in Live, View(s, g)'.status \in Live,
                      View(s, f)'.item = View(s, g)'.item
               PROVE  f = g
    BY DEF OneLivePerView
  <2>1. \A h \in {f, g} : /\ View(s, h).item = View(s, h)'.item
                         /\ View(s, h).status \in Live
    BY <1>1, <1>2, <1>3
  <2> QED BY <2>1 DEF TableInv, OneLivePerView
<1>8. NoRival'
  BY <1>1 DEF TableInv, NoRival, Written
<1>9. Monotone
  BY <1>1 DEF Monotone
<1> QED
  BY <1>4, <1>5, <1>6, <1>7, <1>8, <1>9 DEF TableInv

-----------------------------------------------------------------------------
(* Types.                                                                  *)

LEMMA ViewType == ASSUME TypeOK, NEW r \in Sessions, NEW e \in Ids
                  PROVE  View(r, e) \in Entry
BY DEF TypeOK, View

LEMMA SetStatusType ==
  ASSUME TypeOK, NEW r \in Sessions, NEW e \in Ids, NEW st \in Statuses, SetStatus(r, e, st)
  PROVE  pend' \in [Sessions -> [Ids -> Entry]]
<1>1. [View(r, e) EXCEPT !.status = st] \in Entry
  BY ViewType DEF Entry
<1> QED BY <1>1 DEF SetStatus, TypeOK

LEMMA DiscardType ==
  ASSUME TypeOK, NEW r \in Sessions, Discard(r)
  PROVE  pend' \in [Sessions -> [Ids -> Entry]]
<1>1. NoWrites \in [Ids -> Entry]
  BY DEF NoWrites, NoEntry, Entry, Statuses
<1> QED BY <1>1 DEF Discard, TypeOK

LEMMA CommitType ==
  ASSUME TypeOK, NEW r \in Sessions, Commit(r)
  PROVE  queue' \in [Ids -> Entry]
BY ViewType DEF Commit, Committed

LEMMA ResetType ==
  ASSUME TypeOK, NEW r \in Sessions, ResetLocals(r)
  PROVE  /\ pc' \in [Sessions -> Labels]       /\ req' \in [Sessions -> Request]
         /\ mine' \in [Sessions -> Ids \cup {0}] /\ snap' \in [Sessions -> Nat]
         /\ cand' \in [Sessions -> Ids \cup {0}] /\ sel' \in [Sessions -> Ids \cup {0}]
         /\ selStatus' \in [Sessions -> Statuses]
BY DEF TypeOK, ResetLocals, Goto, NoRequest, Request, Labels, Statuses

LEMMA PutEntryType ==
  ASSUME TypeOK, NEW r \in Sessions, NEW p \in Nat, PutEntry(r, p)
  PROVE  TypeOK'
<1>1. nextId \in Ids /\ nextId' \in 1 .. MaxEntries + 1
  BY BoundAssumption DEF TypeOK, PutEntry, Ids
<1>2. [item |-> req[r].item, agent |-> req[r].agent, status |-> "QUEUED", pos |-> p] \in Entry
  BY DEF TypeOK, Request, Entry, Statuses
<1>3. pend' \in [Sessions -> [Ids -> Entry]]
  BY <1>1, <1>2 DEF TypeOK, PutEntry
<1> QED
  BY <1>1, <1>3 DEF TypeOK, PutEntry, Goto, Labels, history

LEMMA TypeStep == ASSUME TypeOK, FlowInv, Next PROVE TypeOK'
<1> PICK r \in Sessions : StartIngress(r) \/ StartDispatch(r) \/ Step(r) \/ Crash(r)
  BY DEF Next
<1> USE DEF table, locals, history, Goto, Labels, BeforeInsert, Claimed
<1>1. CASE StartIngress(r)
  BY <1>1, PayloadsAssumption DEF TypeOK, StartIngress, Request, Assignment
<1>2. CASE StartDispatch(r)
  <2>1. \A a \in Agents : [NoRequest EXCEPT !.agent = a] \in Request
    BY DEF NoRequest, Request
  <2>2. req' \in [Sessions -> Request]
    BY <1>2, <2>1 DEF TypeOK, StartDispatch
  <2> QED BY <1>2, <2>2 DEF TypeOK, StartDispatch
<1>3. CASE Cancel(r)
  <2>1. pend' \in [Sessions -> [Ids -> Entry]]
    BY <1>3, SetStatusType DEF TypeOK, Cancel, LiveOf, Statuses
  <2>2. snap' \in [Sessions -> Nat]
    BY <1>3, BoundAssumption DEF TypeOK, Cancel, LiveOf, Ids
  <2>3. pc' \in [Sessions -> Labels]
    BY <1>3 DEF TypeOK, Cancel
  <2> QED BY <1>3, <2>1, <2>2, <2>3 DEF TypeOK, Cancel
<1>4. CASE CancelAfterWait(r)
  <2>1. pend' \in [Sessions -> [Ids -> Entry]]
    BY <1>4, SetStatusType DEF TypeOK, CancelAfterWait, FlowInv, Flow, Statuses
  <2> QED BY <1>4, <2>1 DEF TypeOK, CancelAfterWait
<1>5. CASE LookupExisting(r)
  BY <1>5 DEF TypeOK, LookupExisting
<1>6. CASE Insert(r)
  <2> PICK p \in 1 .. MaxEntries :
        \/ /\ snap' = [snap EXCEPT ![r] = p]
           /\ Goto(r, "insert_wait")
           /\ UNCHANGED <<table, req, mine, cand, sel, selStatus, history>>
        \/ PutEntry(r, p)
        \/ Rollback(r) /\ ResetLocals(r) /\ UNCHANGED <<nextId, history>>
    BY <1>6 DEF Insert
  <2> p \in Nat
    BY BoundAssumption
  <2>1. CASE UNCHANGED <<table, req, mine, cand, sel, selStatus, history>> /\
             snap' = [snap EXCEPT ![r] = p] /\ Goto(r, "insert_wait")
    BY <2>1 DEF TypeOK
  <2>2. CASE PutEntry(r, p)
    BY <2>2, PutEntryType
  <2>3. CASE Rollback(r) /\ ResetLocals(r) /\ UNCHANGED <<nextId, history>>
    BY <2>3, DiscardType, ResetType DEF TypeOK, Rollback
  <2> QED BY <2>1, <2>2, <2>3
<1>7. CASE InsertAfterWait(r)
  <2>1. CASE PutEntry(r, snap[r])
    BY <2>1, PutEntryType DEF TypeOK
  <2>2. CASE Rollback(r) /\ ResetLocals(r) /\ UNCHANGED <<nextId, history>>
    BY <2>2, DiscardType, ResetType DEF TypeOK, Rollback
  <2> QED BY <1>7, <2>1, <2>2 DEF InsertAfterWait
<1>8. CASE CheckCapacity(r)
  BY <1>8 DEF TypeOK, CheckCapacity
<1>9. CASE SelectCandidate(r)
  BY <1>9 DEF TypeOK, SelectCandidate, OldestQueued, QueuedFor
<1>10. CASE Claim(r)
  <2>1. pend' \in [Sessions -> [Ids -> Entry]]
    BY <1>10, SetStatusType DEF TypeOK, Claim, FlowInv, Flow, Statuses
  <2> QED BY <1>10, <2>1 DEF TypeOK, Claim
<1>11. CASE AckPending(r)
  <2>1. pend' \in [Sessions -> [Ids -> Entry]]
    BY <1>11, SetStatusType DEF TypeOK, AckPending, FlowInv, Flow, Statuses
  <2> QED BY <1>11, <2>1 DEF TypeOK, AckPending
<1>12. CASE CommitClaim(r)
  <2>1. queue' \in [Ids -> Entry] /\ pend' \in [Sessions -> [Ids -> Entry]]
    BY <1>12, CommitType, DiscardType DEF CommitClaim, Commit
  <2> QED BY <1>12, <2>1 DEF TypeOK, CommitClaim
<1>13. CASE Reread(r)
  <2>1. cand[r] \in Ids
    BY <1>13 DEF Reread, FlowInv, Flow
  <2>2. sel' \in [Sessions -> Ids \cup {0}]
    BY <1>13, <2>1 DEF Reread, TypeOK, LiveOf
  <2>3. "QUEUED" \in Statuses /\ \A e \in Ids : queue[e].status \in Statuses
    BY DEF TypeOK, Entry, Statuses
  <2>4. selStatus' \in [Sessions -> Statuses]
    BY <1>13, <2>3 DEF Reread, TypeOK, LiveOf
  <2> QED BY <1>13, <2>2, <2>4 DEF TypeOK, Reread
<1>14. CASE LookupAgent(r)
  BY <1>14 DEF TypeOK, LookupAgent
<1>15. CASE SendAccepted(r)
  BY <1>15 DEF TypeOK, SendAccepted, Deliver, FlowInv, Flow
<1>16. CASE SendFails(r)
  BY <1>16 DEF TypeOK, SendFails, Deliver, FlowInv, Flow
<1>17. CASE SendRaises(r)
  <2>1. sel[r] \in Ids /\ cand[r] \in Ids
    BY <1>17 DEF SendRaises, FlowInv, Flow
  <2>2. delivered' \subseteq Ids /\ orphans' \subseteq Ids
    BY <1>17, <2>1 DEF SendRaises, Deliver, TypeOK
  <2>3. CASE ResetLocals(r)
    BY <1>17, <2>2, <2>3, ResetType DEF TypeOK, SendRaises
  <2>4. CASE Goto(r, "finish") /\ UNCHANGED locals
    BY <1>17, <2>2, <2>4 DEF TypeOK, SendRaises
  <2> QED BY <1>17, <2>3, <2>4 DEF SendRaises
<1>18. CASE RecordSent(r)
  BY <1>18 DEF TypeOK, RecordSent, FlowInv, Flow
<1>19. CASE RecordFailed(r)
  <2>1. sel[r] \in Ids
    BY <1>19 DEF RecordFailed, FlowInv, Flow
  <2>2. queue' \in [Ids -> Entry]
    <3> queue[sel[r]] \in Entry
      BY <2>1 DEF TypeOK
    <3>1. [queue[sel[r]] EXCEPT !.status = "QUEUED"] \in Entry
      BY DEF Entry, Statuses
    <3>2. \/ queue' = queue
          \/ queue' = [queue EXCEPT ![sel[r]] = [queue[sel[r]] EXCEPT !.status = "QUEUED"]]
      BY <1>19 DEF RecordFailed
    <3> QED BY <2>1, <3>1, <3>2 DEF TypeOK
  <2> QED BY <1>19, <2>1, <2>2 DEF TypeOK, RecordFailed
<1>20. CASE Finish(r)
  <2>1. queue' \in [Ids -> Entry] /\ pend' \in [Sessions -> [Ids -> Entry]]
    BY <1>20, CommitType, DiscardType DEF Finish, Commit, Rollback, TypeOK
  <2>2. promised' \subseteq Ids
    BY <1>20 DEF Finish, TypeOK
  <2> QED BY <1>20, <2>1, <2>2, ResetType DEF TypeOK, Finish
<1>21. CASE DeadlockVictim(r)
  BY <1>21, DiscardType DEF TypeOK, DeadlockVictim, Rollback
<1>22. CASE Crash(r)
  <2>1. orphans' \subseteq Ids
    BY <1>22 DEF Crash, TypeOK, FlowInv, Flow
  <2>2. pend' \in [Sessions -> [Ids -> Entry]] /\ queue' = queue
    BY <1>22, DiscardType DEF Crash, Rollback
  <2> QED BY <1>22, <2>1, <2>2, ResetType DEF TypeOK, Crash
<1> QED
  BY <1>1, <1>2, <1>3, <1>4, <1>5, <1>6, <1>7, <1>8, <1>9, <1>10, <1>11, <1>12, <1>13,
     <1>14, <1>15, <1>16, <1>17, <1>18, <1>19, <1>20, <1>21, <1>22 DEF Step

-----------------------------------------------------------------------------
(* The table.                                                              *)

LEMMA TableUnchanged ==
  ASSUME TableInv, UNCHANGED table
  PROVE  TableInv' /\ Monotone
BY DEF table, TableInv, LocksExclusive, FreshIds, SameItem, OneLiveEntryPerItem, OneLivePerView,
       NoRival, CancelledUnwritten, View, Written, Monotone

LEMMA TableStep == ASSUME TypeOK, TableInv, FlowInv, Next PROVE TableInv' /\ Monotone
<1> PICK r \in Sessions : StartIngress(r) \/ StartDispatch(r) \/ Step(r) \/ Crash(r)
  BY DEF Next
<1> USE DEF table, locals, history
<1>1. CASE \/ StartIngress(r)    \/ StartDispatch(r) \/ LookupExisting(r) \/ CheckCapacity(r)
           \/ SelectCandidate(r) \/ Reread(r)        \/ LookupAgent(r)    \/ SendAccepted(r)
           \/ SendFails(r)       \/ SendRaises(r)    \/ RecordSent(r)
  <2>1. UNCHANGED table
    BY <1>1 DEF StartIngress, StartDispatch, LookupExisting, CheckCapacity, SelectCandidate,
                Reread, LookupAgent, SendAccepted, SendFails, SendRaises, RecordSent
  <2> QED BY <2>1, TableUnchanged
<1>2. CASE Cancel(r)
  <2>1. CASE UNCHANGED pend
    BY <1>2, <2>1, TableUnchanged DEF Cancel
  <2>2. CASE \E e \in LiveOf(r, req[r].item) : ~Locked(r, e) /\ SetStatus(r, e, "CANCELLED")
    BY <1>2, <2>2, WriteStep DEF Cancel, LiveOf
  <2> QED BY <1>2, <2>1, <2>2 DEF Cancel
<1>3. CASE CancelAfterWait(r)
  <2>1. /\ snap[r] \in Ids /\ ~Locked(r, snap[r])
        /\ View(r, snap[r]) = queue[snap[r]]
    BY <1>3 DEF CancelAfterWait, FlowInv, Flow, Clean, View
  <2>2. CASE UNCHANGED pend
    BY <1>3, <2>2, TableUnchanged DEF CancelAfterWait
  <2>3. CASE queue[snap[r]].status \in Live /\ SetStatus(r, snap[r], "CANCELLED")
    BY <1>3, <2>1, <2>3, WriteStep DEF CancelAfterWait
  <2> QED BY <1>3, <2>2, <2>3 DEF CancelAfterWait
<1>4. CASE Insert(r)
  <2>1. CASE UNCHANGED table
    BY <2>1, TableUnchanged
  <2>2. CASE \E p \in 1 .. MaxEntries : /\ IndexWaits(r, req[r].item) = {}
                                      /\ LiveOf(r, req[r].item) = {}
                                      /\ PutEntry(r, p)
    BY <2>2, InsertStep, BoundAssumption
  <2>3. CASE Rollback(r) /\ UNCHANGED nextId
    BY <2>3, RollbackStep
  <2> QED BY <1>4, <2>1, <2>2, <2>3 DEF Insert
<1>5. CASE InsertAfterWait(r)
  <2>1. snap[r] \in Nat
    BY DEF TypeOK
  <2> QED BY <1>5, <2>1, InsertStep, RollbackStep DEF InsertAfterWait
<1>6. CASE Claim(r)
  <2>1. cand[r] \in Ids
    BY <1>6 DEF Claim, FlowInv, Flow
  <2> QED BY <1>6, <2>1, WriteStep, TableUnchanged DEF Claim, Live
<1>7. CASE AckPending(r)
  <2>1. cand[r] \in Ids /\ Written(r, cand[r])
    BY <1>7 DEF AckPending, FlowInv, Flow, Written
  <2>2. ~Locked(r, cand[r])
    BY <2>1 DEF Locked, TableInv, LocksExclusive
  <2> QED BY <1>7, <2>1, <2>2, WriteStep, TableUnchanged DEF AckPending, Live
<1>8. CASE CommitClaim(r)
  BY <1>8, CommitStep DEF CommitClaim
<1>9. CASE Finish(r)
  BY <1>9, CommitStep, RollbackStep DEF Finish
<1>10. CASE DeadlockVictim(r) \/ Crash(r)
  BY <1>10, RollbackStep DEF DeadlockVictim, Crash
<1>11. CASE RecordFailed(r)
  <2>1. CASE UNCHANGED queue
    BY <1>11, <2>1, TableUnchanged DEF RecordFailed
  <2>2. CASE queue[sel[r]].status = "ACK_PENDING"
    <3>1. sel[r] \in Ids /\ \A s \in Sessions : ~Written(s, sel[r])
      BY <1>11, <2>2 DEF RecordFailed, Claimed, FlowInv, Flow, Clean, Locked
    <3> QED BY <1>11, <2>2, <3>1, RevertStep DEF RecordFailed
  <2> QED BY <1>11, <2>1, <2>2 DEF RecordFailed
<1> QED
  BY <1>1, <1>2, <1>3, <1>4, <1>5, <1>6, <1>7, <1>8, <1>9, <1>10, <1>11 DEF Step

-----------------------------------------------------------------------------
(* The flow of a request.                                                  *)

(* A step of another session leaves a session where it was.                *)
LEMMA OtherFlow ==
  ASSUME NEW s \in Sessions, Flow(s), Monotone, pend'[s] = pend[s], pc'[s] = pc[s],
         snap'[s] = snap[s], cand'[s] = cand[s], sel'[s] = sel[s]
  PROVE  Flow(s)'
BY DEF Flow, Clean, Written, Monotone, Claimed

(* A request that has ended holds nothing.                                 *)
LEMMA EndedFlow ==
  ASSUME TypeOK, NEW r \in Sessions, Discard(r), pc'[r] \in {"idle", "finish"}
  PROVE  Flow(r)'
BY DEF TypeOK, Discard, NoWrites, NoEntry, Flow, Clean, Written, Claimed

(* A session without a claimed entry moves on before it has one.           *)
LEMMA EarlyFlow ==
  ASSUME TypeOK, NEW r \in Sessions, Flow(r), UNCHANGED pend, pc[r] # "commit",
         \/ pc'[r] \in {"lookup", "insert", "insert_wait", "capacity", "select", "finish"}
         \/ pc'[r] = "cancel" /\ Clean(r)
  PROVE  Flow(r)'
BY DEF Flow, Clean, Written, Claimed

(* Only the session that takes a step changes its part of the state.       *)
LEMMA Frame ==
  ASSUME TypeOK, NEW r \in Sessions,
         StartIngress(r) \/ StartDispatch(r) \/ Step(r) \/ Crash(r),
         NEW s \in Sessions, s # r
  PROVE  /\ pend'[s] = pend[s] /\ pc'[s] = pc[s] /\ snap'[s] = snap[s]
         /\ cand'[s] = cand[s] /\ sel'[s] = sel[s]
<1> USE DEF TypeOK, table, locals, history, Goto, ResetLocals, SetStatus, Discard, Rollback, Commit
<1>1. CASE StartIngress(r) \/ StartDispatch(r) \/ Crash(r)
  BY <1>1 DEF StartIngress, StartDispatch, Crash
<1>2. CASE Cancel(r) \/ CancelAfterWait(r) \/ LookupExisting(r)
  BY <1>2 DEF Cancel, CancelAfterWait, LookupExisting
<1>3. CASE Insert(r) \/ InsertAfterWait(r)
  BY <1>3 DEF Insert, InsertAfterWait, PutEntry
<1>4. CASE CheckCapacity(r) \/ SelectCandidate(r) \/ Claim(r)
  BY <1>4 DEF CheckCapacity, SelectCandidate, Claim
<1>5. CASE AckPending(r) \/ CommitClaim(r) \/ Reread(r) \/ LookupAgent(r)
  BY <1>5 DEF AckPending, CommitClaim, Reread, LookupAgent
<1>6. CASE SendAccepted(r) \/ SendFails(r) \/ SendRaises(r) \/ RecordSent(r)
  BY <1>6 DEF SendAccepted, SendFails, SendRaises, RecordSent
<1>7. CASE RecordFailed(r) \/ Finish(r) \/ DeadlockVictim(r)
  BY <1>7 DEF RecordFailed, Finish, DeadlockVictim
<1> QED
  BY <1>1, <1>2, <1>3, <1>4, <1>5, <1>6, <1>7 DEF Step

LEMMA FlowStep ==
  ASSUME TypeOK, TableInv, FlowInv, Next, Monotone
  PROVE  FlowInv'
<1> PICK r \in Sessions : StartIngress(r) \/ StartDispatch(r) \/ Step(r) \/ Crash(r)
  BY DEF Next
<1>a. Flow(r)
  BY DEF FlowInv
<1> USE DEF table, locals, history
<1>1. \A s \in Sessions : s # r => Flow(s)'
  BY Frame, OtherFlow DEF FlowInv
<1>2. Flow(r)'
  <2>1. CASE StartIngress(r)
    BY <1>a, <2>1, EarlyFlow DEF StartIngress, Goto, TypeOK, Flow
  <2>2. CASE \/ StartDispatch(r) \/ LookupExisting(r) \/ CheckCapacity(r)
             \/ RecordSent(r)    \/ RecordFailed(r)
    BY <1>a, <2>2, EarlyFlow
    DEF StartDispatch, LookupExisting, CheckCapacity, RecordSent, RecordFailed, Goto, TypeOK
  <2>3. CASE Cancel(r)
    <3>1. CASE UNCHANGED pend /\ Goto(r, "lookup")
      BY <1>a, <2>3, <3>1, EarlyFlow DEF Cancel, Goto, TypeOK
    <3>2. CASE \E e \in Ids : Goto(r, "cancel_wait") /\ snap' = [snap EXCEPT ![r] = e]
                            /\ UNCHANGED pend
      BY <1>a, <2>3, <3>2 DEF Cancel, Goto, TypeOK, Flow, Clean, Written, Claimed
    <3>3. CASE Goto(r, "lookup") /\ \E e \in Ids : SetStatus(r, e, "CANCELLED")
      BY <1>a, <2>3, <3>3 DEF Cancel, Goto, SetStatus, TypeOK, Entry, Flow, Clean, Written, Claimed
    <3> QED BY <2>3, <3>1, <3>2, <3>3 DEF Cancel, LiveOf
  <2>4. CASE CancelAfterWait(r)
    <3>1. CASE UNCHANGED pend
      BY <1>a, <2>4, <3>1, EarlyFlow DEF CancelAfterWait, Goto, TypeOK
    <3>2. CASE SetStatus(r, snap[r], "CANCELLED")
      BY <1>a, <2>4, <3>2
      DEF CancelAfterWait, Goto, SetStatus, TypeOK, Entry, Flow, Clean, Written, Claimed
    <3> QED BY <2>4, <3>1, <3>2 DEF CancelAfterWait
  <2>5. CASE Insert(r) \/ InsertAfterWait(r)
    <3>1. CASE UNCHANGED pend /\ Goto(r, "insert_wait")
      BY <1>a, <2>5, <3>1, EarlyFlow DEF Insert, InsertAfterWait, Goto, TypeOK
    <3>2. CASE Rollback(r) /\ ResetLocals(r)
      BY <3>2, EndedFlow DEF Rollback, ResetLocals, Goto, TypeOK
    <3>3. ASSUME NEW p, PutEntry(r, p) PROVE Flow(r)'
      <4>1. /\ pc[r] # "commit" /\ pc'[r] = "capacity"
            /\ \A e \in Ids : pend'[r][e] = pend[r][e] \/ pend'[r][e].status = "QUEUED"
        BY <2>5, <3>3 DEF Insert, InsertAfterWait, PutEntry, Goto, TypeOK
      <4> QED BY <1>a, <4>1 DEF Flow, Claimed
    <3> QED BY <2>5, <3>1, <3>2, <3>3 DEF Insert, InsertAfterWait
  <2>6. CASE SelectCandidate(r)
    <3>1. pc'[r] = "finish" \/ (pc'[r] = "claim" /\ cand'[r] \in Ids)
      BY <2>6 DEF SelectCandidate, Goto, TypeOK, OldestQueued, QueuedFor
    <3> QED BY <1>a, <2>6, <3>1 DEF SelectCandidate, Flow, Claimed
  <2>7. CASE Claim(r)
    <3>1. CASE UNCHANGED pend /\ Goto(r, "finish")
      BY <1>a, <2>7, <3>1, EarlyFlow DEF Claim, Goto, TypeOK
    <3>2. CASE SetStatus(r, cand[r], "DISPATCHING") /\ Goto(r, "ack")
      <4>1. /\ pc[r] = "claim" /\ pc'[r] = "ack" /\ cand' = cand /\ cand[r] \in Ids
            /\ pend'[r][cand[r]].status = "DISPATCHING"
            /\ \A e \in Ids : e # cand[r] => pend'[r][e] = pend[r][e]
        BY <1>a, <2>7, <3>2, ViewType DEF Claim, Goto, SetStatus, TypeOK, Entry, Flow
      <4> QED BY <1>a, <4>1 DEF Flow, Claimed
    <3> QED BY <2>7, <3>1, <3>2 DEF Claim
  <2>8. CASE AckPending(r)
    <3>1. CASE UNCHANGED pend /\ Goto(r, "finish")
      BY <1>a, <2>8, <3>1, EarlyFlow DEF AckPending, Goto, TypeOK
    <3>2. CASE SetStatus(r, cand[r], "ACK_PENDING") /\ Goto(r, "commit")
      <4>1. /\ pc[r] = "ack" /\ pc'[r] = "commit" /\ cand' = cand /\ cand[r] \in Ids
            /\ pend'[r][cand[r]].status = "ACK_PENDING"
            /\ \A e \in Ids : e # cand[r] => pend'[r][e] = pend[r][e]
        BY <1>a, <2>8, <3>2, ViewType DEF AckPending, Goto, SetStatus, TypeOK, Entry, Flow
      <4> QED BY <1>a, <4>1 DEF Flow, Claimed
    <3> QED BY <2>8, <3>1, <3>2 DEF AckPending
  <2>9. CASE CommitClaim(r)
    <3>1. /\ pc'[r] = "reread" /\ cand' = cand /\ cand[r] \in Ids
          /\ queue'[cand[r]].status = "ACK_PENDING"
          /\ \A e \in Ids : pend'[r][e].status = "NONE"
      BY <1>a, <2>9
      DEF CommitClaim, Commit, Committed, Discard, NoWrites, NoEntry, View, Written,
          Goto, TypeOK, Flow
    <3> QED BY <3>1 DEF Flow, Clean, Written, Claimed
  <2>10. CASE Reread(r)
    <3>1. /\ cand[r] \in Ids /\ queue[cand[r]].status # "NONE"
          /\ \A e \in Ids : ~Written(r, e) /\ View(r, e) = queue[e]
      BY <1>a, <2>10 DEF Reread, Flow, Clean, Claimed, View
    <3>2. queue[cand[r]].status \in Live \/ queue[cand[r]].status = "CANCELLED"
      BY <3>1 DEF TypeOK, Entry, Statuses, Live
    <3>3. /\ sel'[r] \in Ids /\ queue[sel'[r]].status # "NONE"
          /\ sel'[r] = cand[r] \/ queue[cand[r]].status = "CANCELLED"
      <4>1. CASE sel'[r] = cand[r]
        BY <3>1, <4>1
      <4>2. CASE sel'[r] \in LiveOf(r, queue[cand[r]].item)
        <5>1. /\ sel'[r] \in Ids /\ queue[sel'[r]].status \in Live
              /\ queue[sel'[r]].item = queue[cand[r]].item
          BY <3>1, <4>2 DEF LiveOf
        <5> QED BY <3>1, <3>2, <5>1 DEF TableInv, OneLiveEntryPerItem, Live
      <4> QED BY <2>10, <4>1, <4>2 DEF Reread, TypeOK
    <3>4. /\ pc'[r] = "agent" /\ UNCHANGED <<queue, pend, cand>>
      BY <2>10 DEF Reread, Goto, TypeOK
    <3> QED BY <3>1, <3>3, <3>4 DEF Flow, Clean, Written, Claimed
  <2>11. CASE LookupAgent(r) \/ SendAccepted(r) \/ SendFails(r)
    <3>1. /\ pc[r] \in {"agent", "send"} /\ pc'[r] \in {"send", "record_sent", "record_failed"}
          /\ UNCHANGED <<table, locals>>
      BY <2>11 DEF LookupAgent, SendAccepted, SendFails, Goto, TypeOK
    <3> QED BY <1>a, <3>1 DEF Flow, Clean, Written, Claimed
  <2>12. CASE SendRaises(r)
    <3>1. Clean(r) /\ UNCHANGED table /\ pc'[r] \in {"idle", "finish"}
      BY <1>a, <2>12 DEF SendRaises, ResetLocals, Goto, TypeOK, Flow, Claimed
    <3> QED BY <3>1 DEF Flow, Clean, Written, Claimed
  <2>13. CASE Finish(r) \/ DeadlockVictim(r) \/ Crash(r)
    BY <2>13, EndedFlow
    DEF Finish, DeadlockVictim, Crash, Commit, Rollback, ResetLocals, Goto, TypeOK
  <2> QED
    BY <2>1, <2>2, <2>3, <2>4, <2>5, <2>6, <2>7, <2>8, <2>9, <2>10, <2>11, <2>12, <2>13 DEF Step
<1> QED BY <1>1, <1>2 DEF FlowInv

-----------------------------------------------------------------------------
(* Claims and deliveries.                                                  *)

LEMMA AckStep ==
  ASSUME TypeOK, TableInv, FlowInv, AckPendingAccountedFor, Next
  PROVE  AckPendingAccountedFor'
<1> PICK r \in Sessions : StartIngress(r) \/ StartDispatch(r) \/ Step(r) \/ Crash(r)
  BY DEF Next
<1>a. Flow(r)
  BY DEF FlowInv
<1> USE DEF table, locals, history
<1> SUFFICES ASSUME NEW e \in Ids, queue'[e].status = "ACK_PENDING"
             PROVE  \/ e \in sent' \cup orphans'
                    \/ \E s \in Sessions : pc'[s] \in Claimed /\ cand'[s] = e
  BY DEF AckPendingAccountedFor
<1>1. sent \subseteq sent' /\ orphans \subseteq orphans'
  BY DEF Step, StartIngress, StartDispatch, Cancel, CancelAfterWait, LookupExisting, Insert,
         InsertAfterWait, PutEntry, CheckCapacity, SelectCandidate, Claim, AckPending,
         CommitClaim, Reread, LookupAgent, SendAccepted, SendFails, SendRaises, RecordSent,
         RecordFailed, Finish, DeadlockVictim, Crash
<1>2. CASE CommitClaim(r)
  <2>1. pc[r] = "commit" /\ pc'[r] = "reread" /\ cand' = cand /\ queue'[e] = View(r, e)
    BY <1>2 DEF CommitClaim, Commit, Committed, Goto, TypeOK
  <2>2. CASE Written(r, e)
    BY <1>a, <2>1, <2>2 DEF View, Flow, Claimed
  <2>3. CASE ~Written(r, e)
    <3>1. \A s \in Sessions : pc[s] \in Claimed => s # r
      BY <2>1 DEF Claimed
    <3> QED BY <1>1, <2>1, <2>3, <3>1, Frame DEF View, AckPendingAccountedFor
  <2> QED BY <2>2, <2>3
<1>3. CASE ~CommitClaim(r)
  <2>1. queue[e].status = "ACK_PENDING"
    <3>1. CASE UNCHANGED queue
      BY <3>1
    <3>2. CASE RecordFailed(r)
      BY <1>a, <3>2 DEF RecordFailed, TypeOK, Entry, Flow, Claimed
    <3>3. CASE Finish(r) /\ Commit(r)
      BY <1>a, <3>3 DEF Finish, Commit, Committed, View, Flow
    <3> QED
      BY <1>3, <3>1, <3>2, <3>3
      DEF Step, StartIngress, StartDispatch, Cancel, CancelAfterWait, LookupExisting, Insert,
          InsertAfterWait, PutEntry, CheckCapacity, SelectCandidate, Claim, AckPending, Reread,
          LookupAgent, SendAccepted, SendFails, SendRaises, RecordSent, Finish, DeadlockVictim,
          Crash, Rollback
  <2>2. CASE e \in sent \cup orphans
    BY <1>1, <2>2
  <2>3. ASSUME NEW s \in Sessions, s # r, pc[s] \in Claimed, cand[s] = e
        PROVE  pc'[s] \in Claimed /\ cand'[s] = e
    BY <2>3, Frame
  <2>4. CASE pc[r] \in Claimed /\ cand[r] = e
    <3>1. CASE Reread(r) \/ LookupAgent(r) \/ SendAccepted(r) \/ SendFails(r)
      BY <2>4, <3>1 DEF Reread, LookupAgent, SendAccepted, SendFails, Goto, TypeOK, Claimed
    <3>2. CASE SendRaises(r) \/ Crash(r)
      BY <2>4, <3>2 DEF SendRaises, Crash
    <3>3. CASE RecordSent(r)
      <4>1. sel[r] = e
        BY <1>a, <2>1, <2>4, <3>3 DEF RecordSent, Flow, Claimed
      <4> QED BY <3>3, <4>1 DEF RecordSent
    <3>4. CASE RecordFailed(r)
      <4>1. sel[r] = e
        BY <1>a, <2>1, <2>4, <3>4 DEF RecordFailed, Flow, Claimed
      <4>2. queue'[e].status = "QUEUED"
        BY <2>1, <3>4, <4>1 DEF RecordFailed, TypeOK, Entry
      <4> QED BY <4>2
    <3> QED
      BY <2>4, <3>1, <3>2, <3>3, <3>4
      DEF Claimed, Step, StartIngress, StartDispatch, Cancel, CancelAfterWait, LookupExisting,
          Insert, InsertAfterWait, CheckCapacity, SelectCandidate, Claim, AckPending, CommitClaim,
          Finish, DeadlockVictim
  <2> QED BY <2>1, <2>2, <2>3, <2>4 DEF AckPendingAccountedFor
<1> QED BY <1>2, <1>3

LEMMA DeliveredStep ==
  ASSUME TypeOK, FlowInv, DeliveredIsDurable, Next, Monotone
  PROVE  DeliveredIsDurable'
<1> PICK r \in Sessions : StartIngress(r) \/ StartDispatch(r) \/ Step(r) \/ Crash(r)
  BY DEF Next
<1>1. \A e \in delivered' : e \in delivered \/ (pc[r] = "send" /\ e = sel[r])
  BY DEF Step, StartIngress, StartDispatch, Cancel, CancelAfterWait, LookupExisting, Insert,
         InsertAfterWait, PutEntry, CheckCapacity, SelectCandidate, Claim, AckPending,
         CommitClaim, Reread, LookupAgent, SendAccepted, SendFails, SendRaises, RecordSent,
         RecordFailed, Finish, DeadlockVictim, Crash, Deliver, history
<1>2. pc[r] = "send" => sel[r] \in Ids /\ queue[sel[r]].status # "NONE"
  BY DEF FlowInv, Flow, Claimed
<1> QED
  BY <1>1, <1>2 DEF DeliveredIsDurable, Monotone, TypeOK

-----------------------------------------------------------------------------
(* The theorems.                                                           *)

LEMMA InitIInv == ASSUME Init PROVE IInv
<1> USE DEF Init, NoWrites, NoEntry
<1>1. NoEntry \in Entry /\ NoRequest \in Request
  BY DEF Entry, Statuses, Request, NoRequest
<1>2. TypeOK
  BY <1>1, BoundAssumption DEF TypeOK, Labels, Statuses
<1>3. TableInv
  BY DEF TableInv, LocksExclusive, FreshIds, SameItem, OneLiveEntryPerItem, OneLivePerView,
         NoRival, CancelledUnwritten, View, Written, Live
<1>4. FlowInv
  BY DEF FlowInv, Flow, Clean, Written, Claimed
<1>5. AckPendingAccountedFor /\ DeliveredIsDurable
  BY DEF AckPendingAccountedFor, DeliveredIsDurable
<1> QED BY <1>2, <1>3, <1>4, <1>5 DEF IInv

LEMMA NextIInv == ASSUME IInv, [Next]_vars PROVE IInv' /\ Monotone
<1>1. CASE Next
  BY <1>1, TypeStep, TableStep, FlowStep, AckStep, DeliveredStep DEF IInv
<1>2. CASE UNCHANGED vars
  <2> USE <1>2 DEF vars, table, locals, history
  <2>1. TypeOK'
    BY DEF IInv, TypeOK
  <2>2. TableInv' /\ Monotone
    BY TableUnchanged DEF IInv
  <2>3. FlowInv'
    BY <2>2, OtherFlow DEF IInv, FlowInv
  <2>4. AckPendingAccountedFor' /\ DeliveredIsDurable'
    BY DEF IInv, AckPendingAccountedFor, DeliveredIsDurable
  <2> QED BY <2>1, <2>2, <2>3, <2>4 DEF IInv
<1> QED BY <1>1, <1>2

(* The inductive invariant holds in every reachable state.                 *)
THEOREM Invariance == Spec => []IInv
<1>1. Init => IInv
  BY InitIInv
<1>2. IInv /\ [Next]_vars => IInv'
  BY NextIInv
<1> QED BY <1>1, <1>2, PTL DEF Spec

(* The variables hold what the code can put into them.                     *)
THEOREM TypeCorrect == Spec => []TypeOK
BY Invariance, PTL DEF IInv

(* However many requests race over however many items and agents, no work
   item has two live entries (queue_ingress_service.py, tables.py).        *)
THEOREM OneLiveEntry == Spec => []OneLiveEntryPerItem
BY Invariance, PTL DEF IInv, TableInv

(* Every ACK_PENDING entry has a SENT record, a session at work on it, or a
   session that ended before an outcome (openclaw_dispatch_service.py).    *)
THEOREM ClaimsAccountedFor == Spec => []AckPendingAccountedFor
BY Invariance, PTL DEF IInv

(* What the gateway was given is in the table (try_dispatch_next).         *)
THEOREM DeliveriesDurable == Spec => []DeliveredIsDurable
BY Invariance, PTL DEF IInv

(* No late outcome brings a cancelled entry back (_handle_failure).        *)
THEOREM CancellationsFinal == Spec => CancelledIsFinal
<1>1. IInv /\ [Next]_vars =>
        [\A e \in Ids : queue[e].status = "CANCELLED" => queue'[e] = queue[e]]_vars
  BY NextIInv DEF Monotone
<1> QED BY <1>1, Invariance, PTL DEF Spec, CancelledIsFinal

-----------------------------------------------------------------------------
(* How many entries of an agent are active at once.                        *)

(* What session r has written: at most one cancellation; an active entry
   only to cancel it; its candidate, an entry of the agent it serves.      *)
Writes(r) ==
  /\ \A e, f \in Ids :
       pend[r][e].status = "CANCELLED" /\ pend[r][f].status = "CANCELLED" => e = f
  /\ \A e \in Ids : pend[r][e].status = "DISPATCHING" => pc[r] = "ack" /\ cand[r] = e
  /\ \A e \in Ids : Written(r, e) =>
       /\ queue[e].status \in Active => pend[r][e].status = "CANCELLED"
       /\ queue[e].status # "NONE" => pend[r][e].agent = queue[e].agent
  /\ pc[r] \in {"claim", "ack", "commit"} =>
       View(r, cand[r]).status # "NONE" /\ View(r, cand[r]).agent = req[r].agent

(* The sessions that found agent a idle and may still claim an entry of a,
   its active entries, and those that no such session is about to free.    *)
Claiming    == {"select", "claim", "ack", "commit"}
Passed(a)   == {r \in Sessions : pc[r] \in Claiming /\ req[r].agent = a}
ActiveOf(a) == {e \in Ids : queue[e].agent = a /\ queue[e].status \in Active}
Held(a)     == {e \in ActiveOf(a) : \A r \in Passed(a) : ~Written(r, e)}

CapacityInv ==
  /\ \A r \in Sessions : Writes(r)
  /\ \A a \in Agents : Cardinality(Held(a)) + Cardinality(Passed(a)) <= Cardinality(Sessions)

By(r) == StartIngress(r) \/ StartDispatch(r) \/ Step(r) \/ Crash(r)

(* A step changes the request of its own session only.                     *)
LEMMA RequestFrame ==
  ASSUME TypeOK, NEW r \in Sessions, By(r), NEW s \in Sessions, s # r
  PROVE  req'[s] = req[s]
BY DEF By, Step, TypeOK, StartIngress, StartDispatch, Cancel, CancelAfterWait, LookupExisting,
       Insert, InsertAfterWait, PutEntry, CheckCapacity, SelectCandidate, Claim, AckPending,
       CommitClaim, Reread, LookupAgent, SendAccepted, SendFails, SendRaises, RecordSent,
       RecordFailed, Finish, DeadlockVictim, Crash, ResetLocals, locals

(* The table changes by a commit or by the revert of a failed dispatch.    *)
LEMMA QueueMoves ==
  ASSUME TypeOK, TableInv, FlowInv, NEW r \in Sessions, By(r)
  PROVE  \/ queue' = queue
         \/ CommitClaim(r) /\ queue' = Committed(r)
         \/ Finish(r) /\ queue' = Committed(r)
         \/ /\ RecordFailed(r) /\ sel[r] \in Ids /\ \A s \in Sessions : ~Written(s, sel[r])
            /\ queue' = [queue EXCEPT ![sel[r]].status = "QUEUED"]
<1> USE DEF table
<1>1. CASE CommitClaim(r)
  BY <1>1 DEF CommitClaim, Commit
<1>2. CASE Finish(r)
  BY <1>2 DEF Finish, Commit, Rollback
<1>3. CASE RecordFailed(r)
  BY <1>3 DEF RecordFailed, FlowInv, Flow, Claimed, Clean, Locked
<1> QED
  BY <1>1, <1>2, <1>3
  DEF By, Step, StartIngress, StartDispatch, Cancel, CancelAfterWait, LookupExisting, Insert,
      InsertAfterWait, PutEntry, CheckCapacity, SelectCandidate, Claim, AckPending, Reread,
      LookupAgent, SendAccepted, SendFails, SendRaises, RecordSent, DeadlockVictim, Crash,
      Rollback

(* A row stays, with its agent, and no other session changes a row that a
   session has written, but for putting it back into the queue.            *)
LEMMA RowsKept ==
  ASSUME TypeOK, TableInv, FlowInv, CapacityInv, NEW r \in Sessions, By(r), NEW e \in Ids
  PROVE  /\ queue[e].status # "NONE" =>
              queue'[e].status # "NONE" /\ queue'[e].agent = queue[e].agent
         /\ \A s \in Sessions \ {r} : Written(s, e) => queue'[e] = queue[e]
<1>1. CASE queue' = queue
  BY <1>1
<1>2. CASE queue' = Committed(r)
  <2>1. queue'[e] = View(r, e)
    BY <1>2 DEF Committed
  <2>2. Written(r, e) /\ queue[e].status # "NONE" => pend[r][e].agent = queue[e].agent
    BY DEF CapacityInv, Writes
  <2>3. \A s \in Sessions \ {r} : Written(s, e) => ~Written(r, e)
    BY DEF TableInv, LocksExclusive
  <2> QED BY <2>1, <2>2, <2>3 DEF View, Written
<1>3. CASE /\ sel[r] \in Ids /\ \A s \in Sessions : ~Written(s, sel[r])
           /\ queue' = [queue EXCEPT ![sel[r]].status = "QUEUED"]
  BY <1>3 DEF TypeOK, Entry
<1> QED BY <1>1, <1>2, <1>3, QueueMoves

LEMMA OtherWrites ==
  ASSUME TypeOK, TableInv, FlowInv, CapacityInv, NEW r \in Sessions, By(r),
         NEW s \in Sessions, s # r
  PROVE  Writes(s)'
<1>1. Writes(s)
  BY DEF CapacityInv
<1>2. /\ pend'[s] = pend[s] /\ pc'[s] = pc[s] /\ cand'[s] = cand[s] /\ req'[s] = req[s]
  BY Frame, RequestFrame DEF By
<1>3. \A e \in Ids : Written(s, e)' <=> Written(s, e)
  BY <1>2 DEF Written
<1>4. \A e \in Ids : Written(s, e) => queue'[e] = queue[e]
  BY RowsKept
<1>5. ASSUME pc[s] \in {"claim", "ack", "commit"}
      PROVE  View(s, cand[s])'.status # "NONE" /\ View(s, cand[s])'.agent = req[s].agent
  <2>1. cand[s] \in Ids /\ View(s, cand[s]).status # "NONE" /\ View(s, cand[s]).agent = req[s].agent
    BY <1>1, <1>5 DEF Writes, FlowInv, Flow
  <2>2. CASE Written(s, cand[s])
    BY <1>2, <2>1, <2>2 DEF View, Written
  <2>3. CASE ~Written(s, cand[s])
    <3>1. queue[cand[s]].status # "NONE" /\ queue[cand[s]].agent = req[s].agent
      BY <2>1, <2>3 DEF View
    <3>2. View(s, cand[s])' = queue'[cand[s]]
      BY <1>2, <2>3 DEF View, Written
    <3> QED BY <2>1, <3>1, <3>2, RowsKept
  <2> QED BY <2>2, <2>3
<1> QED BY <1>1, <1>2, <1>3, <1>4, <1>5 DEF Writes

(* A session whose rows and position stay keeps to its writes.             *)
LEMMA QuietWrites ==
  ASSUME TypeOK, NEW r \in Sessions, Writes(r), pend'[r] = pend[r], queue' = queue,
         pc[r] # "ack", pc'[r] \notin {"claim", "ack", "commit"}
  PROVE  Writes(r)'
BY DEF Writes, Written

(* A session without writes, at no candidate, keeps to them.               *)
LEMMA ClearedWrites ==
  ASSUME TypeOK, NEW r \in Sessions, \A e \in Ids : pend'[r][e].status = "NONE",
         pc'[r] \notin {"claim", "ack", "commit"}
  PROVE  Writes(r)'
BY DEF Writes, Written

(* A status written to a row the session sees.                             *)
LEMMA StatusWrites ==
  ASSUME TypeOK, NEW r \in Sessions, NEW e \in Ids, NEW st \in Live \cup {"CANCELLED"},
         Writes(r), SetStatus(r, e, st), queue' = queue,
         View(r, e).status # "NONE",
         st = "CANCELLED" => Clean(r) /\ pc'[r] = "lookup",
         st # "CANCELLED" => /\ View(r, e).status \in {"QUEUED", "DISPATCHING"}
                             /\ pc[r] = "claim" => View(r, e).status = "QUEUED"
                             /\ pc[r] = "ack" => Written(r, e)
                             /\ pc[r] \in {"claim", "ack"} /\ pc'[r] \in {"ack", "commit"}
                             /\ e = cand[r] /\ UNCHANGED <<cand, req>>,
         st = "DISPATCHING" => pc'[r] = "ack" /\ pc[r] = "claim",
         st = "ACK_PENDING" => pc'[r] = "commit" /\ pc[r] = "ack",
         \A f \in Ids : pend[r][f].status = "DISPATCHING" => f = e
  PROVE  Writes(r)'
<1>1. /\ pend'[r][e].status = st /\ pend'[r][e].agent = View(r, e).agent
      /\ \A f \in Ids \ {e} : pend'[r][f] = pend[r][f]
  BY ViewType DEF SetStatus, TypeOK, Entry
<1>2. \A f \in Ids : Written(r, f)' <=> Written(r, f) \/ f = e
  BY <1>1 DEF Written, Live
<1>3. View(r, e)'.status # "NONE" /\ View(r, e)'.agent = View(r, e).agent
  BY <1>1 DEF View, Written, Live
<1>4. View(r, e).agent = queue[e].agent \/ (Written(r, e) /\ View(r, e) = pend[r][e])
  BY DEF View
<1>5. \A f, g \in Ids :
        pend'[r][f].status = "CANCELLED" /\ pend'[r][g].status = "CANCELLED" => f = g
  BY <1>1 DEF Writes, Clean, Written, Live
<1>6. \A f \in Ids : pend'[r][f].status = "DISPATCHING" => pc'[r] = "ack" /\ cand'[r] = f
  BY <1>1 DEF Writes, Live
<1>7. \A f \in Ids : Written(r, f)' =>
        /\ queue[f].status \in Active => pend'[r][f].status = "CANCELLED"
        /\ queue[f].status # "NONE" => pend'[r][f].agent = queue[f].agent
  <2> SUFFICES ASSUME NEW f \in Ids, Written(r, f)'
               PROVE  /\ queue[f].status \in Active => pend'[r][f].status = "CANCELLED"
                      /\ queue[f].status # "NONE" => pend'[r][f].agent = queue[f].agent
    OBVIOUS
  <2>1. CASE f # e
    BY <1>1, <1>2, <2>1 DEF Writes
  <2>2. CASE f = e
    <3>1. queue[e].status # "NONE" => pend'[r][e].agent = queue[e].agent
      BY <1>1, <1>4 DEF Writes
    <3>2. CASE st = "CANCELLED"
      BY <1>1, <2>2, <3>1, <3>2
    <3>3. CASE st # "CANCELLED" /\ Written(r, e)
      BY <2>2, <3>1, <3>3 DEF Writes, View
    <3>4. CASE st # "CANCELLED" /\ ~Written(r, e)
      BY <2>2, <3>1, <3>4 DEF View, Active, Live
    <3> QED BY <3>2, <3>3, <3>4
  <2> QED BY <2>1, <2>2
<1>8. pc'[r] \in {"claim", "ack", "commit"} =>
        View(r, cand[r])'.status # "NONE" /\ View(r, cand[r])'.agent = req'[r].agent
  BY <1>3 DEF Writes, Live
<1>9. st = "CANCELLED" => pc'[r] \notin {"claim", "ack", "commit"}
  OBVIOUS
<1>10. pc'[r] \in {"claim", "ack", "commit"} => cand' = cand
  BY DEF Live
<1> QED BY <1>1, <1>5, <1>6, <1>7, <1>8, <1>10 DEF Writes

(* The session that takes the step keeps to its writes, too.               *)
LEMMA OwnWrites ==
  ASSUME TypeOK, TableInv, FlowInv, CapacityInv, NEW r \in Sessions, By(r)
  PROVE  Writes(r)'
<1> USE DEF table, locals, history
<1>a. Writes(r) /\ Flow(r)
  BY DEF CapacityInv, FlowInv
<1>b. \A l \in Labels : Goto(r, l) => pc'[r] = l
  BY DEF Goto, TypeOK
<1>c. ResetLocals(r) => pc'[r] = "idle"
  BY DEF ResetLocals, Goto, TypeOK
<1>d. Discard(r) => \A e \in Ids : pend'[r][e].status = "NONE"
  BY DEF Discard, NoWrites, NoEntry, TypeOK
<1>1. CASE StartIngress(r)
  <2>1. pc[r] = "idle" /\ pc'[r] \in {"cancel", "lookup"} /\ pend' = pend /\ queue' = queue
    BY <1>1, <1>b DEF StartIngress, Labels, BeforeInsert
  <2> QED BY <1>a, <2>1, QuietWrites
<1>2. CASE StartDispatch(r) \/ LookupExisting(r) \/ CheckCapacity(r)
  <2>1. pc[r] \in {"idle", "lookup", "capacity"} /\ pend' = pend /\ queue' = queue
    BY <1>2 DEF StartDispatch, LookupExisting, CheckCapacity
  <2>2. pc'[r] \in {"capacity", "finish", "insert", "select"}
    BY <1>2, <1>b DEF StartDispatch, LookupExisting, CheckCapacity, Labels, BeforeInsert
  <2> QED BY <1>a, <2>1, <2>2, QuietWrites
<1>3. CASE Cancel(r)
  <2>1. pc[r] = "cancel" /\ pc'[r] \in {"lookup", "cancel_wait"} /\ queue' = queue
    BY <1>3, <1>b DEF Cancel, Labels, BeforeInsert
  <2>2. CASE pend' = pend
    BY <1>a, <2>1, <2>2, QuietWrites
  <2>3. CASE \E e \in LiveOf(r, req[r].item) : SetStatus(r, e, "CANCELLED") /\ pc'[r] = "lookup"
    <3>1. PICK e \in LiveOf(r, req[r].item) : SetStatus(r, e, "CANCELLED") /\ pc'[r] = "lookup"
      BY <2>3
    <3>2. e \in Ids /\ View(r, e).status # "NONE"
      BY DEF LiveOf, Live
    <3>3. Clean(r)
      BY <1>a, <2>1 DEF Flow
    <3> QED BY <1>a, <2>1, <3>1, <3>2, <3>3, StatusWrites DEF Clean, Written
  <2> QED BY <1>3, <1>b, <2>2, <2>3 DEF Cancel, Labels, BeforeInsert
<1>4. CASE CancelAfterWait(r)
  <2>1. pc[r] = "cancel_wait" /\ pc'[r] = "lookup" /\ queue' = queue
    BY <1>4, <1>b DEF CancelAfterWait, Labels, BeforeInsert
  <2>2. Clean(r) /\ snap[r] \in Ids
    BY <1>a, <2>1 DEF Flow
  <2>3. CASE pend' = pend
    BY <1>a, <2>1, <2>3, QuietWrites
  <2>4. CASE SetStatus(r, snap[r], "CANCELLED") /\ queue[snap[r]].status \in Live
    <3>1. View(r, snap[r]).status # "NONE"
      BY <2>2, <2>4 DEF View, Live, Clean
    <3> QED BY <1>a, <2>1, <2>2, <2>4, <3>1, StatusWrites DEF Clean, Written
  <2> QED BY <1>4, <2>3, <2>4 DEF CancelAfterWait
<1>5. CASE Insert(r) \/ InsertAfterWait(r)
  <2>1. CASE pend' = pend /\ queue' = queue /\ pc'[r] = "insert_wait"
    BY <1>5, <1>a, <2>1, QuietWrites DEF Insert, InsertAfterWait
  <2>2. CASE Rollback(r) /\ ResetLocals(r)
    BY <1>c, <1>d, <2>2, ClearedWrites DEF Rollback
  <2>3. ASSUME NEW p, PutEntry(r, p)
        PROVE  Writes(r)'
    <3>1. nextId \in Ids /\ queue[nextId].status = "NONE" /\ pend[r][nextId].status = "NONE"
      BY <2>3 DEF PutEntry, TypeOK, Ids, TableInv, FreshIds, Written
    <3>2. /\ pend'[r][nextId].status = "QUEUED" /\ queue' = queue
          /\ \A f \in Ids \ {nextId} : pend'[r][f] = pend[r][f]
      BY <2>3, <3>1 DEF PutEntry, TypeOK
    <3>3. pc[r] \in {"insert", "insert_wait"} /\ pc'[r] = "capacity"
      BY <1>5, <1>b, <2>3 DEF Insert, InsertAfterWait, PutEntry, Labels
    <3>4. \A f \in Ids : Written(r, f)' => Written(r, f) \/ f = nextId
      BY <3>2 DEF Written
    <3> QED BY <1>a, <3>1, <3>2, <3>3, <3>4 DEF Writes, Active
  <2>4. \/ pend' = pend /\ queue' = queue /\ pc'[r] = "insert_wait"
        \/ Rollback(r) /\ ResetLocals(r)
        \/ \E p \in Nat : PutEntry(r, p)
    <3>1. CASE Insert(r)
      BY <3>1, <1>b DEF Insert, Labels, BeforeInsert
    <3>2. CASE InsertAfterWait(r)
      BY <3>2 DEF InsertAfterWait, TypeOK
    <3> QED BY <1>5, <3>1, <3>2
  <2> QED BY <2>1, <2>2, <2>3, <2>4
<1>6. CASE SelectCandidate(r)
  <2>1. pc[r] = "select" /\ pend' = pend /\ queue' = queue /\ req' = req
    BY <1>6 DEF SelectCandidate
  <2>2. CASE pc'[r] = "finish"
    BY <1>a, <2>1, <2>2, QuietWrites
  <2>3. CASE pc'[r] = "claim" /\ \E e \in OldestQueued(r, req[r].agent) : cand'[r] = e
    <3>1. View(r, cand'[r]).status = "QUEUED" /\ View(r, cand'[r]).agent = req[r].agent
      BY <2>3 DEF OldestQueued, QueuedFor
    <3>2. \A e \in Ids : View(r, e)' = View(r, e)
      BY <2>1 DEF View, Written
    <3>3. cand'[r] \in Ids
      BY <2>3 DEF OldestQueued, QueuedFor
    <3> QED BY <1>a, <2>1, <2>3, <3>1, <3>2, <3>3 DEF Writes, Written
  <2> QED BY <1>6, <1>b, <2>2, <2>3 DEF SelectCandidate, Labels, TypeOK
<1>7. CASE Claim(r)
  <2>1. pc[r] = "claim" /\ queue' = queue /\ cand[r] \in Ids
    BY <1>7, <1>a DEF Claim, Flow
  <2>2. CASE pend' = pend /\ pc'[r] = "finish"
    BY <1>a, <2>1, <2>2, QuietWrites
  <2>3. CASE /\ View(r, cand[r]).status = "QUEUED" /\ pc'[r] = "ack"
             /\ SetStatus(r, cand[r], "DISPATCHING") /\ UNCHANGED <<cand, req>>
    <3>1. \A f \in Ids : pend[r][f].status # "DISPATCHING"
      BY <1>a, <2>1 DEF Writes
    <3> QED BY <1>a, <2>1, <2>3, <3>1, StatusWrites DEF Live
  <2> QED BY <1>7, <1>b, <2>2, <2>3 DEF Claim, Labels
<1>8. CASE AckPending(r)
  <2>1. pc[r] = "ack" /\ queue' = queue /\ cand[r] \in Ids
        /\ pend[r][cand[r]].status = "DISPATCHING"
    BY <1>8, <1>a DEF AckPending, Flow
  <2>2. Written(r, cand[r]) /\ View(r, cand[r]).status = "DISPATCHING"
    BY <2>1 DEF View, Written
  <2>3. pc'[r] = "commit" /\ SetStatus(r, cand[r], "ACK_PENDING") /\ UNCHANGED <<cand, req>>
    BY <1>8, <1>b, <2>2 DEF AckPending, Labels
  <2>4. \A f \in Ids : pend[r][f].status = "DISPATCHING" => f = cand[r]
    BY <1>a DEF Writes
  <2> QED BY <1>a, <2>1, <2>2, <2>3, <2>4, StatusWrites DEF Live
<1>9. CASE CommitClaim(r) \/ Finish(r) \/ Crash(r) \/ DeadlockVictim(r)
  <2>1. Discard(r)
    BY <1>9 DEF CommitClaim, Finish, Crash, DeadlockVictim, Commit, Rollback
  <2>2. pc'[r] \in {"reread", "idle", "finish"}
    BY <1>9, <1>b, <1>c DEF CommitClaim, Finish, Crash, DeadlockVictim, Labels, Claimed
  <2> QED BY <1>d, <2>1, <2>2, ClearedWrites
<1>10. CASE RecordFailed(r)
  <2>1. pc[r] = "record_failed" /\ pend' = pend /\ pc'[r] = "finish"
    BY <1>10, <1>b DEF RecordFailed, Labels
  <2> QED BY <1>a, <2>1, ClearedWrites DEF Flow, Claimed, Clean, Written
<1>11. CASE \/ Reread(r) \/ LookupAgent(r) \/ SendAccepted(r) \/ SendFails(r)
            \/ SendRaises(r) \/ RecordSent(r)
  <2>1. pc[r] \in Claimed /\ pend' = pend /\ queue' = queue
    BY <1>11 DEF Reread, LookupAgent, SendAccepted, SendFails, SendRaises, RecordSent, Claimed
  <2>2. pc'[r] \in Claimed \cup {"idle", "finish"}
    BY <1>11, <1>b, <1>c
    DEF Reread, LookupAgent, SendAccepted, SendFails, SendRaises, RecordSent, Claimed, Labels
  <2> QED BY <1>a, <2>1, <2>2, QuietWrites DEF Claimed
<1> QED
  BY <1>1, <1>2, <1>3, <1>4, <1>5, <1>6, <1>7, <1>8, <1>9, <1>10, <1>11 DEF By, Step

(* Between the capacity check and the commit of the claim a session's
   request and the table stay, and its writes only grow.                   *)
LEMMA ClaimingStays ==
  ASSUME TypeOK, TableInv, FlowInv, CapacityInv, NEW r \in Sessions, By(r),
         pc'[r] \in Claiming
  PROVE  /\ queue' = queue /\ req'[r] = req[r]
         /\ \A e \in Ids : Written(r, e) => Written(r, e)'
         /\ pc[r] \notin Claiming =>
              pend' = pend /\ ~HasActiveItem(r, req[r].agent)
<1> USE DEF table, locals, history, Claiming
<1>b. \A l \in Labels : Goto(r, l) => pc'[r] = l
  BY DEF Goto, TypeOK
<1>c. ResetLocals(r) => pc'[r] = "idle"
  BY DEF ResetLocals, Goto, TypeOK
<1>1. CASE CheckCapacity(r)
  BY <1>1, <1>b DEF CheckCapacity, Labels, Written
<1>2. CASE SelectCandidate(r)
  BY <1>2 DEF SelectCandidate, Written
<1>3. CASE Claim(r) \/ AckPending(r)
  <2>1. pc[r] \in Claiming /\ queue' = queue /\ req' = req
    BY <1>3 DEF Claim, AckPending
  <2>2. pend' = pend \/ SetStatus(r, cand[r], "DISPATCHING") \/ SetStatus(r, cand[r], "ACK_PENDING")
    BY <1>3 DEF Claim, AckPending
  <2>3. cand[r] \in Ids
    BY <1>3 DEF Claim, AckPending, FlowInv, Flow
  <2>4. View(r, cand[r]) \in Entry
    BY <2>3, ViewType
  <2>5. ASSUME NEW st \in {"DISPATCHING", "ACK_PENDING"}, SetStatus(r, cand[r], st)
        PROVE  \A e \in Ids : Written(r, e) => Written(r, e)'
    <3>1. /\ pend'[r][cand[r]].status = st
          /\ \A e \in Ids \ {cand[r]} : pend'[r][e] = pend[r][e]
      BY <2>3, <2>4, <2>5 DEF SetStatus, TypeOK, Entry
    <3> QED BY <3>1 DEF Written
  <2>6. \A e \in Ids : Written(r, e) => Written(r, e)'
    BY <2>2, <2>5 DEF Written
  <2> QED BY <2>1, <2>6
<1>4. CASE StartIngress(r) \/ StartDispatch(r) \/ Crash(r)
  BY <1>4, <1>b, <1>c DEF StartIngress, StartDispatch, Crash, Labels, BeforeInsert
<1>5. CASE Cancel(r) \/ CancelAfterWait(r) \/ LookupExisting(r)
  BY <1>5, <1>b DEF Cancel, CancelAfterWait, LookupExisting, Labels, BeforeInsert
<1>6. CASE Insert(r) \/ InsertAfterWait(r)
  BY <1>6, <1>b, <1>c DEF Insert, InsertAfterWait, PutEntry, Labels, BeforeInsert
<1>7. CASE CommitClaim(r) \/ Reread(r) \/ LookupAgent(r) \/ SendAccepted(r) \/ SendFails(r)
  BY <1>7, <1>b DEF CommitClaim, Reread, LookupAgent, SendAccepted, SendFails, Labels, Claimed
<1>8. CASE SendRaises(r) \/ RecordSent(r) \/ RecordFailed(r) \/ Finish(r) \/ DeadlockVictim(r)
  BY <1>8, <1>b, <1>c DEF SendRaises, RecordSent, RecordFailed, Finish, DeadlockVictim, Labels
<1> QED
  BY <1>1, <1>2, <1>3, <1>4, <1>5, <1>6, <1>7, <1>8 DEF By, Step

(* The only entry that becomes active is the candidate of a claim that is
   committed, and that commit leaves no other entry the session has written
   active.                                                                 *)
LEMMA ActiveMoves ==
  ASSUME TypeOK, TableInv, FlowInv, CapacityInv, NEW r \in Sessions, By(r), NEW a \in Agents,
         NEW e \in ActiveOf(a)'
  PROVE  \/ e \in ActiveOf(a) /\ (queue' = queue \/ ~Written(r, e))
         \/ pc[r] = "commit" /\ req[r].agent = a /\ e = cand[r]
<1>0. e \in Ids /\ queue'[e].agent = a /\ queue'[e].status \in Active
  BY DEF ActiveOf
<1>a. Writes(r) /\ Flow(r)
  BY DEF CapacityInv, FlowInv
<1>1. CASE queue' = queue
  BY <1>0, <1>1 DEF ActiveOf
<1>2. CASE (CommitClaim(r) \/ Finish(r)) /\ queue' = Committed(r)
  <2>1. queue'[e] = View(r, e) /\ pc[r] \in {"commit", "finish"}
    BY <1>0, <1>2 DEF Committed, CommitClaim, Finish
  <2>2. CASE ~Written(r, e)
    BY <1>0, <2>1, <2>2 DEF View, ActiveOf
  <2>3. CASE Written(r, e)
    <3>1. pend[r][e].status \in Active
      BY <1>0, <2>1, <2>3 DEF View
    <3>2. pc[r] = "commit" /\ cand[r] = e
      BY <1>0, <1>a, <2>1, <3>1 DEF Writes, Flow, Active
    <3> QED BY <1>0, <1>a, <2>1, <3>2 DEF Writes
  <2> QED BY <2>2, <2>3
<1>3. CASE /\ sel[r] \in Ids /\ \A s \in Sessions : ~Written(s, sel[r])
           /\ queue' = [queue EXCEPT ![sel[r]].status = "QUEUED"]
  <2>1. e # sel[r]
    BY <1>0, <1>3 DEF Active, TypeOK, Entry
  <2>2. queue'[e] = queue[e]
    BY <1>0, <1>3, <2>1 DEF TypeOK
  <2>3. ~Written(r, e) \/ pc[r] # "record_failed"
    BY <1>0, <1>a DEF Flow, Claimed, Clean
  <2>4. pc[r] = "record_failed" \/ queue' = queue \/ CommitClaim(r) \/ Finish(r)
    BY QueueMoves DEF RecordFailed
  <2> QED BY <1>0, <1>1, <1>2, <2>2, <2>3, <2>4, QueueMoves DEF ActiveOf, RecordFailed
<1> QED BY <1>1, <1>2, <1>3, QueueMoves

(* How the entries of an agent and the sessions at its capacity move.      *)
LEMMA CapacityMoves ==
  ASSUME TypeOK, TableInv, FlowInv, CapacityInv, NEW r \in Sessions, By(r), NEW a \in Agents
  PROVE  \/ Passed(a)' = Passed(a) /\ Held(a)' \subseteq Held(a)
         \/ /\ r \in Passed(a) /\ Passed(a)' = Passed(a) \ {r}
            /\ \E x : Held(a)' \subseteq Held(a) \cup {x}
         \/ Held(a)' = {}
<1>a. Writes(r) /\ Flow(r)
  BY DEF CapacityInv, FlowInv
<1>b. \A s \in Sessions \ {r} :
        /\ s \in Passed(a)' <=> s \in Passed(a)
        /\ \A e \in Ids : Written(s, e)' <=> Written(s, e)
  BY Frame, RequestFrame DEF By, Passed, Written
<1>c. ASSUME NEW e \in Held(a)'
      PROVE  /\ e \in Ids /\ e \in ActiveOf(a)' /\ \A s \in Passed(a)' : ~Written(s, e)'
             /\ \A s \in Passed(a) \ {r} : ~Written(s, e)
  BY <1>b DEF Held, ActiveOf, Passed
<1>1. CASE r \notin Passed(a) /\ r \notin Passed(a)'
  <2>1. Passed(a)' = Passed(a)
    BY <1>b, <1>1 DEF Passed
  <2>2. ASSUME NEW e \in Held(a)' PROVE e \in Held(a)
    <3>1. e \in ActiveOf(a)
      BY <1>1, <1>c, ActiveMoves DEF Passed, Claiming
    <3> QED BY <1>1, <1>c, <3>1 DEF Held
  <2> QED BY <2>1, <2>2
<1>2. CASE r \in Passed(a) /\ r \in Passed(a)'
  <2>1. Passed(a)' = Passed(a)
    BY <1>b, <1>2 DEF Passed
  <2>2. queue' = queue /\ \A e \in Ids : Written(r, e) => Written(r, e)'
    BY <1>2, ClaimingStays DEF Passed
  <2>3. ASSUME NEW e \in Held(a)' PROVE e \in Held(a)
    <3>1. e \in ActiveOf(a)
      BY <1>c, <2>2 DEF ActiveOf
    <3> QED BY <1>2, <1>c, <2>2, <3>1 DEF Held
  <2> QED BY <2>1, <2>3
<1>3. CASE r \in Passed(a) /\ r \notin Passed(a)'
  <2>1. Passed(a)' = Passed(a) \ {r}
    BY <1>b, <1>3 DEF Passed
  <2>2. CASE queue' = queue
    <3>1. \E x : \A e \in Ids : Written(r, e) /\ queue[e].status \in Active => e = x
      <4>1. CASE \E x \in Ids : Written(r, x) /\ queue[x].status \in Active
        <5>1. PICK x \in Ids : Written(r, x) /\ queue[x].status \in Active
          BY <4>1
        <5>2. \A e \in Ids : Written(r, e) /\ queue[e].status \in Active => e = x
          BY <1>a, <5>1 DEF Writes
        <5> QED BY <5>2
      <4> QED BY <4>1
    <3>2. PICK x : \A e \in Ids : Written(r, e) /\ queue[e].status \in Active => e = x
      BY <3>1
    <3>3. ASSUME NEW e \in Held(a)' PROVE e \in Held(a) \cup {x}
      <4>1. e \in ActiveOf(a)
        BY <1>c, <2>2 DEF ActiveOf
      <4> QED BY <1>c, <3>2, <4>1 DEF Held, ActiveOf
    <3> QED BY <1>3, <2>1, <3>3
  <2>3. CASE queue' # queue
    <3>1. ASSUME NEW e \in Held(a)' PROVE e \in Held(a) \cup {cand[r]}
      <4>1. (e \in ActiveOf(a) /\ ~Written(r, e)) \/ e = cand[r]
        BY <1>c, <2>3, ActiveMoves
      <4> QED BY <1>c, <4>1 DEF Held
    <3> QED BY <1>3, <2>1, <3>1
  <2> QED BY <2>2, <2>3
<1>4. CASE r \notin Passed(a) /\ r \in Passed(a)'
  <2>1. queue' = queue /\ req'[r] = req[r]
    BY <1>4, ClaimingStays DEF Passed
  <2>2. pend' = pend /\ ~HasActiveItem(r, a)
    BY <1>4, <2>1, ClaimingStays DEF Passed
  <2>3. ASSUME NEW e \in Held(a)' PROVE FALSE
    BY <1>4, <1>c, <2>1, <2>2 DEF HasActiveItem, View, ActiveOf, Written
  <2> QED BY <2>3
<1> QED BY <1>1, <1>2, <1>3, <1>4

LEMMA Finite ==
  ASSUME IsFiniteSet(Sessions), NEW a \in Agents
  PROVE  /\ IsFiniteSet(ActiveOf(a)) /\ IsFiniteSet(Held(a)) /\ IsFiniteSet(Passed(a))
         /\ Cardinality(ActiveOf(a)) \in Nat /\ Cardinality(Held(a)) \in Nat
         /\ Cardinality(Passed(a)) \in Nat /\ Cardinality(Sessions) \in Nat
         /\ Cardinality(Passed(a)) <= Cardinality(Sessions)
<1>1. IsFiniteSet(Ids)
  BY BoundAssumption, FS_Interval DEF Ids
<1>2. ActiveOf(a) \in SUBSET Ids /\ Held(a) \in SUBSET ActiveOf(a)
      /\ Passed(a) \in SUBSET Sessions
  BY DEF ActiveOf, Held, Passed
<1> HIDE DEF Ids, ActiveOf, Held, Passed
<1>3. IsFiniteSet(ActiveOf(a)) /\ IsFiniteSet(Passed(a))
      /\ Cardinality(Passed(a)) <= Cardinality(Sessions)
  BY <1>1, <1>2, FS_Subset
<1>4. IsFiniteSet(Held(a))
  BY <1>2, <1>3, FS_Subset
<1> QED BY <1>3, <1>4, FS_CardinalityType

(* Entries held and sessions still claiming together stay within the number
   of sessions.                                                            *)
LEMMA CapacityStep ==
  ASSUME IsFiniteSet(Sessions), TypeOK, TableInv, FlowInv, CapacityInv,
         NEW r \in Sessions, By(r)
  PROVE  CapacityInv'
<1>1. \A s \in Sessions : Writes(s)'
  BY OwnWrites, OtherWrites
<1>2. ASSUME NEW a \in Agents
      PROVE  Cardinality(Held(a)') + Cardinality(Passed(a)') <= Cardinality(Sessions)
  <2>1. Cardinality(Held(a)) + Cardinality(Passed(a)) <= Cardinality(Sessions)
    BY DEF CapacityInv
  <2>2. \/ Passed(a)' = Passed(a) /\ Held(a)' \subseteq Held(a)
        \/ /\ r \in Passed(a) /\ Passed(a)' = Passed(a) \ {r}
           /\ \E x : Held(a)' \subseteq Held(a) \cup {x}
        \/ Held(a)' = {}
    BY CapacityMoves
  <2>3. /\ IsFiniteSet(Held(a)) /\ IsFiniteSet(Passed(a))
        /\ Cardinality(Held(a)) \in Nat /\ Cardinality(Passed(a)) \in Nat
        /\ Cardinality(Sessions) \in Nat
    BY Finite
  <2>4. Passed(a)' \in SUBSET Sessions
    BY DEF Passed
  <2> DEFINE H == Held(a)  P == Passed(a)  HH == Held(a)'  PP == Passed(a)'
  <2>5. /\ IsFiniteSet(PP) /\ Cardinality(PP) \in Nat /\ Cardinality(PP) <= Cardinality(Sessions)
    BY <2>4, FS_Subset, FS_CardinalityType
  <2> HIDE DEF H, P, HH, PP
  <2>6. CASE PP = P /\ HH \subseteq H
    <3>1. Cardinality(HH) <= Cardinality(H) /\ Cardinality(HH) \in Nat
      BY <2>3, <2>6, FS_Subset, FS_CardinalityType DEF H
    <3> QED BY <2>1, <2>3, <2>6, <3>1 DEF H, P, HH, PP
  <2>7. CASE r \in P /\ PP = P \ {r} /\ \E x : HH \subseteq H \cup {x}
    <3>1. PICK x : HH \subseteq H \cup {x}
      BY <2>7
    <3>2. IsFiniteSet(H \cup {x}) /\ Cardinality(H \cup {x}) <= Cardinality(H) + 1
          /\ Cardinality(H \cup {x}) \in Nat
      <4>1. IsFiniteSet(H) /\ Cardinality(H) \in Nat
        BY <2>3 DEF H
      <4>2. /\ IsFiniteSet(H \cup {x})
            /\ Cardinality(H \cup {x}) = IF x \in H THEN Cardinality(H) ELSE Cardinality(H) + 1
        BY <4>1, FS_AddElement
      <4> QED BY <4>1, <4>2
    <3>3. Cardinality(HH) <= Cardinality(H \cup {x}) /\ Cardinality(HH) \in Nat
      BY <3>1, <3>2, FS_Subset, FS_CardinalityType
    <3>4. Cardinality(PP) = Cardinality(P) - 1
      BY <2>3, <2>7, FS_RemoveElement DEF P
    <3> QED BY <2>1, <2>3, <2>5, <3>2, <3>3, <3>4 DEF H, P, HH, PP
  <2>8. CASE HH = {}
    <3>1. Cardinality(HH) = 0
      BY <2>8, FS_EmptySet
    <3> QED BY <2>3, <2>5, <3>1 DEF HH, PP
  <2> QED BY <2>2, <2>6, <2>7, <2>8 DEF H, P, HH, PP
<1> QED BY <1>1, <1>2 DEF CapacityInv

LEMMA CapacityInit ==
  ASSUME IsFiniteSet(Sessions), Init
  PROVE  CapacityInv
<1>1. \A r \in Sessions : Writes(r)
  BY DEF Init, NoWrites, NoEntry, Writes, Written
<1>2. ASSUME NEW a \in Agents
      PROVE  Cardinality(Held(a)) + Cardinality(Passed(a)) <= Cardinality(Sessions)
  <2>1. Held(a) = {}
    BY DEF Init, NoWrites, NoEntry, Held, ActiveOf, Active
  <2>2. Passed(a) = {}
    BY DEF Init, Passed, Claiming
  <2>3. Cardinality(Sessions) \in Nat
    BY FS_CardinalityType
  <2> QED BY <2>1, <2>2, <2>3, FS_EmptySet
<1> QED BY <1>1, <1>2 DEF CapacityInv

(* An agent's active entries that are not held are each about to be
   cancelled by a session of their own.                                    *)
LEMMA CapacityBound ==
  ASSUME IsFiniteSet(Sessions), CapacityInv
  PROVE  CapacityBoundedBySessions
<1> SUFFICES ASSUME NEW a \in Agents
             PROVE  Cardinality(ActiveOf(a)) <= Cardinality(Sessions)
  BY DEF CapacityBoundedBySessions, ActiveOf
<1> DEFINE Leaving == ActiveOf(a) \ Held(a)
           writer  == [e \in Leaving |-> CHOOSE r \in Passed(a) : Written(r, e)]
<1>1. \A e \in Leaving : writer[e] \in Passed(a) /\ Written(writer[e], e)
  BY DEF Held
<1>2. \A e, f \in Leaving : writer[e] = writer[f] => e = f
  <2> SUFFICES ASSUME NEW e \in Leaving, NEW f \in Leaving, writer[e] = writer[f]
               PROVE  e = f
    OBVIOUS
  <2>1. PICK r \in Sessions : r = writer[e] /\ Written(r, e) /\ Written(r, f)
    BY <1>1 DEF Passed
  <2>2. e \in Ids /\ f \in Ids /\ queue[e].status \in Active /\ queue[f].status \in Active
    BY DEF ActiveOf
  <2> QED BY <2>1, <2>2 DEF CapacityInv, Writes
<1> HIDE DEF writer
<1>3. writer \in Injection(Leaving, Passed(a))
  <2>1. writer \in [Leaving -> Passed(a)]
    BY <1>1 DEF writer
  <2> QED BY <1>2, <2>1 DEF Injection, IsInjective
<1>4. IsFiniteSet(Leaving) /\ Cardinality(Leaving) <= Cardinality(Passed(a))
      /\ Cardinality(Leaving) \in Nat
  <2> HIDE DEF Leaving
  <2> QED BY <1>3, Finite, FS_Injection, FS_CardinalityType
<1>5. ActiveOf(a) = Held(a) \cup Leaving /\ Held(a) \cap Leaving = {}
  BY DEF Held
<1>6. Cardinality(ActiveOf(a)) = Cardinality(Held(a)) + Cardinality(Leaving)
  <2> HIDE DEF Leaving
  <2>1. Cardinality(Held(a) \cup Leaving) =
          Cardinality(Held(a)) + Cardinality(Leaving) - Cardinality(Held(a) \cap Leaving)
    BY <1>4, Finite, FS_Union
  <2>2. Cardinality(Held(a) \cap Leaving) = 0
    BY <1>5, FS_EmptySet
  <2>3. Cardinality(Held(a)) \in Nat
    BY Finite
  <2> QED BY <1>4, <1>5, <2>1, <2>2, <2>3
<1>7. Cardinality(Held(a)) + Cardinality(Passed(a)) <= Cardinality(Sessions)
  BY DEF CapacityInv
<1> HIDE DEF Leaving
<1> QED BY <1>4, <1>6, <1>7, Finite

(* With any finite number of requests racing, in whatever order their
   capacity checks, claims, cancellations and deaths interleave, an agent
   has at most as many active entries as there are sessions: one when
   requests come one at a time (queue_dispatch_service.py).                *)
THEOREM CapacityBounded ==
  ASSUME IsFiniteSet(Sessions) PROVE Spec => []CapacityBoundedBySessions
<1>1. Init => CapacityInv
  BY CapacityInit
<1>2. IInv /\ CapacityInv /\ [Next]_vars => CapacityInv'
  <2> SUFFICES ASSUME IInv, CapacityInv, [Next]_vars PROVE CapacityInv'
    OBVIOUS
  <2>1. CASE Next
    <3>1. PICK r \in Sessions : By(r)
      BY <2>1 DEF Next, By
    <3> QED BY <3>1, CapacityStep DEF IInv
  <2>2. CASE UNCHANGED vars
    BY <2>2
    DEF vars, table, locals, CapacityInv, Writes, View, Written, Held, ActiveOf, Passed
  <2> QED BY <2>1, <2>2
<1>3. CapacityInv => CapacityBoundedBySessions
  BY CapacityBound
<1> QED BY <1>1, <1>2, <1>3, Invariance, PTL DEF Spec

-----------------------------------------------------------------------------
(* Requests that come one at a time: the oldest entry goes first.          *)

(* The entries in line: those the session sees queued, and the one it has
   claimed, which a failure puts back.                                     *)
Line(r) == {e \in Ids : \/ View(r, e).status = "QUEUED"
                        \/ e = cand[r] /\ pc[r] \in {"ack", "commit"} \cup Claimed}

(* An agent's entries in line have their positions in the order of their
   insertion, and so have those a rollback would leave; a session alone
   waits for nobody, and its claim stays until the outcome.                *)
LineInOrder(r) ==
  \A e, f \in Line(r) :
    View(r, e).agent = View(r, f).agent /\ e < f => View(r, e).pos < View(r, f).pos
TableInOrder ==
  \A e, f \in Ids :
    /\ queue[e].status = "QUEUED" /\ queue[f].status = "QUEUED"
    /\ queue[e].agent = queue[f].agent /\ e < f
    => queue[e].pos < queue[f].pos
OrderInv(r) ==
  /\ pc[r] \notin {"cancel_wait", "insert_wait"}
  /\ pc[r] \in Claimed => queue[cand[r]].status = "ACK_PENDING"
  /\ LineInOrder(r) /\ TableInOrder

(* The line stays in order if no entry joins it or moves.                  *)
LEMMA LineKept ==
  ASSUME NEW r, LineInOrder(r),
         \A e \in Ids : e \in Line(r)' =>
           e \in Line(r) /\ View(r, e)'.agent = View(r, e).agent /\ View(r, e)'.pos = View(r, e).pos
  PROVE  LineInOrder(r)'
<1>1. \A e \in Line(r)' : e \in Ids
  BY DEF Line
<1> QED BY <1>1 DEF LineInOrder

(* A session that writes nothing.                                          *)
LEMMA QuietOrder ==
  ASSUME NEW r, OrderInv(r), pend' = pend, queue' = queue,
         pc'[r] \notin {"cancel_wait", "insert_wait"},
         pc'[r] \in {"ack", "commit"} \cup Claimed =>
           cand'[r] = cand[r] /\ pc[r] \in {"ack", "commit"} \cup Claimed,
         pc'[r] \in Claimed => pc[r] \in Claimed
  PROVE  OrderInv(r)'
<1>1. \A e : View(r, e)' = View(r, e)
  BY DEF View, Written
<1>2. LineInOrder(r)'
  BY <1>1, LineKept DEF OrderInv, Line
<1> QED BY <1>2 DEF OrderInv, TableInOrder, Claimed

(* A rollback leaves the committed rows.                                   *)
LEMMA RollbackOrder ==
  ASSUME TypeOK, NEW r \in Sessions, OrderInv(r), Rollback(r), pc'[r] \in {"idle", "finish"}
  PROVE  OrderInv(r)'
<1>1. \A e \in Ids : View(r, e)' = queue[e]
  BY DEF Rollback, Discard, View, Written, NoWrites, NoEntry, TypeOK
<1>2. \A e \in Line(r)' : e \in Ids /\ queue[e].status = "QUEUED"
  BY <1>1 DEF Line, Claimed
<1>3. LineInOrder(r)'
  BY <1>1, <1>2 DEF LineInOrder, OrderInv, TableInOrder
<1> QED BY <1>3 DEF OrderInv, TableInOrder, Rollback, Claimed

(* A commit leaves the rows the session sees.                              *)
LEMMA CommitOrder ==
  ASSUME TypeOK, NEW r \in Sessions, OrderInv(r), Commit(r),
         \/ pc'[r] = "idle"
         \/ pc'[r] = "reread" /\ pc[r] = "commit" /\ cand'[r] = cand[r] /\ cand[r] \in Ids
            /\ View(r, cand[r]).status = "ACK_PENDING"
  PROVE  OrderInv(r)'
<1>1. \A e \in Ids : View(r, e)' = View(r, e) /\ queue'[e] = View(r, e)
  BY DEF Commit, Committed, Discard, View, Written, NoWrites, NoEntry, TypeOK
<1>2. LineInOrder(r)'
  BY <1>1, LineKept DEF OrderInv, Line, Claimed
<1>3. TableInOrder'
  BY <1>1 DEF OrderInv, TableInOrder, LineInOrder, Line
<1>4. pc'[r] \in Claimed => queue'[cand'[r]].status = "ACK_PENDING"
  <2> SUFFICES ASSUME pc'[r] = "reread" PROVE queue'[cand[r]].status = "ACK_PENDING"
    BY DEF Claimed
  <2> QED BY <1>1
<1> QED BY <1>2, <1>3, <1>4 DEF OrderInv

(* A status written to a row that keeps its place, or leaves the line.     *)
LEMMA StatusOrder ==
  ASSUME TypeOK, NEW r \in Sessions, OrderInv(r), NEW e \in Ids, NEW st \in Statuses \ {"QUEUED"},
         SetStatus(r, e, st), queue' = queue, cand' = cand, st # "NONE",
         \/ pc'[r] = "lookup"
         \/ pc'[r] \in {"ack", "commit"} /\ e = cand[r] /\ e \in Line(r)
  PROVE  OrderInv(r)'
<1>1. View(r, e) \in Entry
  BY ViewType
<1>2. /\ pend'[r][e] = [View(r, e) EXCEPT !.status = st]
      /\ \A f \in Ids \ {e} : pend'[r][f] = pend[r][f]
  BY DEF SetStatus, TypeOK
<1>3. /\ View(r, e)'.agent = View(r, e).agent /\ View(r, e)'.pos = View(r, e).pos
      /\ View(r, e)'.status = st
      /\ \A f \in Ids \ {e} : View(r, f)' = View(r, f)
  BY <1>1, <1>2 DEF View, Written, Entry
<1>4. \A f \in Line(r)' : f \in Ids /\ f \in Line(r)
  <2> SUFFICES ASSUME NEW f \in Line(r)' PROVE f \in Line(r)
    BY DEF Line
  <2>1. CASE f = e
    BY <1>3, <2>1 DEF Line, Claimed
  <2>2. CASE f # e
    BY <1>3, <2>2 DEF Line, Claimed
  <2> QED BY <2>1, <2>2
<1>5. LineInOrder(r)'
  BY <1>3, <1>4, LineKept DEF OrderInv
<1> QED BY <1>5 DEF OrderInv, TableInOrder, Claimed

(* A new entry goes to the end of its agent's line.                        *)
LEMMA InsertOrder ==
  ASSUME TypeOK, TableInv, NEW r \in Sessions, OrderInv(r), NEW p \in Nat,
         IsNextPosition(r, req[r].agent, p), PutEntry(r, p)
  PROVE  OrderInv(r)'
<1>1. PICK n, a, i : n = nextId /\ a = req[r].agent /\ i = req[r].item
  OBVIOUS
<1>2. n \in Ids /\ n \in Nat /\ pc'[r] = "capacity" /\ queue' = queue
  BY <1>1, BoundAssumption DEF PutEntry, Goto, TypeOK, Ids
<1>3. pend' = [pend EXCEPT ![r][n] = [item |-> i, agent |-> a, status |-> "QUEUED", pos |-> p]]
  BY <1>1 DEF PutEntry
<1>4. /\ pend'[r][n] = [item |-> i, agent |-> a, status |-> "QUEUED", pos |-> p]
      /\ \A f \in Ids \ {n} : pend'[r][f] = pend[r][f]
  BY <1>2, <1>3 DEF TypeOK
<1>5. Written(r, n)' /\ View(r, n)' = pend'[r][n]
  BY <1>4 DEF View, Written
<1>6. View(r, n)'.agent = a /\ View(r, n)'.pos = p
  BY <1>4, <1>5
<1>7. \A f \in Ids \ {n} : View(r, f)' = View(r, f)
  BY <1>2, <1>4 DEF View, Written
<1>8. \A f \in Ids : View(r, f).status = "QUEUED" => f < n
  BY <1>1, <1>2 DEF View, TableInv, FreshIds, Ids
<1>9. \A f \in Line(r)' :
        f = n \/ (f \in Line(r) /\ f \in Ids \ {n} /\ View(r, f).status = "QUEUED")
  BY <1>2, <1>7 DEF Line, Claimed
<1>10. LineInOrder(r)'
  <2> SUFFICES ASSUME NEW e \in Line(r)', NEW f \in Line(r)',
                      View(r, e)'.agent = View(r, f)'.agent, e < f
               PROVE  View(r, e)'.pos < View(r, f)'.pos
    BY DEF LineInOrder
  <2>1. e \in Line(r) /\ e \in Ids \ {n} /\ View(r, e).status = "QUEUED"
    <3>1. CASE e = n
      <4>1. f # n /\ f < n /\ f \in Nat
        BY <1>2, <1>8, <1>9, <3>1 DEF Ids
      <4> QED BY <1>2, <3>1, <4>1
    <3> QED BY <1>9, <3>1
  <2>2. CASE f = n
    <3>1. View(r, e).agent = a
      BY <1>6, <1>7, <2>1, <2>2
    <3>2. View(r, e).pos < p
      BY <1>1, <2>1, <3>1 DEF QueuedFor, IsNextPosition
    <3> QED BY <1>6, <1>7, <2>1, <2>2, <3>2
  <2>3. CASE f # n
    <3>1. f \in Line(r) /\ f \in Ids \ {n}
      BY <1>9, <2>3
    <3> QED BY <1>7, <2>1, <3>1 DEF OrderInv, LineInOrder
  <2> QED BY <2>2, <2>3
<1> QED BY <1>2, <1>10 DEF OrderInv, TableInOrder, Claimed

(* Of a line in order, the entry with the least position came first.       *)
LEMMA OldestIsFirst ==
  ASSUME TypeOK, NEW r \in Sessions, OrderInv(r), NEW a,
         NEW e \in OldestQueued(r, a), NEW f \in QueuedFor(r, a)
  PROVE  e <= f
<1>1. e \in Line(r) /\ f \in Line(r) /\ e \in Ids /\ f \in Ids
      /\ View(r, e).agent = View(r, f).agent /\ View(r, e).pos <= View(r, f).pos
  BY DEF OldestQueued, QueuedFor, Line
<1>2. View(r, e).pos \in Nat /\ View(r, f).pos \in Nat
  BY <1>1, ViewType DEF Entry
<1>3. f < e => View(r, f).pos < View(r, e).pos
  BY <1>1 DEF OrderInv, LineInOrder
<1> QED BY <1>1, <1>2, <1>3, BoundAssumption DEF Ids

(* Every step of a session that is alone keeps the line in order.          *)
LEMMA OrderStep ==
  ASSUME TypeOK, TableInv, FlowInv, NEW r \in Sessions, Sessions = {r}, OrderInv(r), By(r)
  PROVE  OrderInv(r)'
<1>a. Flow(r)
  BY DEF FlowInv
<1>b. \A e : ~Locked(r, e)
  BY DEF Locked
<1>c. \A i : IndexWaits(r, i) = {}
  BY DEF IndexWaits
<1>d. pc[r] \notin {"cancel_wait", "insert_wait"}
  BY DEF OrderInv
<1> USE DEF table, locals
<1>1. CASE StartIngress(r) \/ StartDispatch(r) \/ LookupExisting(r) \/ CheckCapacity(r)
           \/ RecordSent(r)
  <2>1. /\ pend' = pend /\ queue' = queue
        /\ pc'[r] \in {"cancel", "lookup", "capacity", "insert", "finish", "select"}
    BY <1>1 DEF StartIngress, StartDispatch, LookupExisting, CheckCapacity, RecordSent, Goto, TypeOK
  <2> QED BY <2>1, QuietOrder DEF Claimed
<1>2. CASE Cancel(r)
  <2>1. CASE UNCHANGED pend /\ Goto(r, "lookup")
    BY <1>2, <2>1, QuietOrder DEF Cancel, Goto, TypeOK, Claimed
  <2>2. CASE \E e \in LiveOf(r, req[r].item) : SetStatus(r, e, "CANCELLED") /\ Goto(r, "lookup")
    <3>1. PICK e \in Ids : SetStatus(r, e, "CANCELLED")
      BY <2>2 DEF LiveOf
    <3>2. pc'[r] = "lookup" /\ queue' = queue /\ cand' = cand
      BY <1>2, <2>2 DEF Cancel, Goto, TypeOK
    <3> QED BY <3>1, <3>2, StatusOrder DEF Statuses
  <2> QED BY <1>2, <1>b, <2>1, <2>2 DEF Cancel
<1>3. CASE Insert(r)
  <2>1. CASE Rollback(r) /\ ResetLocals(r)
    BY <2>1, RollbackOrder DEF ResetLocals, Goto, TypeOK
  <2>2. CASE \E p \in 1 .. MaxEntries : IsNextPosition(r, req[r].agent, p) /\ PutEntry(r, p)
    <3>1. PICK p \in 1 .. MaxEntries : IsNextPosition(r, req[r].agent, p) /\ PutEntry(r, p)
      BY <2>2
    <3> QED BY <3>1, InsertOrder, BoundAssumption
  <2> QED BY <1>3, <1>c, <2>1, <2>2 DEF Insert
<1>4. CASE SelectCandidate(r)
  <2>1. /\ pend' = pend /\ queue' = queue /\ pc'[r] \in {"finish", "claim"}
    BY <1>4 DEF SelectCandidate, Goto, TypeOK
  <2> QED BY <2>1, QuietOrder DEF Claimed
<1>5. CASE Claim(r)
  <2>1. CASE UNCHANGED pend /\ Goto(r, "finish")
    BY <1>5, <2>1, QuietOrder DEF Claim, Goto, TypeOK, Claimed
  <2>2. CASE /\ View(r, cand[r]).status = "QUEUED"
             /\ SetStatus(r, cand[r], "DISPATCHING") /\ Goto(r, "ack")
    <3>1. pc'[r] = "ack" /\ queue' = queue /\ cand' = cand /\ cand[r] \in Ids /\ cand[r] \in Line(r)
      BY <1>5, <1>a, <2>2 DEF Claim, Goto, TypeOK, Flow, Line
    <3> QED BY <2>2, <3>1, StatusOrder DEF Statuses
  <2> QED BY <1>5, <2>1, <2>2 DEF Claim
<1>6. CASE AckPending(r)
  <2>1. /\ cand[r] \in Ids /\ cand[r] \in Line(r) /\ queue' = queue /\ cand' = cand
        /\ View(r, cand[r]).status = "DISPATCHING"
    BY <1>6, <1>a DEF AckPending, Flow, Line, View, Written
  <2>2. SetStatus(r, cand[r], "ACK_PENDING") /\ pc'[r] = "commit"
    BY <1>6, <2>1 DEF AckPending, Goto, TypeOK
  <2> QED BY <2>1, <2>2, StatusOrder DEF Statuses
<1>7. CASE CommitClaim(r)
  <2>1. /\ Commit(r) /\ pc'[r] = "reread" /\ pc[r] = "commit"
        /\ cand'[r] = cand[r] /\ cand[r] \in Ids
        /\ View(r, cand[r]).status = "ACK_PENDING"
    BY <1>7, <1>a DEF CommitClaim, Goto, TypeOK, Flow, View, Written
  <2> QED BY <2>1, CommitOrder
<1>8. CASE Reread(r) \/ LookupAgent(r) \/ SendAccepted(r) \/ SendFails(r)
  <2>1. /\ pend' = pend /\ queue' = queue /\ cand' = cand /\ pc[r] \in Claimed
        /\ pc'[r] \in {"agent", "send", "record_sent", "record_failed"}
    BY <1>8 DEF Reread, LookupAgent, SendAccepted, SendFails, Goto, TypeOK, Claimed
  <2> QED BY <2>1, QuietOrder DEF Claimed
<1>9. CASE SendRaises(r)
  <2>1. pend' = pend /\ queue' = queue /\ pc'[r] \in {"idle", "finish"}
    BY <1>9 DEF SendRaises, ResetLocals, Goto, TypeOK
  <2> QED BY <2>1, QuietOrder DEF Claimed
<1>10. CASE RecordFailed(r)
  <2>1. /\ pend' = pend /\ pc'[r] = "finish" /\ pc[r] \in Claimed \ {"reread"} /\ Clean(r)
        /\ cand[r] \in Ids /\ sel[r] = cand[r] /\ queue[cand[r]].status = "ACK_PENDING"
    BY <1>10, <1>a DEF RecordFailed, Goto, TypeOK, Flow, OrderInv, Claimed
  <2>2. queue' = [queue EXCEPT ![cand[r]].status = "QUEUED"]
    BY <1>10, <2>1 DEF RecordFailed
  <2>3. \A e \in Ids : View(r, e) = queue[e] /\ View(r, e)' = queue'[e]
    BY <2>1 DEF Clean, View, Written
  <2>4. \A e \in Ids : /\ queue'[e].agent = queue[e].agent /\ queue'[e].pos = queue[e].pos
                       /\ e # cand[r] => queue'[e] = queue[e]
    BY <2>1, <2>2 DEF TypeOK, Entry
  <2>5. \A e \in Ids : e \in Line(r)' \/ queue'[e].status = "QUEUED" => e \in Line(r)
    BY <2>1, <2>3, <2>4 DEF Line, Claimed
  <2>6. LineInOrder(r)'
    BY <2>3, <2>4, <2>5, LineKept DEF OrderInv
  <2>7. TableInOrder'
    BY <2>3, <2>4, <2>5 DEF OrderInv, TableInOrder, LineInOrder
  <2> QED BY <2>1, <2>6, <2>7 DEF OrderInv, Claimed
<1>11. CASE Finish(r)
  <2>1. pc'[r] = "idle" /\ (Commit(r) \/ Rollback(r))
    BY <1>11 DEF Finish, ResetLocals, Goto, TypeOK
  <2> QED BY <2>1, CommitOrder, RollbackOrder
<1>12. CASE DeadlockVictim(r) \/ Crash(r)
  <2>1. pc'[r] \in {"idle", "finish"} /\ Rollback(r)
    BY <1>12 DEF DeadlockVictim, Crash, ResetLocals, Goto, TypeOK
  <2> QED BY <2>1, RollbackOrder
<1> QED
  BY <1>1, <1>2, <1>3, <1>4, <1>5, <1>6, <1>7, <1>8, <1>9, <1>10, <1>11, <1>12, <1>d
  DEF By, Step, CancelAfterWait, InsertAfterWait

(* Only a selection changes the candidate to an entry.                     *)
LEMMA CandidateMoves ==
  ASSUME TypeOK, NEW r \in Sessions, By(r), cand'[r] # cand[r], cand'[r] # 0
  PROVE  SelectCandidate(r)
BY DEF By, Step, TypeOK, StartIngress, StartDispatch, Cancel, CancelAfterWait, LookupExisting,
       Insert, InsertAfterWait, PutEntry, CheckCapacity, Claim, AckPending,
       CommitClaim, Reread, LookupAgent, SendAccepted, SendFails, SendRaises, RecordSent,
       RecordFailed, Finish, DeadlockVictim, Crash, ResetLocals, locals

(* When requests come one at a time, a dispatch takes the first inserted of
   the entries queued for its agent: a failed dispatch goes back to the head
   of the line, a cancellation leaves it, and no crash or rollback disturbs
   it (get_oldest_queued_for_agent, enqueue, _handle_failure).              *)
THEOREM OldestGoesFirst ==
  ASSUME NEW s, Sessions = {s} PROVE Spec => OldestFirst
<1>1. Init => OrderInv(s)
  BY DEF Init, OrderInv, LineInOrder, TableInOrder, Line, View, Written, NoWrites, NoEntry, Claimed
<1>2. IInv /\ OrderInv(s) /\ [Next]_vars => OrderInv(s)'
  <2> SUFFICES ASSUME IInv, OrderInv(s), [Next]_vars PROVE OrderInv(s)'
    OBVIOUS
  <2>1. CASE Next
    BY <2>1, OrderStep DEF Next, By, IInv
  <2>2. CASE UNCHANGED vars
    BY <2>2, QuietOrder DEF vars, table, locals, OrderInv
  <2> QED BY <2>1, <2>2
<1>3. IInv /\ OrderInv(s) /\ [Next]_vars =>
        [\A r \in Sessions : cand'[r] # cand[r] /\ cand'[r] # 0 =>
           \A e \in QueuedFor(r, req[r].agent) : cand'[r] <= e]_vars
  <2> SUFFICES ASSUME IInv, OrderInv(s), Next, cand'[s] # cand[s], cand'[s] # 0,
                      NEW e \in QueuedFor(s, req[s].agent)
               PROVE  cand'[s] <= e
    BY DEF vars, locals
  <2>1. SelectCandidate(s)
    BY CandidateMoves DEF Next, By, IInv
  <2>2. cand'[s] \in OldestQueued(s, req[s].agent)
    BY <2>1 DEF SelectCandidate, IInv, TypeOK
  <2>3. PICK f : f = cand'[s] /\ f \in OldestQueued(s, req[s].agent)
    BY <2>2
  <2>4. PICK a : a = req[s].agent
    OBVIOUS
  <2> QED BY <2>3, <2>4, OldestIsFirst DEF IInv
<1> QED BY <1>1, <1>2, <1>3, Invariance, PTL DEF Spec, OldestFirst

=============================================================================
