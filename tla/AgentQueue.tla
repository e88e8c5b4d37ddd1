----------------------------- MODULE AgentQueue -----------------------------
(***************************************************************************)
(* The agent queue of the control plane: assignments of work items enter   *)
(* a table of queue entries, and a dispatcher claims the oldest queued     *)
(* entry of an idle agent, hands it to the OpenClaw gateway and records    *)
(* the outcome.  Every HTTP request runs in one database session, and the  *)
(* sessions interleave at every statement under PostgreSQL's READ          *)
(* COMMITTED: a statement sees the committed rows and the session's own    *)
(* uncommitted ones, an UPDATE waits for the row lock of another session,  *)
(* an INSERT waits on another session's uncommitted row of the same work   *)
(* item (partial unique index), and a cycle of waits aborts one session.   *)
(*                                                                         *)
(* Sources: services/api/app/control_plane/application/{queue_ingress,     *)
(* queue_dispatch, dispatch_selection, openclaw_dispatch}_service.py,      *)
(* infrastructure/repositories/agent_queue.py, api/agent_queue.py.         *)
(***************************************************************************)
EXTENDS Naturals, FiniteSets

CONSTANTS
  Sessions,    (* database sessions, one per HTTP request being served     *)
  Items,       (* work items                                               *)
  Agents,      (* agents that own a queue                                  *)
  NoItem,      (* no work item                                             *)
  NoAgent,     (* no agent: NULL in the payload and in the columns         *)
  Kinds,       (* the entry points in use: "ingest", "assign", "dispatch"  *)
  Payloads,    (* what callers say of an assignment                        *)
  Crashes,     (* whether processes and connections die                    *)
  MaxEntries   (* bound: queue entries ever inserted                       *)

(* A changed assignment: the work item, its agent and the one before, and
   whether it is a STORY or BUG in TODO (_is_eligible).                    *)
Assignment == [item: Items, agent: Agents \cup {NoAgent},
               prev: Agents \cup {NoAgent}, eligible: BOOLEAN]

ASSUME NullsAssumption == NoItem \notin Items /\ NoAgent \notin Agents
ASSUME KindsAssumption == Kinds \subseteq {"ingest", "assign", "dispatch"}
ASSUME PayloadsAssumption == Payloads \subseteq Assignment
ASSUME CrashesAssumption == Crashes \in BOOLEAN
ASSUME BoundAssumption == MaxEntries \in Nat

VARIABLES
  queue,      (* committed rows of control_plane_agent_queue, by entry id;
                 ids are handed out in the order of insertion              *)
  pend,       (* uncommitted row versions of each session                  *)
  nextId,     (* the next entry id                                         *)
  pc,         (* the statement each session executes next                  *)
  req,        (* the request each session serves                           *)
  mine,       (* the entry the session's request has inserted, 0 = none    *)
  snap,       (* what the snapshot of a waiting statement determined: the
                 row an UPDATE waits for, the position an INSERT carries   *)
  cand,       (* the candidate try_dispatch_next selected, 0 = none        *)
  sel,        (* the entry handed to dispatch_to_openclaw, 0 = none        *)
  selStatus,  (* the status that entry had when it was read                *)
  sent,       (* entries with a SENT dispatch record                       *)
  failed,     (* entries with a FAILED dispatch record                     *)
  delivered,  (* entries whose prompt the gateway has accepted (external)  *)
  promised,   (* history: entries a request answered as enqueued           *)
  orphans     (* history: claims whose session ended before an outcome     *)

table   == <<queue, pend, nextId>>
locals  == <<req, mine, snap, cand, sel, selStatus>>
history == <<sent, failed, delivered, promised, orphans>>
vars    == <<table, pc, locals, history>>

-----------------------------------------------------------------------------
(* The table and its sessions.                                             *)

Ids      == 1 .. MaxEntries
Statuses == {"NONE", "QUEUED", "DISPATCHING", "ACK_PENDING", "CANCELLED"}

(* _CANCELLABLE_STATUSES: also the statuses of the partial unique index.   *)
Live == {"QUEUED", "DISPATCHING", "ACK_PENDING"}

(* _ACTIVE_RUNTIME_STATUSES, of which no code reaches PLANNING, EXECUTING,
   BLOCKED and REVIEW_READY.                                               *)
Active == {"DISPATCHING", "ACK_PENDING"}

Entry  == [item: Items \cup {NoItem}, agent: Agents \cup {NoAgent},
           status: Statuses, pos: Nat]

(* An id without a row, or a row the session has not written.              *)
NoEntry  == [item |-> NoItem, agent |-> NoAgent, status |-> "NONE", pos |-> 0]
NoWrites == [e \in Ids |-> NoEntry]

Written(r, e) == pend[r][e].status # "NONE"

(* What a statement of session r sees of entry e under READ COMMITTED.     *)
View(r, e) == IF Written(r, e) THEN pend[r][e] ELSE queue[e]

(* Another session holds the row lock of e.                                *)
Locked(r, e) == \E s \in Sessions \ {r} : Written(s, e)

(* The rows of work item i that session r sees live.                       *)
LiveOf(r, i) == {e \in Ids : View(r, e).item = i /\ View(r, e).status \in Live}

(* The rows session r sees queued for agent a.                             *)
QueuedFor(r, a) ==
  {e \in Ids : View(r, e).agent = a /\ View(r, e).status = "QUEUED"}

HasActiveItem(r, a) ==
  \E e \in Ids : View(r, e).agent = a /\ View(r, e).status \in Active

(* Fault: ORDER BY queue_position DESC.                                    *)
NewestQueued(r, a) ==
  {e \in QueuedFor(r, a) :
     \A f \in QueuedFor(r, a) : View(r, f).pos <= View(r, e).pos}

(* ORDER BY queue_position LIMIT 1: rows of equal position come in any
   order.                                                                  *)
OldestQueued(r, a) ==
  {e \in QueuedFor(r, a) :
     \A f \in QueuedFor(r, a) : View(r, e).pos <= View(r, f).pos}

(* p = coalesce(max(queue_position), 0) + 1 over the agent's queued rows.  *)
IsNextPosition(r, a, p) ==
  /\ \A e \in QueuedFor(r, a) : View(r, e).pos < p
  /\ p = 1 \/ \E e \in QueuedFor(r, a) : View(r, e).pos + 1 = p

(* Fault: no unique index to wait on.                                      *)
NoIndexWaits(r, i) == {}

(* The sessions the unique index makes an insert of item i by r wait for:
   their uncommitted writes may still leave a live row of i.               *)
IndexWaits(r, i) ==
  {s \in Sessions \ {r} : \E e \in Ids :
     /\ Written(s, e)
     /\ pend[s][e].item = i
     /\ pend[s][e].status \in Live \/ queue[e].status \in Live}

SetStatus(r, e, st) ==
  pend' = [pend EXCEPT ![r][e] = [View(r, e) EXCEPT !.status = st]]

Committed(r) == [e \in Ids |-> View(r, e)]
Discard(r)   == pend' = [pend EXCEPT ![r] = NoWrites]
Commit(r)    == queue' = Committed(r) /\ Discard(r)
Rollback(r)  == Discard(r) /\ UNCHANGED queue

Goto(r, label) == pc' = [pc EXCEPT ![r] = label]

-----------------------------------------------------------------------------
(* Requests.                                                               *)

Request == [kind: {"ingest", "assign", "dispatch"},
            item: Items \cup {NoItem}, agent: Agents \cup {NoAgent},
            prev: Agents \cup {NoAgent}, eligible: BOOLEAN]

NoRequest == [kind |-> "dispatch", item |-> NoItem, agent |-> NoAgent,
              prev |-> NoAgent, eligible |-> FALSE]

(* The steps of a request from its start to its insert.                    *)
BeforeInsert == {"cancel", "cancel_wait", "lookup", "insert", "insert_wait"}

(* The steps between the commit of a claim and its recorded outcome.       *)
Claimed == {"reread", "agent", "send", "record_sent", "record_failed"}

Labels == BeforeInsert \cup Claimed \cup
          {"idle", "capacity", "select", "claim", "ack", "commit", "finish"}

(* The session ends: get_db_session closes it, with what it has not
   committed, and the worker is free for another request.                  *)
ResetLocals(r) ==
  /\ Goto(r, "idle")
  /\ req'       = [req EXCEPT ![r] = NoRequest]
  /\ mine'      = [mine EXCEPT ![r] = 0]
  /\ snap'      = [snap EXCEPT ![r] = 0]
  /\ cand'      = [cand EXCEPT ![r] = 0]
  /\ sel'       = [sel EXCEPT ![r] = 0]
  /\ selStatus' = [selStatus EXCEPT ![r] = "NONE"]

(* POST /agent-queue/ingest, or the hook of a planning assignment.  The
   payload is what the caller read of the work item, at a time of its own.
   Bound: no more than MaxEntries inserts.                                 *)
StartIngress(r) ==
  /\ pc[r] = "idle"
  /\ nextId + Cardinality({s \in Sessions : pc[s] \in BeforeInsert}) <= MaxEntries
  /\ \E k \in Kinds \cap {"ingest", "assign"}, p \in Payloads :
       /\ k = "assign" => p.agent # p.prev
       /\ req' = [req EXCEPT ![r] = [kind |-> k, item |-> p.item, agent |-> p.agent,
                                     prev |-> p.prev, eligible |-> p.eligible]]
       /\ Goto(r, IF p.prev \notin {NoAgent, p.agent} THEN "cancel" ELSE "lookup")
  /\ UNCHANGED <<table, mine, snap, cand, sel, selStatus, history>>

(* POST /agent-queue/dispatch.                                             *)
StartDispatch(r) ==
  /\ pc[r] = "idle"
  /\ "dispatch" \in Kinds
  /\ \E a \in Agents : req' = [req EXCEPT ![r] = [NoRequest EXCEPT !.agent = a]]
  /\ Goto(r, "capacity")
  /\ UNCHANGED <<table, mine, snap, cand, sel, selStatus, history>>

(* Reassigned away or unassigned: cancel_by_work_item updates the rows its
   snapshot shows live; at most one (OneLiveEntryPerItem).                 *)
Cancel(r) ==
  /\ pc[r] = "cancel"
  /\ \/ /\ LiveOf(r, req[r].item) = {}
        /\ Goto(r, "lookup")
        /\ UNCHANGED <<pend, snap>>
     \/ \E e \in LiveOf(r, req[r].item) :
          IF Locked(r, e)
            THEN /\ snap' = [snap EXCEPT ![r] = e]
                 /\ Goto(r, "cancel_wait")
                 /\ UNCHANGED pend
            ELSE /\ SetStatus(r, e, "CANCELLED")
                 /\ Goto(r, "lookup")
                 /\ UNCHANGED snap
  /\ UNCHANGED <<queue, nextId, req, mine, cand, sel, selStatus, history>>

(* The lock is free: the row is cancelled if its latest version still
   matches; a row committed since the snapshot is not looked for.          *)
CancelAfterWait(r) ==
  /\ pc[r] = "cancel_wait"
  /\ ~Locked(r, snap[r])
  /\ IF queue[snap[r]].status \in Live
       THEN SetStatus(r, snap[r], "CANCELLED")
       ELSE UNCHANGED pend
  /\ snap' = [snap EXCEPT ![r] = 0]
  /\ Goto(r, "lookup")
  /\ UNCHANGED <<queue, nextId, req, mine, cand, sel, selStatus, history>>

(* No agent, not eligible, or a live entry of any agent: skipped.          *)
LookupExisting(r) ==
  /\ pc[r] = "lookup"
  /\ LET skip == \/ req[r].agent = NoAgent
                 \/ ~req[r].eligible
                 \/ LiveOf(r, req[r].item) # {}
     IN Goto(r, IF skip THEN "finish" ELSE "insert")
  /\ UNCHANGED <<table, locals, history>>

(* The row goes in and the request goes on to the push dispatch.           *)
PutEntry(r, p) ==
  /\ nextId <= MaxEntries
  /\ pend' = [pend EXCEPT ![r][nextId] =
               [item |-> req[r].item, agent |-> req[r].agent,
                status |-> "QUEUED", pos |-> p]]
  /\ nextId' = nextId + 1
  /\ mine' = [mine EXCEPT ![r] = nextId]
  /\ snap' = [snap EXCEPT ![r] = 0]
  /\ Goto(r, "capacity")
  /\ UNCHANGED <<queue, req, cand, sel, selStatus, history>>

(* enqueue: INSERT ... SELECT takes the position from its snapshot, then
   meets the unique index.  A live row of the item that another request
   committed since the lookup is an IntegrityError: the request fails and
   its session rolls back.                                                 *)
Insert(r) ==
  /\ pc[r] = "insert"
  /\ \E p \in 1 .. MaxEntries :
       /\ IsNextPosition(r, req[r].agent, p)
       /\ \/ /\ IndexWaits(r, req[r].item) # {}
             /\ snap' = [snap EXCEPT ![r] = p]
             /\ Goto(r, "insert_wait")
             /\ UNCHANGED <<table, req, mine, cand, sel, selStatus, history>>
          \/ /\ IndexWaits(r, req[r].item) = {}
             /\ LiveOf(r, req[r].item) = {}
             /\ PutEntry(r, p)
          \/ /\ IndexWaits(r, req[r].item) = {}
             /\ LiveOf(r, req[r].item) # {}
             /\ Rollback(r)
             /\ ResetLocals(r)
             /\ UNCHANGED <<nextId, history>>

(* The session the index waited for has committed or rolled back.          *)
InsertAfterWait(r) ==
  /\ pc[r] = "insert_wait"
  /\ IndexWaits(r, req[r].item) = {}
  /\ \/ LiveOf(r, req[r].item) = {} /\ PutEntry(r, snap[r])
     \/ /\ LiveOf(r, req[r].item) # {}
        /\ Rollback(r)
        /\ ResetLocals(r)
        /\ UNCHANGED <<nextId, history>>

-----------------------------------------------------------------------------
(* try_dispatch_next.                                                      *)

(* Fault: the pre-check dropped.                                           *)
SkipCapacityCheck(r) ==
  /\ pc[r] = "capacity"
  /\ Goto(r, "select")
  /\ UNCHANGED <<table, locals, history>>

(* The pre-check: an agent with an active entry gets no other.             *)
CheckCapacity(r) ==
  /\ pc[r] = "capacity"
  /\ Goto(r, IF HasActiveItem(r, req[r].agent) THEN "finish" ELSE "select")
  /\ UNCHANGED <<table, locals, history>>

SelectCandidate(r) ==
  /\ pc[r] = "select"
  /\ \/ /\ OldestQueued(r, req[r].agent) = {}
        /\ Goto(r, "finish")
        /\ UNCHANGED cand
     \/ /\ \E e \in OldestQueued(r, req[r].agent) : cand' = [cand EXCEPT ![r] = e]
        /\ Goto(r, "claim")
  /\ UNCHANGED <<table, req, mine, snap, sel, selStatus, history>>

(* CAS QUEUED -> DISPATCHING: fails at once on a row that is not QUEUED,
   waits for a QUEUED one that another session has locked.                 *)
Claim(r) ==
  /\ pc[r] = "claim"
  /\ \/ /\ View(r, cand[r]).status # "QUEUED"
        /\ Goto(r, "finish")
        /\ UNCHANGED pend
     \/ /\ View(r, cand[r]).status = "QUEUED"
        /\ ~Locked(r, cand[r])
        /\ SetStatus(r, cand[r], "DISPATCHING")
        /\ Goto(r, "ack")
  /\ UNCHANGED <<queue, nextId, locals, history>>

(* CAS DISPATCHING -> ACK_PENDING on the row the session has locked.       *)
AckPending(r) ==
  /\ pc[r] = "ack"
  /\ IF View(r, cand[r]).status = "DISPATCHING"
       THEN SetStatus(r, cand[r], "ACK_PENDING") /\ Goto(r, "commit")
       ELSE Goto(r, "finish") /\ UNCHANGED pend
  /\ UNCHANGED <<queue, nextId, locals, history>>

(* Fault: the claim flushed but not committed.                             *)
ForgetCommit(r) ==
  /\ pc[r] = "commit"
  /\ Goto(r, "reread")
  /\ UNCHANGED <<table, locals, history>>

(* The claim is committed, with all the session wrote before it.           *)
CommitClaim(r) ==
  /\ pc[r] = "commit"
  /\ Commit(r)
  /\ Goto(r, "reread")
  /\ UNCHANGED <<nextId, locals, history>>

(* get_active_by_work_item after the commit: the live entry of the
   candidate's work item, whichever it now is, or else the candidate as it
   was read before the claim.                                              *)
Reread(r) ==
  /\ pc[r] = "reread"
  /\ LET live == LiveOf(r, queue[cand[r]].item) IN
     \/ /\ live = {}
        /\ sel'       = [sel EXCEPT ![r] = cand[r]]
        /\ selStatus' = [selStatus EXCEPT ![r] = "QUEUED"]
     \/ \E e \in live :
          /\ sel'       = [sel EXCEPT ![r] = e]
          /\ selStatus' = [selStatus EXCEPT ![r] = queue[e].status]
  /\ Goto(r, "agent")
  /\ UNCHANGED <<table, req, mine, snap, cand, history>>

-----------------------------------------------------------------------------
(* Sending and recording the outcome.  From here on the session holds no   *)
(* locks: CommitClaim has released them.                                   *)

(* The selected entry's agent is looked up: an unknown agent, or one with
   no main session key, is a failure recorded without a send.              *)
LookupAgent(r) ==
  /\ pc[r] = "agent"
  /\ \E known, hasSessionKey \in BOOLEAN :
       Goto(r, IF known /\ hasSessionKey THEN "send" ELSE "record_failed")
  /\ UNCHANGED <<table, locals, history>>

Deliver(r) == delivered' = delivered \cup {sel[r]}

(* chat.send was answered ok: the gateway has injected the prompt.         *)
SendAccepted(r) ==
  /\ pc[r] = "send"
  /\ Deliver(r)
  /\ Goto(r, "record_sent")
  /\ UNCHANGED <<table, locals, sent, failed, promised, orphans>>

(* A RuntimeError, OSError or ValueError: refused or unreachable, or the
   answer to an accepted prompt was lost, late or unreadable.              *)
SendFails(r) ==
  /\ pc[r] = "send"
  /\ Deliver(r) \/ UNCHANGED delivered
  /\ Goto(r, "record_failed")
  /\ UNCHANGED <<table, locals, sent, failed, promised, orphans>>

(* Any other exception (a frame or payload that is not an object): the push
   path swallows it and the request ends well, POST /dispatch fails.       *)
SendRaises(r) ==
  /\ pc[r] = "send"
  /\ Deliver(r) \/ UNCHANGED delivered
  /\ orphans' = orphans \cup {cand[r]}
  /\ IF req[r].kind = "dispatch"
       THEN ResetLocals(r)
       ELSE Goto(r, "finish") /\ UNCHANGED locals
  /\ UNCHANGED <<table, sent, failed, promised>>

(* The SENT record is created and committed; the entry is not touched.     *)
RecordSent(r) ==
  /\ pc[r] = "record_sent"
  /\ sent' = sent \cup {sel[r]}
  /\ Goto(r, "finish")
  /\ UNCHANGED <<table, locals, failed, delivered, promised, orphans>>

(* Faults: the CAS left out, without its expected status, or to FAILED.    *)
RecordOnly(r) ==
  /\ pc[r] = "record_failed"
  /\ failed' = failed \cup {sel[r]}
  /\ Goto(r, "finish")
  /\ UNCHANGED <<table, locals, sent, delivered, promised, orphans>>

RevertTo(r, status) ==
  /\ pc[r] = "record_failed"
  /\ ~Locked(r, sel[r])
  /\ queue' = [queue EXCEPT ![sel[r]].status = status]
  /\ failed' = failed \cup {sel[r]}
  /\ Goto(r, "finish")
  /\ UNCHANGED <<pend, nextId, locals, sent, delivered, promised, orphans>>

RevertAnyStatus(r) == RevertTo(r, "QUEUED")
RevertToFailed(r)  == RevertTo(r, "FAILED")

(* The FAILED record, the CAS ACK_PENDING -> QUEUED and their commit, one
   transaction: the CAS, its only write to a shared row, waits for a lock
   on an ACK_PENDING row and leaves any other status alone.                *)
RecordFailed(r) ==
  /\ pc[r] = "record_failed"
  /\ IF queue[sel[r]].status = "ACK_PENDING"
       THEN /\ ~Locked(r, sel[r])
            /\ queue' = [queue EXCEPT ![sel[r]].status = "QUEUED"]
       ELSE UNCHANGED queue
  /\ failed' = failed \cup {sel[r]}
  /\ Goto(r, "finish")
  /\ UNCHANGED <<pend, nextId, locals, sent, delivered, promised, orphans>>

(* The handler returns.  A planning assignment commits what is left; the
   queue's own endpoints do not, and closing the session rolls back.       *)
Finish(r) ==
  /\ pc[r] = "finish"
  /\ IF req[r].kind = "assign" THEN Commit(r) ELSE Rollback(r)
  /\ promised' = promised \cup ({mine[r]} \ {0})
  /\ ResetLocals(r)
  /\ UNCHANGED <<nextId, sent, failed, delivered, orphans>>

-----------------------------------------------------------------------------
(* What ends a request early.                                              *)

(* Session r has a statement waiting for a row or index entry of s.        *)
WaitsFor(r, s) ==
  /\ r # s
  /\ \/ pc[r] = "cancel_wait" /\ Written(s, snap[r])
     \/ pc[r] = "insert_wait" /\ s \in IndexWaits(r, req[r].item)
     \/ /\ pc[r] = "claim"
        /\ View(r, cand[r]).status = "QUEUED"
        /\ Written(s, cand[r])
     \/ /\ pc[r] = "record_failed"
        /\ queue[sel[r]].status = "ACK_PENDING"
        /\ Written(s, sel[r])

OnWaitCycle(r) ==
  \E S \in SUBSET Sessions :
    /\ r \in S
    /\ \A s \in S : (\E t \in S : WaitsFor(s, t)) /\ (\E t \in S : WaitsFor(t, s))

(* Fault: nobody breaks a cycle of waits.                                  *)
NoDetection(r) == pc[r] = "claim" /\ FALSE /\ UNCHANGED vars

(* PostgreSQL aborts a session on a cycle of waits.  Only a claim waits
   while holding locks, and the push dispatch around it swallows the error:
   the request goes on, in a transaction whose COMMIT will roll back.      *)
DeadlockVictim(r) ==
  /\ pc[r] = "claim"
  /\ OnWaitCycle(r)
  /\ Rollback(r)
  /\ Goto(r, "finish")
  /\ UNCHANGED <<nextId, locals, history>>

(* The process, or the connection, of a request dies.                      *)
Crash(r) ==
  /\ Crashes
  /\ pc[r] # "idle"
  /\ Rollback(r)
  /\ orphans' = IF pc[r] \in Claimed THEN orphans \cup {cand[r]} ELSE orphans
  /\ ResetLocals(r)
  /\ UNCHANGED <<nextId, sent, failed, delivered, promised>>

-----------------------------------------------------------------------------
Init ==
  /\ queue     = NoWrites
  /\ pend      = [r \in Sessions |-> NoWrites]
  /\ nextId    = 1
  /\ pc        = [r \in Sessions |-> "idle"]
  /\ req       = [r \in Sessions |-> NoRequest]
  /\ mine      = [r \in Sessions |-> 0]
  /\ snap      = [r \in Sessions |-> 0]
  /\ cand      = [r \in Sessions |-> 0]
  /\ sel       = [r \in Sessions |-> 0]
  /\ selStatus = [r \in Sessions |-> "NONE"]
  /\ sent = {} /\ failed = {} /\ delivered = {} /\ promised = {} /\ orphans = {}

Step(r) ==
  \/ Cancel(r)          \/ CancelAfterWait(r) \/ LookupExisting(r)
  \/ Insert(r)          \/ InsertAfterWait(r)
  \/ CheckCapacity(r)   \/ SelectCandidate(r) \/ Claim(r)
  \/ AckPending(r)      \/ CommitClaim(r)     \/ Reread(r)
  \/ LookupAgent(r)     \/ SendAccepted(r)    \/ SendFails(r) \/ SendRaises(r)
  \/ RecordSent(r)      \/ RecordFailed(r)    \/ Finish(r)
  \/ DeadlockVictim(r)

Next == \E r \in Sessions :
          StartIngress(r) \/ StartDispatch(r) \/ Step(r) \/ Crash(r)

Spec == Init /\ [][Next]_vars

(* A statement runs once its lock is free: PostgreSQL serves the waiters of
   a lock in turn, so one that keeps becoming free is had (strong
   fairness).  Nothing makes a client send a request, or a process die.    *)
FairSpec == Spec /\ \A r \in Sessions : SF_vars(Step(r))

-----------------------------------------------------------------------------
(* Properties.                                                             *)

(* The variables hold what the code can put into them.                     *)
TypeOK ==
  /\ queue     \in [Ids -> Entry]
  /\ pend      \in [Sessions -> [Ids -> Entry]]
  /\ nextId    \in 1 .. MaxEntries + 1
  /\ pc        \in [Sessions -> Labels]
  /\ req       \in [Sessions -> Request]
  /\ mine      \in [Sessions -> Ids \cup {0}]
  /\ snap      \in [Sessions -> Nat]
  /\ cand      \in [Sessions -> Ids \cup {0}]
  /\ sel       \in [Sessions -> Ids \cup {0}]
  /\ selStatus \in [Sessions -> Statuses]
  /\ sent \subseteq Ids /\ failed \subseteq Ids /\ delivered \subseteq Ids
  /\ promised \subseteq Ids /\ orphans \subseteq Ids

(* Whatever requests race, a work item has at most one live entry in the
   table, of one agent (the index idx_cp_agent_queue_work_item_active, the
   lookup before the insert and the cancellation on reassignment together). *)
OneLiveEntryPerItem ==
  \A e, f \in Ids :
    /\ queue[e].status \in Live /\ queue[f].status \in Live
    /\ queue[e].item = queue[f].item
    => e = f

(* The capacity check and the claim are separate statements, so an agent can
   be given more than one story, but only by requests that overlap: never
   more than there are sessions, and so exactly one when requests come one
   at a time (try_dispatch_next, has_active_item).                          *)
CapacityBoundedBySessions ==
  \A a \in Agents :
    Cardinality({e \in Ids : queue[e].agent = a /\ queue[e].status \in Active})
      <= Cardinality(Sessions)

(* An entry the table shows as ACK_PENDING was handed over: its SENT record
   exists, or the session that claimed it is still at work, or that session
   ended before recording an outcome.  No other path strands an entry and
   keeps its agent busy for ever (dispatch_to_openclaw, _handle_failure).   *)
AckPendingAccountedFor ==
  \A e \in Ids : queue[e].status = "ACK_PENDING" =>
    \/ e \in sent \cup orphans
    \/ \E r \in Sessions : pc[r] \in Claimed /\ cand[r] = e

(* The gateway is never given an entry that the table does not hold: the
   claim is committed before the prompt goes out.                           *)
DeliveredIsDurable ==
  \A e \in delivered : queue[e].status # "NONE"

(* A cancelled entry stays cancelled: no late outcome of a dispatch that was
   under way when the item was reassigned brings it back.                   *)
CancelledIsFinal ==
  [][\A e \in Ids : queue[e].status = "CANCELLED" => queue'[e] = queue[e]]_vars

(* Every request comes to its end, lock waits and deadlocks included.       *)
RequestsFinish == \A r \in Sessions : pc[r] # "idle" ~> pc[r] = "idle"

-----------------------------------------------------------------------------
(* Claims of the documentation that the code does not keep.                *)

(* "If Naomi is busy, the story remains queued" (docs/CONTROL_PLANE_V1.md):
   an entry a request has answered as enqueued is in the table.             *)
PromisedIsQueued == \A e \in promised : queue[e].status # "NONE"

(* "Select and begin dispatching the oldest queued item for an agent": the
   candidate is the first inserted of those the selection sees queued.      *)
OldestFirst ==
  [][\A r \in Sessions : cand'[r] # cand[r] /\ cand'[r] # 0 =>
       \A e \in QueuedFor(r, req[r].agent) : cand'[r] <= e]_vars

(* "Precondition: entry.status must already be ACK_PENDING" of the entry
   given to dispatch_to_openclaw.                                           *)
SendsAckPending == \A r \in Sessions : pc[r] = "send" => selStatus[r] = "ACK_PENDING"

=============================================================================
