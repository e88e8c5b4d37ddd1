---------------------------- MODULE MCAgentQueue ----------------------------
(* Instances of AgentQueue for TLC.                                        *)
EXTENDS AgentQueue, TLC

CONSTANTS i1, i2, a1, a2

(* The rules treat agents, items and sessions alike.                       *)
Symmetry == Permutations(Agents) \cup Permutations(Items) \cup Permutations(Sessions)

(* Every payload, and those that move an eligible item between agents.     *)
AllPayloads  == Assignment
Reassignments ==
  {p \in Assignment : p.eligible /\ p.agent # p.prev /\ NoAgent \notin {p.agent, p.prev}}

(* A table that two assignments whose sends failed leave behind: each agent
   idle, with one queued entry.                                            *)
TwoQueued ==
  [NoWrites EXCEPT
     ![1] = [item |-> i1, agent |-> a1, status |-> "QUEUED", pos |-> 1],
     ![2] = [item |-> i2, agent |-> a2, status |-> "QUEUED", pos |-> 1]]

InitTwoQueued ==
  /\ queue     = TwoQueued
  /\ pend      = [r \in Sessions |-> NoWrites]
  /\ nextId    = 3
  /\ pc        = [r \in Sessions |-> "idle"]
  /\ req       = [r \in Sessions |-> NoRequest]
  /\ mine      = [r \in Sessions |-> 0]
  /\ snap      = [r \in Sessions |-> 0]
  /\ cand      = [r \in Sessions |-> 0]
  /\ sel       = [r \in Sessions |-> 0]
  /\ selStatus = [r \in Sessions |-> "NONE"]
  /\ sent = {} /\ failed = {1, 2} /\ delivered = {} /\ promised = {1, 2} /\ orphans = {}

SpecTwoQueued     == InitTwoQueued /\ [][Next]_vars
FairSpecTwoQueued == SpecTwoQueued /\ \A r \in Sessions : SF_vars(Step(r))
=============================================================================
