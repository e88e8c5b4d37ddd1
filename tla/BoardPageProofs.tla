-------------------------- MODULE BoardPageProofs ---------------------------
(***************************************************************************)
(* Proofs about BoardPage for any projects, stories, statuses and ranks    *)
(* and any number of calls.                                                *)
(***************************************************************************)
EXTENDS BoardPage, FiniteSetTheorems, TLAPS

-----------------------------------------------------------------------------
(* The inductive invariant.                                                *)

(* Calls about no story: each is a single fetch.                           *)
Loads == {"load", "refresh", "lifecycle"}

(* What a handler that waits has captured, and what it got.                *)
Shape(c) ==
  /\ c \in BoardCall
  /\ c.op \in Loads => c.phase = "fetch" /\ c.key = NoKey
  /\ c.op \notin Loads => c.key \in Stories /\ c.old.rank \in Ranks
  /\ c.phase = "rank" => c.arg.rank \in Ranks
  /\ c.phase = "fetch" /\ c.net = "ok" => c.answer.project = c.project

(* The load effect cancels the load of the previous project.               *)
LoadsSelected == \A c \in calls : c.op = "load" => c.project = selected

(* A story whose mark no refetch took away has one call, and is marked.    *)
MarkedAlone == \A c \in calls : c.key \in Stories \ cleared =>
           c.key \in pending /\ \A d \in calls : d.key = c.key => d = c

(* A project whose board is not there is being loaded.                     *)
Awaited == selected # NoProject /\ view.project # selected /\ ~strayed =>
             \E c \in calls : c.op = "load" /\ c.project = selected

(* The variables other than calls.                                         *)
RestOK ==
  /\ selected \in Projects \cup {NoProject}
  /\ view \in BoardView
  /\ \E S \in SUBSET Stories : srv \in [S -> Story]
  /\ sprintOn \subseteq Projects
  /\ filtered \in BOOLEAN /\ strayed \in BOOLEAN
  /\ pending \subseteq Stories /\ overlap \subseteq Stories /\ cleared \subseteq Stories
  /\ started \in 0..MaxCalls

CallsInv ==
  /\ \A c \in calls : Shape(c)
  /\ LoadsSelected
  /\ \A s \in pending : CallsOf(s) # {}
  /\ MarkedAlone

BoardInv == page = "board" /\ RestOK /\ CallsInv /\ Awaited

-----------------------------------------------------------------------------
(* Views and calls.                                                        *)

LEMMA NoItemsType == NoItems \in Items
<1>1. NoItems \in [{} -> Story]
  BY DEF NoItems
<1> QED BY <1>1 DEF Items

LEMMA ViewType ==
  ASSUME NEW k \in {"no-project", "no-sprint", "ok", "error"}, NEW p \in Projects \cup {NoProject},
         NEW i \in Items
  PROVE  View(k, p, i) \in BoardView /\ View(k, p, i).project = p /\ View(k, p, i).kind = k
BY DEF View, BoardView

LEMMA NoViewType == NoView \in BoardView
BY NoItemsType, ViewType DEF NoView

(* The answer to a fetch is a view of the project that was asked for.      *)
LEMMA FetchType ==
  ASSUME RestOK, NEW p \in Projects
  PROVE  FetchBoardState(p) \in BoardView /\ FetchBoardState(p).project = p
<1>1. PICK S \in SUBSET Stories : srv \in [S -> Story]
  BY DEF RestOK
<1> DEFINE T == {t \in DOMAIN srv : StoryProject[t] = p}
           it == [s \in T |-> srv[s]]
<1>2. it \in [T -> Story] /\ T \in SUBSET Stories
  BY <1>1
<1>3. it \in Items
  BY <1>2 DEF Items
<1> QED
  BY <1>3, NoItemsType, ViewType DEF FetchBoardState

(* An optimistic change keeps the view's project and its type.             *)
LEMMA ChangeType ==
  ASSUME RestOK, NEW s \in Stories, NEW status \in Statuses, NEW rank \in Ranks \cup {NoRank}
  PROVE  /\ WithStory(view, s, status, rank) \in BoardView
         /\ WithStory(view, s, status, rank).project = view.project
<1> DEFINE b == WithStory(view, s, status, rank)
<1>1. CASE view.kind # "ok" \/ s \notin DOMAIN view.items
  BY <1>1 DEF WithStory, RestOK
<1>2. CASE view.kind = "ok" /\ s \in DOMAIN view.items
  <2>1. PICK S \in SUBSET Stories : view.items \in [S -> Story]
    BY DEF RestOK, BoardView, Items
  <2>2. view.items[s] \in Story
    BY <1>2, <2>1
  <2> DEFINE new == [status |-> status, rank |-> IF rank = NoRank THEN view.items[s].rank ELSE rank]
  <2>3. new \in Story
    BY <2>2 DEF Story
  <2>4. [view.items EXCEPT ![s] = new] \in Items
    BY <2>1, <2>3 DEF Items
  <2>5. b = [view EXCEPT !.items = [view.items EXCEPT ![s] = new]]
    BY <1>2 DEF WithStory
  <2> QED
    BY <2>4, <2>5 DEF RestOK, BoardView
<1> QED BY <1>1, <1>2

LEMMA RankType ==
  ASSUME RestOK, NEW s \in Stories, NEW rank \in Ranks
  PROVE  /\ WithRank(view, s, rank) \in BoardView
         /\ WithRank(view, s, rank).project = view.project
<1> DEFINE b == WithRank(view, s, rank)
<1>1. CASE view.kind # "ok" \/ s \notin DOMAIN view.items
  BY <1>1 DEF WithRank, RestOK
<1>2. CASE view.kind = "ok" /\ s \in DOMAIN view.items
  <2>1. PICK S \in SUBSET Stories : view.items \in [S -> Story]
    BY DEF RestOK, BoardView, Items
  <2> DEFINE new == [view.items[s] EXCEPT !.rank = rank]
  <2>2. new \in Story
    BY <1>2, <2>1 DEF Story
  <2>3. [view.items EXCEPT ![s] = new] \in Items
    BY <2>1, <2>2 DEF Items
  <2>4. b = [view EXCEPT !.items = [view.items EXCEPT ![s] = new]]
    BY <1>2 DEF WithRank
  <2> QED
    BY <2>3, <2>4 DEF RestOK, BoardView
<1> QED BY <1>1, <1>2

(* A new fetch, a new change of a card, an answer, the next request.       *)
LEMMA NewFetch ==
  ASSUME NEW op \in Loads, NEW p \in Projects, started \in Nat
  PROVE  LET c == NewCall(op, NoKey, p, "fetch", AnyPlacing, AnyPlacing)
         IN  Shape(c) /\ c.op = op /\ c.key = NoKey /\ c.project = p
<1>1. PICK x \in Placing : TRUE
  <2>1. PICK st \in Statuses : TRUE
    BY BoardAssumption
  <2>2. [status |-> st, rank |-> NoRank] \in Placing
    BY DEF Placing
  <2> QED BY <2>2
<1>2. AnyPlacing \in Placing
  BY <1>1 DEF AnyPlacing
<1> QED
  BY <1>2, NoViewType DEF NewCall, Shape, BoardCall, Loads, BoardOps, BoardPhases

LEMMA NewWrite ==
  ASSUME NEW op \in {"status", "reorder", "delete"}, NEW s \in Stories, NEW p \in Projects,
         NEW phase \in {"status", "rank", "delete"}, NEW a \in Placing, NEW o \in Placing,
         phase = "rank" => a.rank \in Ranks, o.rank \in Ranks, started \in Nat
  PROVE  LET c == NewCall(op, s, p, phase, a, o)
         IN  Shape(c) /\ c.op = op /\ c.key = s /\ c.project = p
BY NoViewType DEF NewCall, Shape, BoardCall, Loads, BoardOps, BoardPhases

LEMMA BoardAnswerShape ==
  ASSUME NEW c, Shape(c), NEW net \in {"ok", "failed"}, NEW v \in BoardView,
         c.phase = "fetch" /\ net = "ok" => v.project = c.project
  PROVE  LET d == [c EXCEPT !.net = net, !.answer = v]
         IN  Shape(d) /\ d.op = c.op /\ d.key = c.key /\ d.project = c.project
BY DEF Shape, BoardCall

LEMMA BoardAdvanceShape ==
  ASSUME NEW c, Shape(c), c.op \notin Loads, NEW phase \in {"rank", "fetch"},
         phase = "rank" => c.arg.rank \in Ranks
  PROVE  LET d == Advance(c, phase)
         IN  Shape(d) /\ d.op = c.op /\ d.key = c.key /\ d.project = c.project
BY DEF Shape, BoardCall, Advance, BoardPhases

-----------------------------------------------------------------------------
(* What the steps do to the calls and the marks.                           *)

LEMMA Replaced ==
  ASSUME BoardInv, NEW c \in calls, NEW d, Shape(d), d.op = c.op, d.key = c.key, d.project = c.project,
         Replace(c, d), selected' = selected,
         UNCHANGED <<pending, cleared>> \/ ClearPending
  PROVE  CallsInv'
<1> USE DEF BoardInv, CallsInv, RestOK, Replace, ClearPending
<1>1. (\A x \in calls : Shape(x))' /\ LoadsSelected'
  BY DEF LoadsSelected
<1>2. (\A s \in pending : CallsOf(s) # {})'
  BY DEF CallsOf
<1>3. MarkedAlone'
  BY DEF MarkedAlone, Shape
<1> QED BY <1>1, <1>2, <1>3

LEMMA Dropped ==
  ASSUME BoardInv, NEW c \in calls, calls' = calls \ {c}, selected' = selected,
         (pending' = pending \ {c.key} /\ cleared' = cleared) \/ ClearPending
  PROVE  CallsInv'
<1> USE DEF BoardInv, CallsInv, RestOK, ClearPending
<1>1. (\A x \in calls : Shape(x))' /\ LoadsSelected'
  BY DEF LoadsSelected
<1>2. (\A s \in pending : CallsOf(s) # {})'
  BY DEF CallsOf
<1>3. MarkedAlone'
  BY DEF MarkedAlone, Shape
<1> QED BY <1>1, <1>2, <1>3

(* A fetch begins; the loads of another project are dropped.               *)
LEMMA Fetched ==
  ASSUME BoardInv, NEW op \in Loads, NEW p \in Projects, NEW kept \in SUBSET calls,
         BeginFetch(op, p, kept), \A c \in calls \ kept : c.op = "load",
         \/ selected' = selected
         \/ \A c \in kept : c.op # "load",
         op = "load" => selected' = p,
         UNCHANGED <<pending, cleared>> \/ ClearPending
  PROVE  CallsInv' /\ \E c \in calls' : c.op = op /\ c.project = p
<1> USE DEF BoardInv, CallsInv, RestOK, ClearPending
<1> DEFINE d == NewCall(op, NoKey, p, "fetch", AnyPlacing, AnyPlacing)
<1>1. Shape(d) /\ d.op = op /\ d.key = NoKey /\ d.project = p
  BY NewFetch, PageAssumption
<1>2. calls' = kept \cup {d}
  BY DEF BeginFetch
<1> HIDE DEF d
<1>3. (\A x \in calls : Shape(x))' /\ LoadsSelected'
  BY <1>1, <1>2 DEF LoadsSelected
<1>4. \A c \in calls : c.key \in Stories => c \in kept
  BY BoardAssumption DEF Shape, Loads
<1>5. (\A s \in pending : CallsOf(s) # {})'
  BY <1>2, <1>4 DEF CallsOf
<1>6. MarkedAlone'
  BY <1>1, <1>2, BoardAssumption DEF MarkedAlone
<1> QED BY <1>1, <1>2, <1>3, <1>5, <1>6

(* A card is changed: it was not marked, so it had no call.                *)
LEMMA Changed ==
  ASSUME BoardInv, NEW op \in {"status", "reorder", "delete"}, NEW s \in Stories,
         NEW phase \in {"status", "rank", "delete"}, NEW status \in Statuses, NEW rank \in Ranks \cup {NoRank},
         phase = "rank" => rank \in Ranks,
         CardEnabled(s), BeginWrite(op, s, phase, status, rank), UNCHANGED <<selected, cleared>>
  PROVE  /\ CallsInv' /\ pending' \subseteq Stories /\ started' \in 0..MaxCalls /\ overlap' \subseteq Stories
         /\ calls \subseteq calls'
<1> USE DEF BoardInv, CallsInv, RestOK
<1> DEFINE a == [status |-> status, rank |-> rank]
           d == NewCall(op, s, view.project, phase, a, view.items[s])
<1>1. view.project \in Projects /\ view.items[s] \in Placing /\ view.items[s].rank \in Ranks
  <2>1. view.project = selected /\ selected # NoProject /\ s \in DOMAIN view.items
    BY DEF CardEnabled, ViewKind
  <2>2. PICK S \in SUBSET Stories : view.items \in [S -> Story]
    BY DEF BoardView, Items
  <2> QED BY <2>1, <2>2 DEF Story, Placing
<1>2. a \in Placing /\ (phase = "rank" => a.rank \in Ranks)
  BY DEF Placing
<1>3. Shape(d) /\ d.op = op /\ d.key = s
  BY <1>1, <1>2, NewWrite, PageAssumption
<1>4. calls' = calls \cup {d} /\ pending' = pending \cup {s} /\ s \notin pending
  BY DEF BeginWrite, CardEnabled
<1>5. started' \in 0..MaxCalls /\ overlap' \subseteq Stories
  BY PageAssumption DEF BeginWrite, Start
<1> HIDE DEF d, a
<1>6. (\A x \in calls : Shape(x))' /\ LoadsSelected'
  BY <1>3, <1>4 DEF LoadsSelected
<1>7. (\A t \in pending : CallsOf(t) # {})'
  BY <1>3, <1>4 DEF CallsOf
<1>8. MarkedAlone'
  BY <1>3, <1>4 DEF MarkedAlone
<1> QED BY <1>4, <1>5, <1>6, <1>7, <1>8

-----------------------------------------------------------------------------
(* Every step preserves the invariant.                                     *)

LEMMA BoardInitInv == BoardInit => BoardInv
<1> SUFFICES ASSUME BoardInit PROVE BoardInv
  OBVIOUS
<1> USE DEF BoardInit, Mount
<1>1. RestOK
  <2>1. \E S \in SUBSET Stories : srv \in [S -> Story]
    BY BoardAssumption DEF Story
  <2>2. filtered \in BOOLEAN /\ strayed \in BOOLEAN
    OBVIOUS
  <2>3. started \in 0..MaxCalls
    BY PageAssumption
  <2> QED BY <2>1, <2>2, <2>3, NoViewType DEF RestOK
<1>2. CallsInv
  BY DEF CallsInv, LoadsSelected, MarkedAlone
<1> QED BY <1>1, <1>2 DEF BoardInv, Awaited

LEMMA BoardUserInv ==
  ASSUME BoardInv, BoardUser, page' = page
  PROVE  BoardInv'
<1> USE DEF BoardInv, RestOK
<1>1. ASSUME NEW p \in Projects \cup {NoProject}, SelectBoardProject(p)
      PROVE  BoardInv'
  <2> USE <1>1 DEF SelectBoardProject, Start
  <2> DEFINE kept == {c \in calls : c.op # "load"}
  <2>01. strayed' \in BOOLEAN
    OBVIOUS
  <2>02. started' \in 0..MaxCalls
    BY ONLY <1>1, PageAssumption, started \in 0..MaxCalls DEF SelectBoardProject, Start
  <2>0. strayed' \in BOOLEAN /\ started' \in 0..MaxCalls
    BY <2>01, <2>02
  <2>1. CASE p = NoProject
    <3>1. calls' = kept
      BY <2>1
    <3>2. CallsInv'
      <4>1. (\A c \in calls : Shape(c))' /\ LoadsSelected'
        BY <3>1 DEF CallsInv, LoadsSelected
      <4>2. \A c \in calls : c.key \in Stories => c \in kept
        BY BoardAssumption DEF CallsInv, Shape, Loads
      <4>3. (\A s \in pending : CallsOf(s) # {})'
        BY <3>1, <4>2 DEF CallsInv, CallsOf
      <4>4. MarkedAlone'
        BY <3>1 DEF CallsInv, MarkedAlone
      <4> QED BY <4>1, <4>3, <4>4 DEF CallsInv
    <3>3. Awaited'
      BY <2>1 DEF Awaited
    <3> QED BY <2>0, <2>1, <3>2, <3>3
  <2>2. CASE p # NoProject
    <3>1. BeginFetch("load", p, kept)
      BY <2>2
    <3>2. CallsInv' /\ \E c \in calls' : c.op = "load" /\ c.project = p
      BY <2>2, <3>1, Fetched DEF Loads
    <3>3. overlap' \subseteq Stories
      BY <3>1 DEF BeginFetch, InFlight, Writing, CallsInv, Shape, Loads
    <3>4. Awaited'
      BY <3>2 DEF Awaited
    <3> QED BY <2>0, <3>2, <3>3, <3>4
  <2> QED BY <2>1, <2>2
<1>2. CASE SetFilter
  <2>1. CallsInv'
    BY <1>2 DEF SetFilter, pageVars, CallsInv, LoadsSelected, CallsOf, MarkedAlone
  <2> QED BY <1>2, <2>1 DEF SetFilter, pageVars, Awaited
<1>3. CASE RefreshBoard
  <2> USE <1>3 DEF RefreshBoard, Start
  <2>1. CallsInv'
    BY Fetched DEF Loads
  <2>2. overlap' \subseteq Stories /\ calls \subseteq calls'
    BY DEF BeginFetch, InFlight, Writing, CallsInv, Shape, Loads
  <2> QED BY <2>1, <2>2, PageAssumption DEF Awaited, ClearPending
<1>4. ASSUME NEW p \in Projects, SprintLifecycle(p)
      PROVE  BoardInv'
  <2> USE <1>4 DEF SprintLifecycle, Start
  <2>1. CASE p = selected
    <3>1. CallsInv'
      BY <2>1, Fetched DEF Loads
    <3>2. overlap' \subseteq Stories /\ calls \subseteq calls'
      BY <2>1 DEF BeginFetch, InFlight, Writing, CallsInv, Shape, Loads
    <3> QED BY <3>1, <3>2, PageAssumption DEF Awaited
  <2>2. CASE p # selected
    <3>1. CallsInv'
      BY <2>2 DEF CallsInv, LoadsSelected, CallsOf, MarkedAlone
    <3> QED BY <2>2, <3>1, PageAssumption DEF Awaited
  <2> QED BY <2>1, <2>2
<1>5. ASSUME NEW s \in Stories, NEW status \in Statuses, NEW rank \in Ranks \cup {NoRank},
             HandleStoryStatusChange(s, status, rank)
      PROVE  BoardInv'
  <2> USE <1>5 DEF HandleStoryStatusChange
  <2>1. CallsInv' /\ pending' \subseteq Stories /\ started' \in 0..MaxCalls /\ overlap' \subseteq Stories
          /\ calls \subseteq calls'
    BY Changed
  <2>2. view' \in BoardView /\ view'.project = view.project
    BY ChangeType
  <2> QED BY <2>1, <2>2 DEF Awaited
<1>6. ASSUME NEW s \in Stories, NEW rank \in Ranks, HandleStoryReorder(s, rank)
      PROVE  BoardInv'
  <2> USE <1>6 DEF HandleStoryReorder
  <2>0. view.items[s].status \in Statuses
    BY DEF CardEnabled, BoardView, Items, Story
  <2>1. CallsInv' /\ pending' \subseteq Stories /\ started' \in 0..MaxCalls /\ overlap' \subseteq Stories
          /\ calls \subseteq calls'
    BY <2>0, Changed
  <2>2. view' \in BoardView /\ view'.project = view.project
    BY RankType
  <2> QED BY <2>1, <2>2 DEF Awaited
<1>7. ASSUME NEW s \in Stories, HandleStoryDelete(s)
      PROVE  BoardInv'
  <2> USE <1>7 DEF HandleStoryDelete
  <2>0. view.items[s].status \in Statuses
    BY DEF CardEnabled, BoardView, Items, Story
  <2>1. CallsInv' /\ pending' \subseteq Stories /\ started' \in 0..MaxCalls /\ overlap' \subseteq Stories
          /\ calls \subseteq calls'
    BY <2>0, Changed
  <2> QED BY <2>1 DEF Awaited
<1> QED BY <1>1, <1>2, <1>3, <1>4, <1>5, <1>6, <1>7 DEF BoardUser

LEMMA BoardServerInv ==
  ASSUME BoardInv, BoardServer, page' = page
  PROVE  BoardInv'
<1> USE DEF BoardInv, RestOK
<1>1. ASSUME NEW c \in calls, BoardFetchAnswered(c)
      PROVE  BoardInv'
  <2> USE <1>1 DEF BoardFetchAnswered
  <2>1. Shape(c) /\ c.project \in Projects
    BY DEF CallsInv, Shape, BoardCall
  <2>2. PICK net \in {"ok", "failed"}, v \in BoardView :
          Answered(c, net, v) /\ (net = "ok" => v.project = c.project)
    BY <2>1, FetchType, NoViewType
  <2> DEFINE d == [c EXCEPT !.net = net, !.answer = v]
  <2>3. Shape(d) /\ d.op = c.op /\ d.key = c.key /\ d.project = c.project
    BY ONLY <2>1, <2>2, BoardAnswerShape
  <2>4. Replace(c, d)
    BY <2>2 DEF Answered
  <2> HIDE DEF d
  <2>5. CallsInv'
    BY <2>3, <2>4, Replaced
  <2>6. Awaited'
    BY <2>3, <2>4 DEF Awaited, Replace
  <2> QED BY <2>5, <2>6
<1>2. ASSUME NEW c \in calls, BoardWriteAnswered(c)
      PROVE  BoardInv'
  <2> USE <1>2 DEF BoardWriteAnswered
  <2>1. Shape(c) /\ c.phase # "fetch"
    BY DEF CallsInv, Writing
  <2>2. PICK net \in {"ok", "failed"} : Answered(c, net, NoView)
    OBVIOUS
  <2> DEFINE d == [c EXCEPT !.net = net, !.answer = NoView]
  <2>3. Shape(d) /\ d.op = c.op /\ d.key = c.key /\ d.project = c.project
    BY ONLY <2>1, <2>2, BoardAnswerShape, NoViewType
  <2>4. Replace(c, d)
    BY <2>2 DEF Answered
  <2> HIDE DEF d
  <2>5. CallsInv'
    BY <2>3, <2>4, Replaced
  <2>6. Awaited'
    BY <2>3, <2>4 DEF Awaited, Replace
  <2>7. c.key \in Stories
    BY <2>1 DEF Shape
  <2>8. \E S \in SUBSET Stories : srv' \in [S -> Story]
    <3>1. PICK S \in SUBSET Stories : srv \in [S -> Story]
      OBVIOUS
    <3>2. CASE UNCHANGED srv
      BY <3>1, <3>2
    <3>3. CASE c.key \in DOMAIN srv /\ Patch(c)
      <4>1. CASE c.phase = "status"
        <5>1. c.arg.status \in Statuses
          BY <2>1 DEF Shape, BoardCall, Placing
        <5>2. [srv[c.key] EXCEPT !.status = c.arg.status] \in Story
          BY <3>1, <3>3, <5>1 DEF Story
        <5>3. srv' = [srv EXCEPT ![c.key] = [srv[c.key] EXCEPT !.status = c.arg.status]]
          BY <3>3, <4>1 DEF Patch
        <5> QED BY <3>1, <3>3, <5>2, <5>3
      <4>2. CASE c.phase = "rank"
        <5>1. c.arg.rank \in Ranks
          BY <2>1, <4>2 DEF Shape
        <5>2. [srv[c.key] EXCEPT !.rank = c.arg.rank] \in Story
          BY <3>1, <3>3, <5>1 DEF Story
        <5>3. srv' = [srv EXCEPT ![c.key] = [srv[c.key] EXCEPT !.rank = c.arg.rank]]
          BY <3>3, <4>2 DEF Patch
        <5> QED BY <3>1, <3>3, <5>2, <5>3
      <4>3. CASE c.phase = "delete"
        <5>1. srv' \in [S \ {c.key} -> Story]
          BY <3>1, <3>3, <4>3 DEF Patch
        <5> QED BY <5>1
      <4> QED BY <2>1, <4>1, <4>2, <4>3 DEF Shape, BoardCall, BoardPhases
    <3> QED BY <3>2, <3>3
  <2> QED BY <2>5, <2>6, <2>7, <2>8
<1> QED BY <1>1, <1>2 DEF BoardServer

LEMMA BoardHandlerInv ==
  ASSUME BoardInv, BoardHandlers, page' = page
  PROVE  BoardInv'
<1> USE DEF BoardInv, RestOK
<1> SUFFICES ASSUME NEW c \in calls,
                    \/ LoadDone(c) \/ RefreshDone(c) \/ LifecycleDone(c)
                    \/ StatusSaved(c) \/ StatusFailed(c) \/ StatusRankDone(c) \/ StatusRefetched(c)
                    \/ ReorderDone(c) \/ DeleteDone(c) \/ DeleteRefetched(c)
             PROVE  BoardInv'
  BY DEF BoardHandlers
<1>0. Shape(c) /\ c.op \in BoardOps /\ c.net \in {"sent", "ok", "failed"} /\ c.answer \in BoardView
        /\ c.project \in Projects /\ c.arg.status \in Statuses /\ c.arg.rank \in Ranks \cup {NoRank}
        /\ c.old.status \in Statuses /\ c.old.rank \in Ranks \cup {NoRank}
  BY DEF CallsInv, Shape, BoardCall, Placing
<1>00. \A K : InFlight(K) \subseteq {x.key : x \in {y \in K : y.op \notin Loads}}
         \/ ~(K \subseteq calls)
  BY DEF InFlight, Writing, CallsInv, Shape
<1>k. \A K \in SUBSET calls : InFlight(K) \subseteq Stories
  BY <1>00 DEF CallsInv, Shape
<1>1. CASE LoadDone(c)
  <2> USE <1>1 DEF LoadDone
  <2>1. c.key = NoKey /\ c.phase = "fetch"
    BY <1>0 DEF Shape, Loads
  <2>2. (pending' = pending \ {c.key} /\ cleared' = cleared) \/ ClearPending
    BY <2>1, BoardAssumption
  <2>3. CallsInv'
    BY <2>2, Dropped
  <2>4. View("error", c.project, NoItems) \in BoardView /\ View("error", c.project, NoItems).project = c.project
    BY <1>0, ViewType, NoItemsType
  <2>5. view' \in BoardView /\ view'.project = c.project
    BY <1>0, <2>1, <2>4 DEF Shape
  <2>6. c.project = selected
    BY DEF CallsInv, LoadsSelected
  <2>7. Awaited'
    BY <2>5, <2>6 DEF Awaited
  <2>8. strayed' \in BOOLEAN
    OBVIOUS
  <2> QED BY <2>3, <2>5, <2>7, <2>8 DEF ClearPending
<1>2. CASE RefreshDone(c)
  <2> USE <1>2 DEF RefreshDone
  <2>1. c.key = NoKey /\ c.phase = "fetch"
    BY <1>0 DEF Shape, Loads
  <2>2. pending' = pending \ {c.key} /\ cleared' = cleared
    BY <2>1, BoardAssumption
  <2>3. CallsInv'
    BY <2>2, Dropped
  <2>4. Awaited' /\ view' \in BoardView
    BY <1>0, <2>1 DEF Awaited, Install, Shape
  <2>5. strayed' \in BOOLEAN
    BY DEF Install
  <2> QED BY <2>3, <2>4, <2>5
<1>3. CASE LifecycleDone(c)
  <2> USE <1>3 DEF LifecycleDone
  <2>1. c.key = NoKey /\ c.phase = "fetch"
    BY <1>0 DEF Shape, Loads
  <2>2. (pending' = pending \ {c.key} /\ cleared' = cleared) \/ ClearPending
    BY <2>1, BoardAssumption
  <2>3. CallsInv'
    BY <2>2, Dropped
  <2>4. Awaited' /\ view' \in BoardView
    BY <1>0, <2>1 DEF Awaited, Install, Shape
  <2>5. strayed' \in BOOLEAN
    BY DEF Install
  <2> QED BY <2>3, <2>4, <2>5 DEF ClearPending
<1>4. CASE StatusSaved(c)
  <2> USE <1>4 DEF StatusSaved
  <2>1. CASE c.arg.rank = NoRank
    <3>1. CallsInv'
      BY <2>1, Dropped DEF End
    <3>2. Awaited'
      BY <2>1 DEF Awaited, End
    <3> QED BY <2>1, <3>1, <3>2 DEF End
  <2>2. CASE c.arg.rank # NoRank
    <3>1. Shape(Advance(c, "rank")) /\ Advance(c, "rank").op = c.op
            /\ Advance(c, "rank").key = c.key /\ Advance(c, "rank").project = c.project
      BY <1>0, <2>2, BoardAdvanceShape DEF Loads
    <3>2. Replace(c, Advance(c, "rank")) /\ UNCHANGED pending
      BY <2>2 DEF Await
    <3>3. CallsInv'
      BY <3>1, <3>2, Replaced
    <3>4. Awaited'
      BY <3>1, <3>2 DEF Awaited, Replace
    <3> QED BY <3>2, <3>3, <3>4
  <2> QED BY <2>1, <2>2
<1>5. CASE StatusFailed(c)
  <2> USE <1>5 DEF StatusFailed
  <2>1. CallsInv'
    BY Dropped DEF End
  <2>2. c.key \in Stories
    BY <1>0 DEF Shape, Loads
  <2>3. view' \in BoardView /\ view'.project = view.project
    BY <1>0, <2>2, ChangeType
  <2>4. Awaited'
    BY <2>3 DEF Awaited, End
  <2> QED BY <2>1, <2>3, <2>4 DEF End
<1>6. CASE StatusRankDone(c)
  <2> USE <1>6 DEF StatusRankDone
  <2>1. CASE c.net = "ok"
    <3>1. CallsInv'
      BY <2>1, Dropped DEF End
    <3>2. Awaited'
      BY <2>1 DEF Awaited, End
    <3> QED BY <2>1, <3>1, <3>2 DEF End
  <2>2. CASE c.net # "ok"
    <3>1. Shape(Advance(c, "fetch")) /\ Advance(c, "fetch").op = c.op
            /\ Advance(c, "fetch").key = c.key /\ Advance(c, "fetch").project = c.project
      BY <1>0, BoardAdvanceShape DEF Loads
    <3>2. Replace(c, Advance(c, "fetch")) /\ ClearPending
      BY <2>2 DEF Await
    <3>3. CallsInv'
      BY <3>1, <3>2, Replaced
    <3>4. Awaited'
      BY <3>1, <3>2 DEF Awaited, Replace
    <3>5. overlap' \subseteq Stories
      BY <1>k, <2>2
    <3> QED BY <3>2, <3>3, <3>4, <3>5 DEF ClearPending
  <2> QED BY <2>1, <2>2
<1>7. CASE StatusRefetched(c)
  <2> USE <1>7 DEF StatusRefetched
  <2>1. CallsInv'
    BY Dropped DEF End
  <2>2. Awaited' /\ view' \in BoardView
    BY <1>0 DEF Awaited, Install, Shape, End
  <2>3. strayed' \in BOOLEAN
    BY DEF Install
  <2>4. overlap' \subseteq Stories
    BY <1>0 DEF Shape, Loads
  <2> QED BY <2>1, <2>2, <2>3, <2>4 DEF End
<1>8. CASE ReorderDone(c)
  <2> USE <1>8 DEF ReorderDone
  <2>1. CallsInv'
    BY Dropped DEF End
  <2>2. view' \in BoardView /\ view'.project = view.project
    <3>1. c.key \in Stories /\ c.old.rank \in Ranks
      BY <1>0 DEF Shape, Loads
    <3>2. CASE c.net = "ok"
      BY <3>2
    <3>3. CASE c.net # "ok"
      BY <1>0, <3>1, <3>3, RankType
    <3> QED BY <3>2, <3>3
  <2>3. Awaited'
    BY <2>2 DEF Awaited, End
  <2> QED BY <2>1, <2>2, <2>3 DEF End
<1>9. CASE DeleteDone(c)
  <2> USE <1>9 DEF DeleteDone
  <2>1. CASE c.net = "failed"
    <3>1. CallsInv'
      BY <2>1, Dropped DEF End
    <3>2. Awaited'
      BY <2>1 DEF Awaited, End
    <3> QED BY <2>1, <3>1, <3>2 DEF End
  <2>2. CASE c.net # "failed"
    <3>1. Shape(Advance(c, "fetch")) /\ Advance(c, "fetch").op = c.op
            /\ Advance(c, "fetch").key = c.key /\ Advance(c, "fetch").project = c.project
      BY <1>0, BoardAdvanceShape DEF Loads
    <3>2. Replace(c, Advance(c, "fetch")) /\ UNCHANGED pending
      BY <2>2 DEF Await
    <3>3. CallsInv'
      BY <3>1, <3>2, Replaced
    <3>4. Awaited'
      BY <3>1, <3>2 DEF Awaited, Replace
    <3>5. overlap' \subseteq Stories
      BY <1>k, <2>2
    <3> QED BY <3>2, <3>3, <3>4, <3>5
  <2> QED BY <2>1, <2>2
<1>10. CASE DeleteRefetched(c)
  <2> USE <1>10 DEF DeleteRefetched
  <2>1. CallsInv'
    BY Dropped
  <2>2. Awaited' /\ view' \in BoardView
    BY <1>0 DEF Awaited, Install, Shape
  <2>3. strayed' \in BOOLEAN
    BY DEF Install
  <2>4. overlap' \subseteq Stories
    BY <1>0 DEF Shape, Loads
  <2> QED BY <2>1, <2>2, <2>3, <2>4 DEF ClearPending
<1> QED BY <1>1, <1>2, <1>3, <1>4, <1>5, <1>6, <1>7, <1>8, <1>9, <1>10

LEMMA BoardNextInv == BoardInv /\ [BoardNext]_boardVars => BoardInv'
<1> SUFFICES ASSUME BoardInv, [BoardNext]_boardVars PROVE BoardInv'
  OBVIOUS
<1>1. CASE BoardNext
  BY <1>1, BoardUserInv, BoardServerInv, BoardHandlerInv DEF BoardNext, Mounted
<1>2. CASE UNCHANGED boardVars
  <2>1. CallsInv'
    BY <1>2 DEF boardVars, pageVars, BoardInv, CallsInv, LoadsSelected, CallsOf, MarkedAlone
  <2> QED BY <1>2, <2>1 DEF boardVars, pageVars, BoardInv, RestOK, Awaited
<1> QED BY <1>1, <1>2

-----------------------------------------------------------------------------
(* What the board promises.                                                *)

(* The inductive invariant of the board, for any projects, stories and
   number of overlapping calls (board-page-callbacks.ts, board/page.tsx).  *)
THEOREM BoardInvariance == BoardSpec => []BoardInv
<1>1. BoardInit => BoardInv
  BY BoardInitInv
<1>2. BoardInv /\ [BoardNext]_boardVars => BoardInv'
  BY BoardNextInv
<1> QED BY <1>1, <1>2, PTL DEF BoardSpec

LEMMA BoardInvSays == BoardInv => BoardTypeOK
BY DEF BoardInv, RestOK, CallsInv, Shape, BoardTypeOK

(* The page, its handlers and the server hold what the code puts there.    *)
THEOREM BoardTypeCorrect == BoardSpec => []BoardTypeOK
BY BoardInvSays, BoardInvariance, PTL

(* No card stays disabled: whoever marked it is still waiting, or a refetch
   took the mark away (the finally blocks of board-page-callbacks.ts).     *)
THEOREM MarksEnd == BoardSpec => []PendingHasHandler
<1>1. BoardInv => PendingHasHandler
  BY DEF BoardInv, CallsInv, PendingHasHandler
<1> QED BY <1>1, BoardInvariance, PTL

(* A story has one change at a time, as long as no refetch took its mark
   away (pendingStoryIds of board/page.tsx).                               *)
THEOREM ChangesOneByOne == BoardSpec => []OneChangePerStory
<1>1. BoardInv => OneChangePerStory
  <2> SUFFICES ASSUME BoardInv, NEW s \in Stories \ cleared PROVE Cardinality(CallsOf(s)) <= 1
    BY DEF OneChangePerStory
  <2>1. CASE CallsOf(s) = {}
    BY <2>1, FS_EmptySet
  <2>2. ASSUME NEW c \in CallsOf(s) PROVE Cardinality(CallsOf(s)) <= 1
    <3>1. CallsOf(s) = {c}
      BY DEF BoardInv, CallsInv, MarkedAlone, CallsOf
    <3>2. Cardinality({c}) = 1
      BY FS_Singleton
    <3> QED BY <3>1, <3>2
  <2> QED BY <2>1, <2>2
<1> QED BY <1>1, BoardInvariance, PTL

(* The board that shows as loading is being loaded, unless the answer for a
   project no longer selected was installed over it (the load effect and
   refreshCurrentView of board/page.tsx).                                  *)
THEOREM SpinnersAreAwaited == BoardSpec => []LoadingIsAwaited
<1>1. BoardInv => LoadingIsAwaited
  <2> SUFFICES ASSUME BoardInv, ViewKind = "loading", ~strayed
               PROVE  \E c \in calls : c.op = "load" /\ c.project = selected
    BY DEF LoadingIsAwaited
  <2>1. view.kind # "loading"
    BY DEF BoardInv, RestOK, BoardView
  <2>2. selected # NoProject /\ view.project # selected
    BY <2>1 DEF ViewKind
  <2> QED BY <2>2 DEF BoardInv, Awaited
<1> QED BY <1>1, BoardInvariance, PTL

-----------------------------------------------------------------------------
(* The board and the server.                                               *)

WritesStory(c, s) == c.key = s /\ Writing(c)

\* What the operations send, one request after another.
BoardSendsItsPhases(c) ==
  /\ c.op = "status" => c.phase \in {"status", "rank", "fetch"}
  /\ c.op = "reorder" => c.phase = "rank" /\ c.arg.rank \in Ranks
  /\ c.op = "delete" => c.phase \in {"delete", "fetch"}

\* A story that is compared: it is on the board of the selected project, and the board is
\* not about to be replaced by a load.
Compared(s) == ViewKind = "ok" /\ s \in DOMAIN view.items /\ \A c \in calls : c.op # "load"

Card(status, rank) == [status |-> status, rank |-> rank]
Agrees(s) == s \in DOMAIN srv /\ view.items[s] = srv[s]

\* What is shown and what the server has while a change of the story is out: what the
\* handler captured can be put back, and what it sent is what is shown.
ChangeAgrees(c, s) ==
  LET placed == IF c.arg.rank = NoRank THEN c.old.rank ELSE c.arg.rank
      made == c.net = "ok"
  IN  /\ c.op = "status" /\ c.phase = "status" =>
           /\ s \in DOMAIN srv /\ view.items[s] = Card(c.arg.status, placed)
           /\ srv[s] = Card(IF made THEN c.arg.status ELSE c.old.status, c.old.rank)
      /\ c.op = "status" /\ c.phase = "rank" =>
           /\ s \in DOMAIN srv /\ view.items[s] = Card(c.arg.status, c.arg.rank)
           /\ srv[s] = Card(c.arg.status, IF made THEN c.arg.rank ELSE c.old.rank)
      /\ c.op = "reorder" =>
           /\ s \in DOMAIN srv /\ view.items[s] = Card(c.old.status, c.arg.rank)
           /\ srv[s] = Card(c.old.status, IF made THEN c.arg.rank ELSE c.old.rank)
      /\ c.op = "delete" /\ ~made => Agrees(s)

\* A change that overlapped nothing is alone with its story, and no fetch is under way;
\* so an answer in hand has what the server has.  A story no call is about is shown as
\* the server has it; one whose change ends with a fetch is not compared until then.
StoryAgrees(s) ==
  /\ \A c, d \in calls : WritesStory(c, s) => ~Fetching(d) /\ (WritesStory(d, s) => d = c)
  /\ \A f \in calls : Fetching(f) /\ f.net = "ok" /\ s \in DOMAIN f.answer.items =>
       s \in DOMAIN srv /\ f.answer.items[s] = srv[s]
  /\ Compared(s) =>
       /\ \A c \in calls : WritesStory(c, s) => ChangeAgrees(c, s)
       /\ (\A c \in calls : c.key # s) => Agrees(s)

BoardAgrees ==
  /\ \A c \in calls : BoardSendsItsPhases(c)
  /\ \A s \in Stories \ overlap : StoryAgrees(s)

LEMMA BoardAnswerFields ==
  ASSUME NEW c \in BoardCall, NEW net, NEW v
  PROVE  LET d == [c EXCEPT !.net = net, !.answer = v]
         IN  /\ d.op = c.op /\ d.key = c.key /\ d.phase = c.phase /\ d.arg = c.arg /\ d.old = c.old
             /\ d.net = net /\ d.answer = v
BY DEF BoardCall

LEMMA BoardAdvanceFields ==
  ASSUME NEW c \in BoardCall, NEW phase
  PROVE  LET d == Advance(c, phase)
         IN  /\ d.op = c.op /\ d.key = c.key /\ d.phase = phase /\ d.arg = c.arg /\ d.old = c.old
             /\ d.net = "sent"
BY DEF BoardCall, Advance

LEMMA CallShapes == ASSUME BoardInv PROVE \A c \in calls : Shape(c) /\ c \in BoardCall
BY DEF BoardInv, CallsInv, Shape

\* A fetch begins: the stories with a change out are not compared any more.
LEMMA FetchBeginsAgrees ==
  ASSUME BoardInv, BoardAgrees, NEW op \in Loads, NEW p \in Projects, NEW kept \in SUBSET calls,
         BeginFetch(op, p, kept), \A c \in calls \ kept : c.op = "load",
         op # "load" => kept = calls /\ selected' = selected, UNCHANGED <<view, srv>>
  PROVE  BoardAgrees'
<1> DEFINE d == NewCall(op, NoKey, p, "fetch", AnyPlacing, AnyPlacing)
<1>1. d.op = op /\ d.key = NoKey /\ d.phase = "fetch" /\ d.net = "sent" /\ calls' = kept \cup {d}
  BY DEF NewCall, BeginFetch
<1> HIDE DEF d
<1>2. \A c \in calls' : BoardSendsItsPhases(c)
  BY <1>1 DEF BoardAgrees, BoardSendsItsPhases, Loads
<1>3. ASSUME NEW s \in Stories \ overlap' PROVE StoryAgrees(s)'
  <2>1. s \notin overlap /\ \A c \in kept : ~WritesStory(c, s)
    BY DEF BeginFetch, InFlight, WritesStory
  <2>2. StoryAgrees(s)
    BY <2>1 DEF BoardAgrees
  <2>3. \A c \in calls' : ~WritesStory(c, s)
    BY <1>1, <2>1 DEF WritesStory, Writing
  <2>4. \A f \in calls' : Fetching(f) /\ f.net = "ok" /\ s \in DOMAIN f.answer.items =>
          s \in DOMAIN srv' /\ f.answer.items[s] = srv'[s]
    BY <1>1, <2>2 DEF StoryAgrees
  <2>5. Compared(s)' => op # "load"
    BY <1>1 DEF Compared
  <2>6. Compared(s)' /\ (\A c \in calls' : c.key # s) => Agrees(s)'
    BY <1>1, <2>2, <2>5 DEF Compared, StoryAgrees, Agrees, ViewKind
  <2> QED BY <2>3, <2>4, <2>6 DEF StoryAgrees, WritesStory
<1> QED BY <1>2, <1>3 DEF BoardAgrees

\* A story is changed: it was shown as the server has it, or it is not compared any more.
LEMMA ChangeBeginsAgrees ==
  ASSUME BoardInv, BoardAgrees, NEW op \in {"status", "reorder", "delete"}, NEW s \in Stories,
         NEW phase \in {"status", "rank", "delete"}, NEW status \in Statuses, NEW rank \in Ranks \cup {NoRank},
         CardEnabled(s), BeginWrite(op, s, phase, status, rank), UNCHANGED <<selected, srv>>,
         view'.kind = view.kind, view'.project = view.project,
         NEW x, view'.items = [view.items EXCEPT ![s] = x],
         op = "status" => phase = "status" /\ x = Card(status, IF rank = NoRank THEN view.items[s].rank ELSE rank),
         op = "reorder" => phase = "rank" /\ rank \in Ranks /\ x = Card(view.items[s].status, rank),
         op = "delete" => phase = "delete" /\ x = view.items[s]
  PROVE  BoardAgrees'
<1>0. PICK d : d = NewCall(op, s, view.project, phase, [status |-> status, rank |-> rank], view.items[s])
  OBVIOUS
<1>1. /\ d.op = op /\ d.key = s /\ d.phase = phase /\ d.net = "sent" /\ d.old = view.items[s]
      /\ d.arg.status = status /\ d.arg.rank = rank /\ calls' = calls \cup {d}
  BY <1>0 DEF NewCall, BeginWrite
<1>2. Writing(d) /\ ~Fetching(d)
  BY <1>1 DEF Writing, Fetching
<1>3. \A c \in calls' : BoardSendsItsPhases(c)
  BY <1>1 DEF BoardAgrees, BoardSendsItsPhases
<1>4. ViewKind = "ok" /\ s \in DOMAIN view.items /\ DOMAIN view'.items = DOMAIN view.items /\ ViewKind' = ViewKind
  BY DEF CardEnabled, ViewKind
<1>5. ASSUME NEW t \in Stories \ overlap', t # s PROVE StoryAgrees(t)'
  <2>1. t \notin overlap
    BY DEF BeginWrite
  <2>2. StoryAgrees(t) /\ ~WritesStory(d, t)
    BY <1>1, <1>5, <2>1 DEF BoardAgrees, WritesStory
  <2>3. \A c, e \in calls' : WritesStory(c, t) => ~Fetching(e) /\ (WritesStory(e, t) => e = c)
    BY <1>1, <1>2, <2>2 DEF StoryAgrees
  <2>4. \A f \in calls' : Fetching(f) /\ f.net = "ok" /\ t \in DOMAIN f.answer.items =>
          t \in DOMAIN srv' /\ f.answer.items[t] = srv'[t]
    BY <1>1, <1>2, <2>2 DEF StoryAgrees
  <2>5. Compared(t)' => Compared(t) /\ view'.items[t] = view.items[t]
    BY <1>1, <1>4, <1>5 DEF Compared
  <2>6. ASSUME Compared(t)', NEW c \in calls', WritesStory(c, t) PROVE ChangeAgrees(c, t)'
    <3>1. c \in calls /\ ChangeAgrees(c, t)
      BY <1>1, <2>2, <2>5, <2>6 DEF StoryAgrees
    <3> QED BY <2>5, <2>6, <3>1 DEF ChangeAgrees, Agrees
  <2>7. Compared(t)' /\ (\A c \in calls' : c.key # t) => Agrees(t)'
    BY <1>1, <2>2, <2>5 DEF StoryAgrees, Agrees
  <2> QED BY <2>3, <2>4, <2>6, <2>7 DEF StoryAgrees, WritesStory
<1>6. ASSUME s \notin overlap' PROVE StoryAgrees(s)'
  <2>1. s \notin overlap /\ Fetches = {} /\ WritesOf(s) = {}
    BY <1>6 DEF BeginWrite
  <2>2. \A c \in calls : ~Fetching(c) /\ c.key # s
    BY <2>1 DEF Fetches, WritesOf, CallsOf, Fetching, Writing
  <2>3. \A c \in calls : c.op # "load"
    BY <2>2, CallShapes DEF Shape, Loads, Fetching
  <2>4. Agrees(s)
    BY <1>4, <2>1, <2>2, <2>3 DEF BoardAgrees, StoryAgrees, Compared
  <2>5. view.items[s] = Card(view.items[s].status, view.items[s].rank)
    BY <1>4 DEF BoardInv, RestOK, BoardView, Items, Story, Card
  <2>6. view'.items[s] = x
    BY <1>4
  <2>7. ChangeAgrees(d, s)'
    <3>1. d.old = srv'[s] /\ srv'[s] = Card(d.old.status, d.old.rank) /\ s \in DOMAIN srv'
      BY <1>1, <2>4, <2>5 DEF Agrees
    <3>2. CASE op = "status"
      BY <1>1, <2>6, <3>1, <3>2 DEF ChangeAgrees
    <3>3. CASE op = "reorder"
      BY <1>1, <2>6, <3>1, <3>3 DEF ChangeAgrees
    <3>4. CASE op = "delete"
      BY <1>1, <2>6, <3>1, <3>4 DEF ChangeAgrees, Agrees
    <3> QED BY <3>2, <3>3, <3>4
  <2>8. \A c \in calls' : c.key = s => c = d
    BY <1>1, <2>2
  <2>9. \A c, e \in calls' : WritesStory(c, s) => ~Fetching(e) /\ (WritesStory(e, s) => e = c)
    BY <1>1, <1>2, <2>2 DEF WritesStory
  <2>10. \A f \in calls' : ~Fetching(f)
    BY <1>1, <1>2, <2>2
  <2> QED BY <1>1, <2>7, <2>8, <2>9, <2>10 DEF StoryAgrees, WritesStory
<1> QED BY <1>3, <1>5, <1>6 DEF BoardAgrees

\* A call is replaced by a later form of itself.
LEMMA BoardFetchAnswerAgrees ==
  ASSUME BoardInv, BoardAgrees, NEW c \in calls, BoardFetchAnswered(c)
  PROVE  BoardAgrees'
<1>1. Fetching(c) /\ c.net = "sent" /\ UNCHANGED <<selected, view, srv, overlap>>
  BY DEF BoardFetchAnswered
<1>2. PICK net, v : Answered(c, net, v) /\ (net = "ok" => v = FetchBoardState(c.project))
  <2>1. CASE Answered(c, "ok", FetchBoardState(c.project))
    <3>1. PICK v : v = FetchBoardState(c.project)
      OBVIOUS
    <3> QED BY <2>1, <3>1
  <2>2. CASE Answered(c, "failed", NoView)
    <3>1. PICK v : v = NoView
      OBVIOUS
    <3> QED BY <2>2, <3>1
  <2> QED BY <2>1, <2>2 DEF BoardFetchAnswered
<1>3. PICK e : e = [c EXCEPT !.net = net, !.answer = v]
  OBVIOUS
<1>4. /\ e.op = c.op /\ e.key = c.key /\ e.phase = "fetch" /\ e.arg = c.arg /\ e.net = net /\ e.answer = v
      /\ calls' = (calls \ {c}) \cup {e} /\ c.phase = "fetch"
  BY <1>1, <1>2, <1>3, CallShapes, BoardAnswerFields DEF Answered, Replace, Fetching
<1>5. \A x \in calls' : BoardSendsItsPhases(x)
  BY <1>4 DEF BoardAgrees, BoardSendsItsPhases
<1>6. ASSUME NEW s \in Stories \ overlap' PROVE StoryAgrees(s)'
  <2>1. StoryAgrees(s)
    BY <1>1 DEF BoardAgrees
  <2>2. ~WritesStory(e, s) /\ ~WritesStory(c, s)
    BY <1>4 DEF WritesStory, Writing
  <2>3. \A x, y \in calls' : WritesStory(x, s) => ~Fetching(y) /\ (WritesStory(y, s) => y = x)
    BY <1>1, <1>4, <2>1, <2>2 DEF StoryAgrees
  <2>4. net = "ok" /\ s \in DOMAIN v.items => s \in DOMAIN srv /\ v.items[s] = srv[s]
    <3>1. CASE c.project \in sprintOn
      BY <1>2, <3>1 DEF FetchBoardState, View
    <3>2. CASE c.project \notin sprintOn
      BY <1>2, <3>2 DEF FetchBoardState, View, NoItems
    <3> QED BY <3>1, <3>2
  <2>5. \A f \in calls' : Fetching(f) /\ f.net = "ok" /\ s \in DOMAIN f.answer.items =>
          s \in DOMAIN srv' /\ f.answer.items[s] = srv'[s]
    BY <1>1, <1>4, <2>1, <2>4 DEF StoryAgrees
  <2>6. Compared(s)' => Compared(s)
    BY <1>1, <1>4 DEF Compared, ViewKind
  <2>7. ASSUME Compared(s)', NEW x \in calls', WritesStory(x, s) PROVE ChangeAgrees(x, s)'
    <3>1. x \in calls /\ ChangeAgrees(x, s)
      BY <1>4, <2>1, <2>2, <2>6, <2>7 DEF StoryAgrees
    <3> QED BY <1>1, <3>1 DEF ChangeAgrees, Agrees
  <2>8. Compared(s)' /\ (\A x \in calls' : x.key # s) => Agrees(s)'
    BY <1>1, <1>4, <2>1, <2>6 DEF StoryAgrees, Agrees
  <2> QED BY <2>3, <2>5, <2>7, <2>8 DEF StoryAgrees, WritesStory
<1> QED BY <1>5, <1>6 DEF BoardAgrees

\* What a write changes on the server.
LEMMA PatchIs ==
  ASSUME BoardInv, NEW c, c.key \in DOMAIN srv, Patch(c)
  PROVE  /\ c.phase \in {"status", "rank", "delete"} =>
              \A t : t # c.key => (t \in DOMAIN srv' <=> t \in DOMAIN srv) /\ (t \in DOMAIN srv => srv'[t] = srv[t])
         /\ c.phase = "status" => c.key \in DOMAIN srv' /\ srv'[c.key] = Card(c.arg.status, srv[c.key].rank)
         /\ c.phase = "rank" => c.key \in DOMAIN srv' /\ srv'[c.key] = Card(srv[c.key].status, c.arg.rank)
<1>1. PICK S \in SUBSET Stories : srv \in [S -> Story]
  BY DEF BoardInv, RestOK
<1>2. CASE c.phase = "status"
  <2>1. srv' = [srv EXCEPT ![c.key] = [srv[c.key] EXCEPT !.status = c.arg.status]]
    BY <1>2 DEF Patch
  <2>2. [srv[c.key] EXCEPT !.status = c.arg.status] = Card(c.arg.status, srv[c.key].rank)
    BY <1>1 DEF Story, Card
  <2> QED BY <1>1, <1>2, <2>1, <2>2
<1>3. CASE c.phase = "rank"
  <2>1. srv' = [srv EXCEPT ![c.key] = [srv[c.key] EXCEPT !.rank = c.arg.rank]]
    BY <1>3 DEF Patch
  <2>2. [srv[c.key] EXCEPT !.rank = c.arg.rank] = Card(srv[c.key].status, c.arg.rank)
    BY <1>1 DEF Story, Card
  <2> QED BY <1>1, <1>3, <2>1, <2>2
<1>4. CASE c.phase = "delete"
  BY <1>4 DEF Patch
<1> QED BY <1>2, <1>3, <1>4

LEMMA BoardWriteAnswerAgrees ==
  ASSUME BoardInv, BoardAgrees, NEW c \in calls, BoardWriteAnswered(c)
  PROVE  BoardAgrees'
<1>1. Writing(c) /\ c.net = "sent" /\ UNCHANGED <<selected, view>> /\ overlap \subseteq overlap'
  BY DEF BoardWriteAnswered
<1>2. PICK net \in {"ok", "failed"} : Answered(c, net, NoView)
         /\ \/ c.key \in DOMAIN srv /\ Patch(c) /\ (net = "failed" => c.key \in overlap')
            \/ net = "failed" /\ UNCHANGED srv
  BY DEF BoardWriteAnswered
<1>3. PICK e : e = [c EXCEPT !.net = net, !.answer = NoView]
  OBVIOUS
<1>4. /\ e.op = c.op /\ e.key = c.key /\ e.phase = c.phase /\ e.arg = c.arg /\ e.old = c.old /\ e.net = net
      /\ calls' = (calls \ {c}) \cup {e} /\ c.phase # "fetch"
  BY <1>1, <1>2, <1>3, CallShapes, BoardAnswerFields DEF Answered, Replace, Writing
<1>5. c.phase \in {"status", "rank", "delete"} /\ BoardSendsItsPhases(c) /\ c.op \in {"status", "reorder", "delete"}
      /\ c.key \in Stories
  BY <1>4, CallShapes DEF BoardAgrees, Shape, BoardCall, BoardPhases, Loads, BoardOps
<1>6. \A x \in calls' : BoardSendsItsPhases(x)
  BY <1>4 DEF BoardAgrees, BoardSendsItsPhases
<1>7. ASSUME NEW s \in Stories \ overlap', s # c.key PROVE StoryAgrees(s)'
  <2>1. StoryAgrees(s)
    BY <1>1 DEF BoardAgrees
  <2>2. ~WritesStory(e, s) /\ ~WritesStory(c, s) /\ ~Fetching(e)
    BY <1>4, <1>7 DEF WritesStory, Fetching
  <2>3. (s \in DOMAIN srv' <=> s \in DOMAIN srv) /\ (s \in DOMAIN srv => srv'[s] = srv[s])
    BY <1>2, <1>5, <1>7, PatchIs
  <2>4. \A x, y \in calls' : WritesStory(x, s) => ~Fetching(y) /\ (WritesStory(y, s) => y = x)
    BY <1>1, <1>4, <2>1, <2>2 DEF StoryAgrees
  <2>5. \A f \in calls' : Fetching(f) /\ f.net = "ok" /\ s \in DOMAIN f.answer.items =>
          s \in DOMAIN srv' /\ f.answer.items[s] = srv'[s]
    BY <1>4, <2>1, <2>2, <2>3 DEF StoryAgrees
  <2>6. Compared(s)' => Compared(s)
    BY <1>1, <1>4 DEF Compared, ViewKind
  <2>7. ASSUME Compared(s)', NEW x \in calls', WritesStory(x, s) PROVE ChangeAgrees(x, s)'
    <3>1. x \in calls /\ ChangeAgrees(x, s)
      BY <1>4, <2>1, <2>2, <2>6, <2>7 DEF StoryAgrees
    <3> QED BY <1>1, <2>3, <3>1 DEF ChangeAgrees, Agrees
  <2>8. Compared(s)' /\ (\A x \in calls' : x.key # s) => Agrees(s)'
    BY <1>1, <1>4, <2>1, <2>3, <2>6 DEF StoryAgrees, Agrees
  <2> QED BY <2>4, <2>5, <2>7, <2>8 DEF StoryAgrees, WritesStory
<1>8. ASSUME c.key \notin overlap' PROVE StoryAgrees(c.key)'
  <2>1. StoryAgrees(c.key) /\ WritesStory(c, c.key) /\ WritesStory(e, c.key)
    BY <1>1, <1>4, <1>5, <1>8 DEF BoardAgrees, WritesStory, Writing
  <2>2. \A y \in calls : ~Fetching(y) /\ (WritesStory(y, c.key) => y = c)
    BY <2>1 DEF StoryAgrees
  <2>3. \A y \in calls' : ~Fetching(y) /\ (WritesStory(y, c.key) => y = e)
    BY <1>4, <2>2 DEF Fetching
  <2>4. Compared(c.key)' => Compared(c.key)
    BY <1>1, <1>4 DEF Compared, ViewKind
  <2>5. ASSUME Compared(c.key)' PROVE ChangeAgrees(e, c.key)'
    <3>1. ChangeAgrees(c, c.key)
      BY <2>1, <2>4, <2>5 DEF StoryAgrees
    <3>2. CASE net = "failed"
      BY <1>1, <1>2, <1>4, <1>8, <3>1, <3>2 DEF ChangeAgrees, Agrees
    <3>3. CASE net = "ok"
      <4>1. c.key \in DOMAIN srv /\ Patch(c)
        BY <1>2, <3>3
      <4>2. CASE c.phase = "status"
        <5>1. c.op = "status"
          BY <1>5, <4>2 DEF BoardSendsItsPhases
        <5>2. srv'[c.key] = Card(c.arg.status, srv[c.key].rank) /\ c.key \in DOMAIN srv'
          BY <4>1, <4>2, PatchIs
        <5>3. srv[c.key].rank = c.old.rank
          BY <1>1, <3>1, <4>2, <5>1 DEF ChangeAgrees, Card
        <5> QED BY <1>1, <1>4, <3>1, <3>3, <4>2, <5>1, <5>2, <5>3 DEF ChangeAgrees
      <4>3. CASE c.phase = "rank" /\ c.op = "reorder"
        <5>1. srv'[c.key] = Card(srv[c.key].status, c.arg.rank) /\ c.key \in DOMAIN srv'
          BY <4>1, <4>3, PatchIs
        <5>2. srv[c.key].status = c.old.status
          BY <1>1, <3>1, <4>3 DEF ChangeAgrees, Card
        <5> QED BY <1>1, <1>4, <3>1, <3>3, <4>3, <5>1, <5>2 DEF ChangeAgrees
      <4>4. CASE c.phase = "rank" /\ c.op = "status"
        <5>1. srv'[c.key] = Card(srv[c.key].status, c.arg.rank) /\ c.key \in DOMAIN srv'
          BY <4>1, <4>4, PatchIs
        <5>2. srv[c.key].status = c.arg.status
          BY <1>1, <3>1, <4>4 DEF ChangeAgrees, Card
        <5> QED BY <1>1, <1>4, <3>1, <3>3, <4>4, <5>1, <5>2 DEF ChangeAgrees
      <4>5. CASE c.phase = "delete"
        <5>1. c.op = "delete"
          BY <1>5, <4>5 DEF BoardSendsItsPhases
        <5> QED BY <1>4, <3>3, <5>1 DEF ChangeAgrees
      <4> QED BY <1>5, <4>2, <4>3, <4>4, <4>5 DEF BoardSendsItsPhases
    <3> QED BY <3>2, <3>3
  <2>6. \E x \in calls' : x.key = c.key
    BY <1>4
  <2> QED BY <2>3, <2>5, <2>6 DEF StoryAgrees, WritesStory
<1> QED BY <1>6, <1>7, <1>8 DEF BoardAgrees

\* A handler ends: no more than its story is changed on the board, and it is left there as
\* the server has it.
LEMMA EndAgrees ==
  ASSUME BoardInv, BoardAgrees, NEW c \in calls, calls' = calls \ {c}, c.op # "load",
         overlap \subseteq overlap', UNCHANGED <<selected, srv>>,
         view'.kind = view.kind, view'.project = view.project, DOMAIN view'.items = DOMAIN view.items,
         \A t \in DOMAIN view.items : t # c.key => view'.items[t] = view.items[t],
         c.key \in Stories \ overlap' /\ Compared(c.key) => c.key \in DOMAIN srv /\ view'.items[c.key] = srv[c.key]
  PROVE  BoardAgrees'
<1>1. \A x \in calls' : BoardSendsItsPhases(x)
  BY DEF BoardAgrees
<1>2. ASSUME NEW s \in Stories \ overlap' PROVE StoryAgrees(s)'
  <2>1. StoryAgrees(s)
    BY DEF BoardAgrees
  <2>2. Compared(s)' => Compared(s)
    BY DEF Compared, ViewKind
  <2>3. \A x, y \in calls' : WritesStory(x, s) => ~Fetching(y) /\ (WritesStory(y, s) => y = x)
    BY <2>1 DEF StoryAgrees
  <2>4. \A f \in calls' : Fetching(f) /\ f.net = "ok" /\ s \in DOMAIN f.answer.items =>
          s \in DOMAIN srv' /\ f.answer.items[s] = srv'[s]
    BY <2>1 DEF StoryAgrees
  <2>5. ASSUME Compared(s)', NEW x \in calls', WritesStory(x, s) PROVE ChangeAgrees(x, s)'
    <3>1. ChangeAgrees(x, s)
      BY <2>1, <2>2, <2>5 DEF StoryAgrees
    <3>2. CASE s # c.key
      <4>1. view'.items[s] = view.items[s]
        BY <2>2, <2>5, <3>2 DEF Compared
      <4> QED BY <3>1, <4>1 DEF ChangeAgrees, Agrees
    <3>3. CASE s = c.key
      <4>1. Fetching(c)
        BY <2>1, <2>5, <3>3 DEF StoryAgrees, WritesStory, Fetching, Writing
      <4> QED BY <2>1, <2>5, <4>1 DEF StoryAgrees
    <3> QED BY <3>2, <3>3
  <2>6. Compared(s)' /\ (\A x \in calls' : x.key # s) => Agrees(s)'
    <3>1. CASE s = c.key
      BY <2>2, <3>1 DEF Agrees
    <3>2. CASE s # c.key
      BY <2>1, <2>2, <3>2 DEF StoryAgrees, Agrees, Compared
    <3> QED BY <3>1, <3>2
  <2> QED BY <2>3, <2>4, <2>5, <2>6 DEF StoryAgrees, WritesStory
<1> QED BY <1>1, <1>2 DEF BoardAgrees

\* An answer is installed.
LEMMA InstallAgrees ==
  ASSUME BoardInv, BoardAgrees, NEW c \in calls, calls' = calls \ {c}, Fetching(c), c.net = "ok",
         overlap \subseteq overlap', UNCHANGED <<selected, srv>>, view' = c.answer
  PROVE  BoardAgrees'
<1>1. \A x \in calls' : BoardSendsItsPhases(x)
  BY DEF BoardAgrees
<1>2. ASSUME NEW s \in Stories \ overlap' PROVE StoryAgrees(s)'
  <2>1. StoryAgrees(s)
    BY DEF BoardAgrees
  <2>2. \A x \in calls : ~WritesStory(x, s)
    BY <2>1 DEF StoryAgrees
  <2>3. \A f \in calls' : Fetching(f) /\ f.net = "ok" /\ s \in DOMAIN f.answer.items =>
          s \in DOMAIN srv' /\ f.answer.items[s] = srv'[s]
    BY <2>1 DEF StoryAgrees
  <2>4. Compared(s)' => Agrees(s)'
    BY <2>1 DEF StoryAgrees, Compared, Agrees
  <2> QED BY <2>2, <2>3, <2>4 DEF StoryAgrees, WritesStory
<1> QED BY <1>1, <1>2 DEF BoardAgrees

\* A load that failed leaves nothing to compare.
LEMMA ErrorAgrees ==
  ASSUME BoardInv, BoardAgrees, NEW c \in calls, calls' = calls \ {c},
         overlap \subseteq overlap', UNCHANGED <<selected, srv>>, view'.kind # "ok"
  PROVE  BoardAgrees'
<1>1. \A x \in calls' : BoardSendsItsPhases(x)
  BY DEF BoardAgrees
<1>2. ASSUME NEW s \in Stories \ overlap' PROVE StoryAgrees(s)'
  <2>1. StoryAgrees(s) /\ ~Compared(s)'
    BY DEF BoardAgrees, Compared, ViewKind
  <2> QED BY <2>1 DEF StoryAgrees, WritesStory
<1> QED BY <1>1, <1>2 DEF BoardAgrees

\* A handler goes on to its rank or to its refetch.
LEMMA AwaitAgrees ==
  ASSUME BoardInv, BoardAgrees, NEW c \in calls, NEW phase \in {"rank", "fetch"}, Await(c, phase), Writing(c),
         overlap \subseteq overlap', UNCHANGED <<selected, view, srv>>,
         phase = "fetch" => c.op \in {"status", "delete"} /\ InFlight(calls \ {c}) \subseteq overlap',
         phase = "rank" => c.op = "status" /\ c.phase = "status" /\ c.net = "ok" /\ c.arg.rank # NoRank
  PROVE  BoardAgrees'
<1>1. PICK e : e = Advance(c, phase)
  OBVIOUS
<1>2. /\ e.op = c.op /\ e.key = c.key /\ e.phase = phase /\ e.arg = c.arg /\ e.old = c.old /\ e.net = "sent"
      /\ calls' = (calls \ {c}) \cup {e}
  BY <1>1, CallShapes, BoardAdvanceFields DEF Await, Replace
<1>3. \A x \in calls' : BoardSendsItsPhases(x)
  BY <1>2 DEF BoardAgrees, BoardSendsItsPhases
<1>4. ASSUME NEW s \in Stories \ overlap' PROVE StoryAgrees(s)'
  <2>1. StoryAgrees(s)
    BY DEF BoardAgrees
  <2>2. Compared(s)' => Compared(s)
    BY <1>2 DEF Compared, ViewKind
  <2>3. \A x \in calls \ {c} : WritesStory(x, s) => phase = "rank" /\ s # c.key
    BY <2>1 DEF StoryAgrees, InFlight, WritesStory
  <2>4. WritesStory(e, s) => phase = "rank" /\ WritesStory(c, s)
    BY <1>2 DEF WritesStory, Writing
  <2>5. ASSUME NEW x \in calls', NEW y \in calls', WritesStory(x, s) PROVE ~Fetching(y) /\ (WritesStory(y, s) => y = x)
    <3>1. phase = "rank" /\ ~Fetching(e)
      BY <1>2, <2>3, <2>4, <2>5 DEF Fetching
    <3>2. CASE x = e
      BY <1>2, <2>1, <2>3, <2>4, <2>5, <3>1, <3>2 DEF StoryAgrees, WritesStory
    <3>3. CASE x \in calls \ {c}
      BY <1>2, <2>1, <2>3, <2>5, <3>1, <3>3 DEF StoryAgrees, WritesStory
    <3> QED BY <1>2, <3>2, <3>3
  <2>6. \A f \in calls' : Fetching(f) /\ f.net = "ok" /\ s \in DOMAIN f.answer.items =>
          s \in DOMAIN srv' /\ f.answer.items[s] = srv'[s]
    BY <1>2, <2>1 DEF StoryAgrees
  <2>7. ASSUME Compared(s)', NEW x \in calls', WritesStory(x, s) PROVE ChangeAgrees(x, s)'
    <3>1. CASE x \in calls \ {c}
      <4>1. ChangeAgrees(x, s)
        BY <2>1, <2>2, <2>7, <3>1 DEF StoryAgrees
      <4> QED BY <4>1 DEF ChangeAgrees, Agrees
    <3>2. CASE x = e
      <4>1. phase = "rank" /\ ChangeAgrees(c, s)
        BY <2>1, <2>2, <2>4, <2>7, <3>2 DEF StoryAgrees
      <4> QED BY <1>2, <3>2, <4>1 DEF ChangeAgrees
    <3> QED BY <1>2, <3>1, <3>2
  <2>8. Compared(s)' /\ (\A x \in calls' : x.key # s) => Agrees(s)'
    BY <1>2, <2>1, <2>2 DEF StoryAgrees, Agrees
  <2> QED BY <2>5, <2>6, <2>7, <2>8 DEF StoryAgrees, WritesStory
<1> QED BY <1>3, <1>4 DEF BoardAgrees

LEMMA SelectAgrees ==
  ASSUME BoardInv, BoardAgrees, NEW p \in Projects \cup {NoProject}, SelectBoardProject(p)
  PROVE  BoardAgrees'
<1> DEFINE kept == {c \in calls : c.op # "load"}
<1>1. CASE p = NoProject
  <2>1. calls' = kept /\ selected' = NoProject /\ UNCHANGED <<view, srv, overlap>>
    BY <1>1 DEF SelectBoardProject
  <2>2. \A x \in calls' : BoardSendsItsPhases(x)
    BY <2>1 DEF BoardAgrees
  <2>3. ASSUME NEW s \in Stories \ overlap' PROVE StoryAgrees(s)'
    <3>1. StoryAgrees(s) /\ ~Compared(s)'
      BY <2>1 DEF BoardAgrees, Compared, ViewKind
    <3> QED BY <2>1, <3>1 DEF StoryAgrees, WritesStory
  <2> QED BY <2>2, <2>3 DEF BoardAgrees
<1>2. CASE p # NoProject
  <2>1. BeginFetch("load", p, kept) /\ UNCHANGED <<view, srv>>
    BY <1>2 DEF SelectBoardProject
  <2> QED BY <1>2, <2>1, FetchBeginsAgrees DEF Loads
<1> QED BY <1>1, <1>2

LEMMA BoardUserAgrees ==
  ASSUME BoardInv, BoardAgrees, BoardUser
  PROVE  BoardAgrees'
<1>1. CASE SetFilter
  BY <1>1 DEF SetFilter, pageVars, BoardAgrees, StoryAgrees, Compared, ViewKind, ChangeAgrees, Agrees
<1>2. CASE RefreshBoard
  <2>1. selected \in Projects
    BY <1>2 DEF RefreshBoard, BoardInv, RestOK
  <2> QED BY <1>2, <2>1, FetchBeginsAgrees DEF RefreshBoard, Loads
<1>3. ASSUME NEW p \in Projects, SprintLifecycle(p) PROVE BoardAgrees'
  <2>1. CASE p = selected
    BY <1>3, <2>1, FetchBeginsAgrees DEF SprintLifecycle, Loads
  <2>2. CASE p # selected
    <3>1. UNCHANGED <<selected, view, calls, srv, overlap>>
      BY <1>3, <2>2 DEF SprintLifecycle
    <3> QED BY <3>1 DEF BoardAgrees, StoryAgrees, Compared, ViewKind, ChangeAgrees, Agrees
  <2> QED BY <2>1, <2>2
<1>4. ASSUME NEW s, CardEnabled(s)
      PROVE  /\ view.kind = "ok" /\ s \in DOMAIN view.items
             /\ view = [kind |-> view.kind, project |-> view.project, items |-> view.items]
             /\ view.items[s] = Card(view.items[s].status, view.items[s].rank)
             /\ view.items = [view.items EXCEPT ![s] = view.items[s]]
  BY <1>4 DEF CardEnabled, ViewKind, BoardInv, RestOK, BoardView, Items, Story, Card
<1>5. ASSUME NEW s \in Stories, NEW status \in Statuses, NEW rank \in Ranks \cup {NoRank},
             HandleStoryStatusChange(s, status, rank)
      PROVE  BoardAgrees'
  <2>1. CardEnabled(s) /\ BeginWrite("status", s, "status", status, rank) /\ UNCHANGED <<selected, srv>>
        /\ view' = WithStory(view, s, status, rank)
    BY <1>5 DEF HandleStoryStatusChange
  <2>2. PICK x : x = Card(status, IF rank = NoRank THEN view.items[s].rank ELSE rank)
    OBVIOUS
  <2>3. view' = [view EXCEPT !.items = [view.items EXCEPT ![s] = x]]
    BY <1>4, <2>1, <2>2 DEF WithStory, Card
  <2>4. view'.kind = view.kind /\ view'.project = view.project /\ view'.items = [view.items EXCEPT ![s] = x]
    BY <1>4, <2>1, <2>3
  <2> QED BY <2>1, <2>2, <2>4, ChangeBeginsAgrees
<1>6. ASSUME NEW s \in Stories, NEW rank \in Ranks, HandleStoryReorder(s, rank)
      PROVE  BoardAgrees'
  <2>1. CardEnabled(s) /\ BeginWrite("reorder", s, "rank", view.items[s].status, rank) /\ UNCHANGED <<selected, srv>>
        /\ view' = WithRank(view, s, rank)
    BY <1>6 DEF HandleStoryReorder
  <2>2. PICK x : x = Card(view.items[s].status, rank)
    OBVIOUS
  <2>3. view' = [view EXCEPT !.items = [view.items EXCEPT ![s] = x]]
    <3>1. [view.items[s] EXCEPT !.rank = rank] = x
      <4>1. PICK y : y = view.items[s]
        OBVIOUS
      <4>2. y = Card(y.status, y.rank)
        BY <1>4, <2>1, <4>1
      <4>3. [y EXCEPT !.rank = rank] = Card(y.status, rank)
        BY <4>2 DEF Card
      <4> QED BY <2>2, <4>1, <4>3
    <3>2. view' = [view EXCEPT !.items = [view.items EXCEPT ![s] = [view.items[s] EXCEPT !.rank = rank]]]
      BY <1>4, <2>1 DEF WithRank
    <3> QED BY <3>1, <3>2
  <2>4. view'.kind = view.kind /\ view'.project = view.project /\ view'.items = [view.items EXCEPT ![s] = x]
    BY <1>4, <2>1, <2>3
  <2>5. view.items[s].status \in Statuses
    BY <1>4, <2>1 DEF BoardInv, RestOK, BoardView, Items, Story
  <2> QED BY <2>1, <2>2, <2>4, <2>5, ChangeBeginsAgrees
<1>7. ASSUME NEW s \in Stories, HandleStoryDelete(s) PROVE BoardAgrees'
  <2>1. CardEnabled(s) /\ BeginWrite("delete", s, "delete", view.items[s].status, NoRank) /\ UNCHANGED <<selected, view, srv>>
    BY <1>7 DEF HandleStoryDelete
  <2>2. view.items[s].status \in Statuses
    BY <1>4, <2>1 DEF BoardInv, RestOK, BoardView, Items, Story
  <2>3. PICK x : x = view.items[s]
    OBVIOUS
  <2>4. view'.items = [view.items EXCEPT ![s] = x]
    BY <1>4, <2>1, <2>3
  <2> QED BY <2>1, <2>2, <2>3, <2>4, ChangeBeginsAgrees
<1> QED BY <1>1, <1>2, <1>3, <1>5, <1>6, <1>7, SelectAgrees DEF BoardUser

LEMMA BoardHandlerAgrees ==
  ASSUME BoardInv, BoardAgrees, BoardHandlers
  PROVE  BoardAgrees'
<1> SUFFICES ASSUME NEW c \in calls,
                    \/ LoadDone(c) \/ RefreshDone(c) \/ LifecycleDone(c)
                    \/ StatusSaved(c) \/ StatusFailed(c) \/ StatusRankDone(c) \/ StatusRefetched(c)
                    \/ ReorderDone(c) \/ DeleteDone(c) \/ DeleteRefetched(c)
             PROVE  BoardAgrees'
  BY DEF BoardHandlers
<1>1. Shape(c) /\ BoardSendsItsPhases(c) /\ c.net \in {"sent", "ok", "failed"}
  BY CallShapes DEF BoardAgrees, BoardCall
<1>2. c.op \in Loads => c.key \notin Stories /\ Fetching(c)
  BY <1>1, BoardAssumption DEF Shape, Fetching
<1>3. ASSUME c.key \in Stories \ overlap, Compared(c.key), Writing(c) PROVE ChangeAgrees(c, c.key)
  BY <1>3 DEF BoardAgrees, StoryAgrees, WritesStory
\* A handler whose change stands, or that leaves the board alone.
<1>4. ASSUME calls' = calls \ {c}, c.op # "load", overlap \subseteq overlap', UNCHANGED <<selected, srv, view>>,
             c.key \in Stories \ overlap' /\ Compared(c.key) => Agrees(c.key)
      PROVE  BoardAgrees'
  BY <1>4, EndAgrees DEF Agrees
<1>5. CASE LoadDone(c)
  <2>1. CASE c.net = "ok"
    BY <1>2, <1>5, <2>1, InstallAgrees DEF LoadDone, Loads
  <2>2. CASE c.net # "ok"
    <3>1. view'.kind # "ok"
      BY <1>5, <2>2 DEF LoadDone, View
    <3> QED BY <1>5, <2>2, <3>1, ErrorAgrees DEF LoadDone
  <2> QED BY <2>1, <2>2
<1>6. CASE RefreshDone(c) \/ LifecycleDone(c)
  <2>1. CASE c.net = "ok"
    BY <1>2, <1>6, <2>1, InstallAgrees DEF RefreshDone, LifecycleDone, Install, Loads
  <2>2. CASE c.net # "ok"
    BY <1>2, <1>4, <1>6, <2>2 DEF RefreshDone, LifecycleDone, Loads
  <2> QED BY <2>1, <2>2
<1>7. CASE StatusSaved(c)
  <2> USE <1>7 DEF StatusSaved
  <2>1. Writing(c)
    BY DEF Writing
  <2>2. CASE c.arg.rank = NoRank
    <3>1. c.key \in Stories \ overlap' /\ Compared(c.key) => Agrees(c.key)
      BY <1>3, <2>1, <2>2 DEF ChangeAgrees, Agrees
    <3> QED BY <1>4, <2>2, <3>1 DEF End
  <2>3. CASE c.arg.rank # NoRank
    BY <2>1, <2>3, AwaitAgrees
  <2> QED BY <2>2, <2>3
<1>8. CASE StatusFailed(c)
  <2> USE <1>8 DEF StatusFailed
  <2>1. Writing(c) /\ c.key \in Stories /\ c.old.status \in Statuses /\ c.old.rank \in Ranks
    BY <1>1 DEF Writing, Shape, Loads, BoardCall, Placing
  <2>2. CASE view.kind # "ok" \/ c.key \notin DOMAIN view.items
    BY <1>4, <2>2 DEF WithStory, End, Compared, ViewKind
  <2>3. CASE view.kind = "ok" /\ c.key \in DOMAIN view.items
    <3>1. PICK x : x = Card(c.old.status, IF c.arg.rank = NoRank THEN view.items[c.key].rank ELSE c.old.rank)
      OBVIOUS
    <3>2. view' = [view EXCEPT !.items = [view.items EXCEPT ![c.key] = x]]
      <4>1. CASE c.arg.rank = NoRank
        BY <2>3, <3>1, <4>1 DEF WithStory, Card
      <4>2. CASE c.arg.rank # NoRank
        BY <2>1, <2>3, <3>1, <4>2, BoardAssumption DEF WithStory, Card
      <4> QED BY <4>1, <4>2
    <3>3. view'.kind = view.kind /\ view'.project = view.project /\ view'.items = [view.items EXCEPT ![c.key] = x]
      BY <3>2 DEF BoardInv, RestOK, BoardView
    <3>4. c.key \in Stories \ overlap' /\ Compared(c.key) => c.key \in DOMAIN srv /\ x = srv[c.key]
      <4>1. SUFFICES ASSUME c.key \in Stories \ overlap', Compared(c.key) PROVE c.key \in DOMAIN srv /\ x = srv[c.key]
        OBVIOUS
      <4>2. ChangeAgrees(c, c.key)
        BY <1>3, <2>1, <4>1
      <4>3. /\ c.key \in DOMAIN srv /\ srv[c.key] = Card(c.old.status, c.old.rank)
            /\ c.arg.rank = NoRank => view.items[c.key].rank = c.old.rank
        BY <4>2 DEF ChangeAgrees, Card
      <4> QED BY <3>1, <4>3
    <3>5. calls' = calls \ {c} /\ UNCHANGED <<selected, srv, overlap>>
      BY DEF End
    <3>6. DOMAIN view'.items = DOMAIN view.items /\ view'.items[c.key] = x
          /\ \A t \in DOMAIN view.items : t # c.key => view'.items[t] = view.items[t]
      BY <2>3, <3>3
    <3> QED BY <3>3, <3>4, <3>5, <3>6, EndAgrees
  <2> QED BY <2>2, <2>3
<1>9. CASE StatusRankDone(c)
  <2> USE <1>9 DEF StatusRankDone
  <2>1. Writing(c)
    BY DEF Writing
  <2>2. CASE c.net = "ok"
    <3>1. c.key \in Stories \ overlap' /\ Compared(c.key) => Agrees(c.key)
      BY <1>3, <2>1, <2>2 DEF ChangeAgrees, Agrees
    <3> QED BY <1>4, <2>2, <3>1 DEF End
  <2>3. CASE c.net # "ok"
    BY <2>1, <2>3, AwaitAgrees
  <2> QED BY <2>2, <2>3
<1>10. CASE StatusRefetched(c)
  <2> USE <1>10 DEF StatusRefetched
  <2>1. CASE c.net = "ok"
    BY <2>1, InstallAgrees DEF Install, End, Fetching
  <2>2. CASE c.net # "ok"
    BY <1>4, <2>2 DEF End
  <2> QED BY <2>1, <2>2
<1>11. CASE ReorderDone(c)
  <2> USE <1>11 DEF ReorderDone
  <2>1. Writing(c) /\ c.key \in Stories
    BY <1>1 DEF Writing, BoardSendsItsPhases, Shape, Loads
  <2>2. CASE c.net = "ok"
    <3>1. c.key \in Stories \ overlap' /\ Compared(c.key) => Agrees(c.key)
      BY <1>3, <2>1, <2>2 DEF ChangeAgrees, Agrees
    <3> QED BY <1>4, <2>2, <3>1 DEF End
  <2>3. CASE c.net # "ok" /\ (view.kind # "ok" \/ c.key \notin DOMAIN view.items)
    BY <1>4, <2>3 DEF WithRank, End, Compared, ViewKind
  <2>4. CASE c.net # "ok" /\ view.kind = "ok" /\ c.key \in DOMAIN view.items
    <3>1. PICK x : x = Card(view.items[c.key].status, c.old.rank)
      OBVIOUS
    <3>2. view' = [view EXCEPT !.items = [view.items EXCEPT ![c.key] = x]]
      <4>1. [view.items[c.key] EXCEPT !.rank = c.old.rank] = x
        BY <2>4, <3>1 DEF Card, BoardInv, RestOK, BoardView, Items, Story
      <4>2. view' = [view EXCEPT !.items = [view.items EXCEPT ![c.key] = [view.items[c.key] EXCEPT !.rank = c.old.rank]]]
        BY <2>4 DEF WithRank
      <4> QED BY <4>1, <4>2
    <3>3. view'.kind = view.kind /\ view'.project = view.project /\ view'.items = [view.items EXCEPT ![c.key] = x]
      BY <3>2 DEF BoardInv, RestOK, BoardView
    <3>4. c.key \in Stories \ overlap' /\ Compared(c.key) => c.key \in DOMAIN srv /\ x = srv[c.key]
      <4>1. SUFFICES ASSUME c.key \in Stories \ overlap', Compared(c.key) PROVE c.key \in DOMAIN srv /\ x = srv[c.key]
        OBVIOUS
      <4>2. ChangeAgrees(c, c.key)
        BY <1>3, <2>1, <4>1
      <4>3. /\ c.key \in DOMAIN srv /\ srv[c.key] = Card(c.old.status, c.old.rank)
            /\ view.items[c.key].status = c.old.status
        BY <2>4, <4>2 DEF ChangeAgrees, Card
      <4> QED BY <3>1, <4>3
    <3>5. calls' = calls \ {c} /\ UNCHANGED <<selected, srv, overlap>>
      BY DEF End
    <3>6. DOMAIN view'.items = DOMAIN view.items /\ view'.items[c.key] = x
          /\ \A t \in DOMAIN view.items : t # c.key => view'.items[t] = view.items[t]
      BY <2>4, <3>3
    <3> QED BY <3>3, <3>4, <3>5, <3>6, EndAgrees
  <2> QED BY <2>2, <2>3, <2>4
<1>12. CASE DeleteDone(c)
  <2> USE <1>12 DEF DeleteDone
  <2>1. Writing(c)
    BY DEF Writing
  <2>2. CASE c.net = "failed"
    <3>1. c.key \in Stories \ overlap' /\ Compared(c.key) => Agrees(c.key)
      BY <1>3, <2>1, <2>2 DEF ChangeAgrees
    <3> QED BY <1>4, <2>2, <3>1 DEF End
  <2>3. CASE c.net # "failed"
    BY <2>1, <2>3, AwaitAgrees
  <2> QED BY <2>2, <2>3
<1>13. CASE DeleteRefetched(c)
  <2> USE <1>13 DEF DeleteRefetched
  <2>1. CASE c.net = "ok"
    BY <2>1, InstallAgrees DEF Install, Fetching
  <2>2. CASE c.net # "ok"
    BY <1>4, <2>2
  <2> QED BY <2>1, <2>2
<1> QED BY <1>5, <1>6, <1>7, <1>8, <1>9, <1>10, <1>11, <1>12, <1>13

LEMMA BoardStepAgrees == BoardInv /\ BoardAgrees /\ [BoardNext]_boardVars => BoardAgrees'
<1>1. CASE UNCHANGED boardVars
  BY <1>1 DEF boardVars, pageVars, BoardAgrees, StoryAgrees, Compared, ViewKind, ChangeAgrees, Agrees
<1>2. ASSUME BoardInv, BoardAgrees, BoardServer PROVE BoardAgrees'
  BY <1>2, BoardFetchAnswerAgrees, BoardWriteAnswerAgrees DEF BoardServer
<1> QED BY <1>1, <1>2, BoardUserAgrees, BoardHandlerAgrees DEF BoardNext

(* What the user sees is what the server has once every answer is in, but for
   stories whose requests overlapped or whose answer was lost: the optimistic
   change, its roll-back and the refetches of the handlers
   (board-page-callbacks.ts) end in the server's state.                    *)
THEOREM BoardIsCurrent == BoardSpec => []BoardAgreesWhenQuiet
<1>1. BoardInit => BoardAgrees
  BY DEF BoardInit, Mount, BoardAgrees, StoryAgrees, Compared, ViewKind
<1>2. BoardInv /\ BoardAgrees => BoardAgreesWhenQuiet
  <2> SUFFICES ASSUME BoardInv, BoardAgrees, calls = {}, ViewKind = "ok", NEW s \in DOMAIN view.items \ overlap
               PROVE  Agrees(s)
    BY DEF BoardAgreesWhenQuiet, Agrees
  <2>1. s \in Stories
    BY DEF BoardInv, RestOK, BoardView, Items
  <2> QED BY <2>1 DEF BoardAgrees, StoryAgrees, Compared
<1> QED BY <1>1, <1>2, BoardStepAgrees, BoardInvariance, PTL DEF BoardSpec
=============================================================================
