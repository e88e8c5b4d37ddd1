----------------------------- MODULE MCPrograms -----------------------------
(***************************************************************************)
(* The planning service and the clients of the API in one instance: the    *)
(* requests on work items, those on backlogs, one page of the web UI, one  *)
(* invocation of the command line or one column of ranks is picked when    *)
(* the behaviour begins and runs alone, for they share no state.  The      *)
(* state space is the sum of theirs, not the product.                      *)
(***************************************************************************)
EXTENDS Assignments, Sprints, BoardPage, BacklogPage, EpicsPage, ListPage, FormDialogs, StoryDetail, TimelinePage, MCCli, LexoRank

CONSTANTS p1, p2, b0, b1, b2, b3, s1, s2, s3, e1, e2, x1, x2, l1, t1, t2, r1, r2, w1, n1, n2, d1, d2

MCStoryProject == (s1 :> p1) @@ (s2 :> p1)
MCInitialStories == {[s \in Stories |-> [status |-> "TODO", rank |-> 1]]}

Brd(kind, status, rank) == [kind |-> kind, status |-> status, rank |-> rank]
MCBoards(sprintStatus) ==
    (b0 :> Brd("BACKLOG", "OPEN", 1)) @@ (b1 :> Brd("SPRINT", sprintStatus, 2)) @@ (b2 :> Brd("SPRINT", "OPEN", 3))
\* A sprint under way, with its stories open or done, and one yet to be started; or three
\* boards whose order may be changed.
MCInitialBacklogs ==
    {[boards |-> MCBoards("ACTIVE"), where |-> (s1 :> b1) @@ (s2 :> b1), done |-> d] : d \in {{}, {s1, s2}}}
      \cup {[boards |-> MCBoards("OPEN") @@ (b3 :> Brd("BACKLOG", "OPEN", 4)), where |-> (s1 :> b1), done |-> {}]}

MCEpicProject == (e1 :> p1) @@ (e2 :> p1)
MCInitialEpics == {[parent |-> (s1 :> e1), status |-> (s1 :> "TODO"), epics |-> Epics]}

MCRowProject == (s1 :> p1) @@ (s2 :> p1) @@ (s3 :> p2)
MCInitialLists == {[status |-> [r \in ListRows |-> "TODO"], on |-> (s1 :> b1) @@ (s2 :> NoKey) @@ (s3 :> NoKey)]}

MCInitialDetails ==
    {[there |-> {s1, s2}, text |-> [s \in DetailStories |-> x1],
      labels |-> [s \in DetailStories |-> IF s = s1 THEN {l1} ELSE {}],
      tasks |-> [s \in DetailStories |-> IF s = s1 THEN [t \in {t1} |-> "TODO"] ELSE NoTasks]]}

Bklg(kind, status) == [kind |-> kind, status |-> status]
\* An active sprint with two open stories and another sprint; or a sprint not yet started,
\* a story in the product backlog, a story and a backlog yet to be created.
MCInitialSprints ==
    {[boards |-> (b0 :> Bklg("BACKLOG", "ACTIVE")) @@ (b1 :> Bklg("SPRINT", "ACTIVE")) @@ (b2 :> Bklg("SPRINT", "OPEN")),
      on |-> (s1 :> b1) @@ (s2 :> b1), items |-> (s1 :> "OPEN") @@ (s2 :> "OPEN")],
     [boards |-> (b0 :> Bklg("BACKLOG", "ACTIVE")) @@ (b1 :> Bklg("SPRINT", "OPEN")) @@ (b2 :> Bklg("SPRINT", "UNBORN")),
      on |-> (s1 :> b0) @@ (s2 :> NoPlace), items |-> (s1 :> "OPEN") @@ (s2 :> "UNBORN")]}

-----------------------------------------------------------------------------
(* The variables of each program, and how they stand when another one runs *)

boardOwn == <<filtered, sprintOn, overlap, cleared, strayed>>
backlogOwn == <<dialog, taken, closing, late, torn>>
epicsOwn == <<filter, expanded, previews, inFlight, deleting, moving, hazy>>
listOwn == <<offered, epicsOf, muddled>>
formOwn == <<forms, saving, escaped, hit, crossed>>
detailOwn == <<shown, detail, draft, busy, marks, labels, available, blurred>>
timelineOwn == <<statusFilter, runRows, chosenRun, events, runsLoading, timelineLoading, raced>>

BoardParked == filtered = FALSE /\ sprintOn = {} /\ overlap = {} /\ cleared = {} /\ strayed = FALSE
BacklogParked == dialog = NoDialog /\ taken = {} /\ closing = {} /\ late = {} /\ torn = FALSE
EpicsParked ==
    /\ filter = "all" /\ expanded = {} /\ previews = [e \in Epics |-> Idle]
    /\ inFlight = {} /\ deleting = Closed /\ moving = FALSE /\ hazy = {}
ListParked == offered = NoOffer /\ epicsOf = NoProject /\ muddled = FALSE
FormsParked ==
    /\ forms = [k \in FormKinds |-> ShutForm] /\ saving = [k \in FormKinds |-> FALSE]
    /\ escaped = {} /\ hit = {} /\ crossed = FALSE
DetailParked ==
    /\ shown = NoKey /\ detail = Blank /\ draft = NoDraft /\ busy = {} /\ marks = {}
    /\ labels = LabelsOf(NoKey, {}) /\ available = FALSE /\ blurred = {}
TimelineParked ==
    /\ statusFilter = AnyStatus /\ runRows = {} /\ chosenRun = NoKey /\ events = NoEvents
    /\ runsLoading = FALSE /\ timelineLoading = FALSE /\ raced = FALSE
ItemsParked ==
    /\ workItem = [i \in WorkItems |-> Unborn] /\ received = 0
    /\ activeRow = [i \in WorkItems |-> NoOne] /\ liveEntry = [i \in WorkItems |-> NoOne]
    /\ itemRequest = [r \in ItemSessions |-> Quiet] /\ overtaken = {} /\ patched = {} /\ adrift = {}
SprintsParked ==
    /\ backlog = [b \in SprintBoards |-> Bklg("BACKLOG", "UNBORN")] /\ place = [i \in SprintItems |-> NoPlace]
    /\ progress = [i \in SprintItems |-> "UNBORN"] /\ plan = [r \in SprintSessions |-> Unplanned]
    /\ planned = 0 /\ astray = {}
CliParked ==
    /\ inv = BaseLine("health", "health") /\ pc = "exited"
    /\ found = {} /\ matched = {} /\ target = NoId /\ request = NoRequest /\ wire = None
    /\ err = None /\ exitCode = 0 /\ items = {}
    /\ tail = [rows |-> {}, cursor |-> 0, seen |-> {}, printed |-> {}, repeated |-> FALSE, hidden |-> {}, polls |-> 0]
NoPage(name) == Mount(name) /\ selected = NoProject /\ calls = {} /\ srv = NoItems

\* A program that is no page.
Alone(name) ==
    /\ NoPage(name)
    /\ BoardParked /\ BacklogParked /\ EpicsParked /\ ListParked /\ FormsParked /\ DetailParked /\ TimelineParked
ServerParked == ItemsParked /\ SprintsParked

ProgramsInit ==
    \/ /\ BoardInit /\ ServerParked /\ CliParked /\ RankInit
       /\ BacklogParked /\ EpicsParked /\ ListParked /\ FormsParked /\ DetailParked /\ TimelineParked
    \/ /\ BacklogInit /\ ServerParked /\ CliParked /\ RankInit
       /\ BoardParked /\ EpicsParked /\ ListParked /\ FormsParked /\ DetailParked /\ TimelineParked
    \/ /\ EpicsInit /\ ServerParked /\ CliParked /\ RankInit
       /\ BoardParked /\ BacklogParked /\ ListParked /\ FormsParked /\ DetailParked /\ TimelineParked
    \/ /\ ListInit /\ ServerParked /\ CliParked /\ RankInit
       /\ BoardParked /\ BacklogParked /\ EpicsParked /\ FormsParked /\ DetailParked /\ TimelineParked
    \/ /\ FormsInit /\ ServerParked /\ CliParked /\ RankInit
       /\ BoardParked /\ BacklogParked /\ EpicsParked /\ ListParked /\ DetailParked /\ TimelineParked
    \/ /\ DetailInit /\ ServerParked /\ CliParked /\ RankInit
       /\ BoardParked /\ BacklogParked /\ EpicsParked /\ ListParked /\ FormsParked /\ TimelineParked
    \/ /\ TimelineInit /\ ServerParked /\ CliParked /\ RankInit
       /\ BoardParked /\ BacklogParked /\ EpicsParked /\ ListParked /\ FormsParked /\ DetailParked
    \/ Alone("cli") /\ CliInit /\ ServerParked /\ RankInit
    \/ Alone("ranks") /\ RankInit /\ ServerParked /\ CliParked
    \/ Alone("assignments") /\ AssignmentsInit /\ SprintsParked /\ CliParked /\ RankInit
    \/ Alone("sprints") /\ SprintsInit /\ ItemsParked /\ CliParked /\ RankInit

serverVars == <<itemVars, sprintVars>>
otherVars == <<cliVars, rankVars, serverVars>>
pagesOwn == <<boardOwn, backlogOwn, epicsOwn, listOwn, formOwn, detailOwn, timelineOwn>>

ProgramsNext ==
    \/ BoardNext /\ UNCHANGED <<backlogOwn, epicsOwn, listOwn, formOwn, detailOwn, timelineOwn, otherVars>>
    \/ BacklogNext /\ UNCHANGED <<boardOwn, epicsOwn, listOwn, formOwn, detailOwn, timelineOwn, otherVars>>
    \/ EpicsNext /\ UNCHANGED <<boardOwn, backlogOwn, listOwn, formOwn, detailOwn, timelineOwn, otherVars>>
    \/ ListNext /\ UNCHANGED <<boardOwn, backlogOwn, epicsOwn, formOwn, detailOwn, timelineOwn, otherVars>>
    \/ FormsNext /\ UNCHANGED <<boardOwn, backlogOwn, epicsOwn, listOwn, detailOwn, timelineOwn, otherVars>>
    \/ DetailNext /\ UNCHANGED <<boardOwn, backlogOwn, epicsOwn, listOwn, formOwn, timelineOwn, otherVars>>
    \/ TimelineNext /\ UNCHANGED <<boardOwn, backlogOwn, epicsOwn, listOwn, formOwn, detailOwn, otherVars>>
    \/ page = "cli" /\ CliNext /\ UNCHANGED <<pageVars, pagesOwn, rankVars, serverVars>>
    \/ page = "ranks" /\ RankNext /\ UNCHANGED <<pageVars, pagesOwn, cliVars, serverVars>>
    \/ page = "assignments" /\ AssignmentsNext /\ UNCHANGED <<pageVars, pagesOwn, cliVars, rankVars, sprintVars>>
    \/ page = "sprints" /\ SprintsNext /\ UNCHANGED <<pageVars, pagesOwn, cliVars, rankVars, itemVars>>

programsVars == <<pageVars, pagesOwn, otherVars>>
ProgramsSpec == ProgramsInit /\ [][ProgramsNext]_programsVars

\* The types of whichever program runs.
ProgramsTypeOK ==
    /\ BoardTypeOK /\ BacklogTypeOK /\ EpicsTypeOK /\ ListTypeOK /\ FormsTypeOK /\ DetailTypeOK /\ TimelineTypeOK
    /\ CliTypeOK /\ RanksWellFormed /\ AssignmentsTypeOK /\ SprintsTypeOK
=============================================================================
