--------------------------- MODULE ProgramsProofs ---------------------------
(***************************************************************************)
(* The types of MCPrograms, whichever program runs: the invariants of the  *)
(* planning service, of the command line and of the pages, put together.   *)
(* A program keeps its own invariant, and the others stay as parked.       *)
(***************************************************************************)
EXTENDS MCPrograms, BoardPageProofs, ClientProofs, EpicsPageProofs, FormDialogsProofs, PlanningServiceProofs

\* A page has its invariant while it is the page that runs.
PagesInv ==
    /\ page = "board" => BoardInv
    /\ page = "backlog" => StoriesInv /\ BacklogTypes
    /\ page = "epics" => EpicsInv /\ PreviewsAgree /\ EpicTypes
    /\ page = "list" => ListTypes
    /\ page = "forms" => FormsInv /\ FormTypes
    /\ page = "detail" => DraftInv /\ SidesAgree /\ DetailTypes
    /\ page = "timeline" => TimelineTypes

\* The command line parked is one that has exited.
CommandInv == IF page = "cli" THEN CliTypes ELSE CliTypeOK

ServiceInv == ColumnInv /\ AssignmentsInv /\ SprintsInv

ProgramsInv == PagesInv /\ CommandInv /\ ServiceInv

-----------------------------------------------------------------------------
(* Programs that are parked.                                               *)

LEMMA ParkedItems == ASSUME ItemsParked PROVE AssignmentsInv
<1>1. AssignmentsTypeOK
  BY AssignmentsAssumption DEF ItemsParked, AssignmentsTypeOK, ItemRows, Unborn
<1>2. RequestsInv
  BY DEF ItemsParked, RequestsInv
<1>3. UnbornInv
  BY DEF ItemsParked, UnbornInv, On, Quiet
<1>4. \A i \in WorkItems : ~Exists(i)
  BY DEF ItemsParked, Exists, Unborn
<1> QED BY <1>1, <1>2, <1>3, <1>4 DEF ItemsParked, AssignmentsInv, RowsInv, EntriesInv

LEMMA ParkedSprints == ASSUME SprintsParked PROVE SprintsInv
<1>1. SprintsTypeOK
  BY SprintsAssumption DEF SprintsParked, SprintsTypeOK, PlanBoardRows, PlanRecords, Unplanned, Bklg
<1>2. CompletionsInv
  BY DEF SprintsParked, CompletionsInv, Unplanned
<1>3. CompletedSprintKeepsNothingOpen
  BY DEF SprintsParked, CompletedSprintKeepsNothingOpen, Bklg
<1> QED BY <1>1, <1>2, <1>3 DEF SprintsInv

LEMMA ParkedCli == ASSUME CliParked PROVE CliTypeOK
BY DEF CliParked, CliTypeOK

LEMMA NewColumn == ASSUME RankInit PROVE ColumnInv
BY EmptySeq DEF RankInit, ColumnInv

-----------------------------------------------------------------------------
(* The program that begins.                                                *)

LEMMA ServiceStart == ASSUME ProgramsInit PROVE ServiceInv
<1>1. ServerParked => AssignmentsInv /\ SprintsInv
  BY ParkedItems, ParkedSprints DEF ServerParked
<1>2. (AssignmentsInit => AssignmentsInv) /\ (SprintsInit => SprintsInv)
  BY AssignmentsStart, SprintsStart
<1>3. RankInit
  BY DEF ProgramsInit
<1> QED BY <1>1, <1>2, <1>3, NewColumn, ParkedItems, ParkedSprints DEF ProgramsInit, ServiceInv

LEMMA CommandStart == ASSUME ProgramsInit PROVE CommandInv
<1>1. CASE CliParked
  <2>1. page # "cli"
    BY <1>1 DEF ProgramsInit, BoardInit, BacklogInit, EpicsInit, ListInit, FormsInit, DetailInit, TimelineInit,
                Alone, NoPage, Mount, CliInit, CliParked
  <2> QED BY <1>1, <2>1, ParkedCli DEF CommandInv
<1>2. CASE CliInit
  BY <1>2, CliInitTypes DEF CommandInv, CliTypes
<1> QED BY <1>1, <1>2 DEF ProgramsInit

LEMMA PagesStart == ASSUME ProgramsInit PROVE PagesInv
<1>1. CASE BoardInit
  BY <1>1, BoardInitInv DEF PagesInv, BoardInit, Mount
<1>2. CASE BacklogInit
  BY <1>2, StoriesStart, BacklogTypesStart DEF PagesInv, BacklogInit, Mount
<1>3. CASE EpicsInit
  BY <1>3, EpicsInitInv, AgreesStart, EpicTypesStart DEF PagesInv, EpicsInit, Mount
<1>4. CASE ListInit
  BY <1>4, ListStartTypes DEF PagesInv, ListInit, Mount
<1>5. CASE FormsInit
  BY <1>5, FormsInitInv, FormTypesStart DEF PagesInv, FormsInit, Mount
<1>6. CASE DetailInit
  BY <1>6, DraftStart, SidesStart, DetailStartTypes DEF PagesInv, DetailInit, Mount
<1>7. CASE TimelineInit
  BY <1>7, TimelineInitTypes DEF PagesInv, TimelineInit, Mount
<1>8. ASSUME NEW name \in {"cli", "ranks", "assignments", "sprints"}, Alone(name) PROVE PagesInv
  BY <1>8 DEF PagesInv, Alone, NoPage, Mount
<1> QED BY <1>1, <1>2, <1>3, <1>4, <1>5, <1>6, <1>7, <1>8 DEF ProgramsInit

-----------------------------------------------------------------------------
(* The program that runs.                                                  *)

\* What a step of one program leaves to the others.
LEMMA StepsOfService ==
  ASSUME [ProgramsNext]_programsVars
  PROVE  [RankNext]_rankVars /\ [AssignmentsNext]_itemVars /\ [SprintsNext]_sprintVars
BY DEF ProgramsNext, programsVars, otherVars, serverVars

LEMMA StepOfCli ==
  ASSUME [ProgramsNext]_programsVars
  PROVE  page' = page /\ IF page = "cli" THEN [CliNext]_cliVars ELSE UNCHANGED cliVars
BY DEF ProgramsNext, programsVars, otherVars, pageVars, Mounted,
       BoardNext, BacklogNext, EpicsNext, ListNext, FormsNext, DetailNext, TimelineNext

\* A page that has not the step stands still.
PageStands ==
    /\ UNCHANGED boardVars /\ UNCHANGED backlogVars /\ UNCHANGED epicsVars /\ UNCHANGED listVars
    /\ UNCHANGED formVars /\ UNCHANGED detailVars /\ UNCHANGED timelineVars

LEMMA NoPageSteps == ASSUME UNCHANGED <<pageVars, pagesOwn>> PROVE PageStands
BY DEF PageStands, pagesOwn, boardOwn, backlogOwn, epicsOwn, listOwn, formOwn, detailOwn, timelineOwn,
       boardVars, backlogVars, epicsVars, listVars, formVars, detailVars, timelineVars

LEMMA StepOfPage ==
  ASSUME [ProgramsNext]_programsVars
  PROVE  /\ page = "board" => [BoardNext]_boardVars
         /\ page = "backlog" => [BacklogNext]_backlogVars
         /\ page = "epics" => [EpicsNext]_epicsVars
         /\ page = "list" => [ListNext]_listVars
         /\ page = "forms" => [FormsNext]_formVars
         /\ page = "detail" => [DetailNext]_detailVars
         /\ page = "timeline" => [TimelineNext]_timelineVars
<1>1. CASE UNCHANGED <<pageVars, pagesOwn>>
  BY <1>1, NoPageSteps DEF PageStands
<1>2. CASE \/ BoardNext \/ BacklogNext \/ EpicsNext \/ ListNext \/ FormsNext \/ DetailNext \/ TimelineNext
  BY <1>2 DEF BoardNext, BacklogNext, EpicsNext, ListNext, FormsNext, DetailNext, TimelineNext, Mounted
<1> QED BY <1>1, <1>2 DEF ProgramsNext, programsVars

LEMMA PagesStep == ASSUME PagesInv, [ProgramsNext]_programsVars PROVE PagesInv'
<1>1. page' = page
  BY StepOfCli
<1>2. CASE page = "board"
  BY <1>1, <1>2, StepOfPage, BoardNextInv DEF PagesInv
<1>3. CASE page = "backlog"
  BY <1>1, <1>3, StepOfPage, StoriesStep, BacklogTypesStep DEF PagesInv
<1>4. CASE page = "epics"
  BY <1>1, <1>4, StepOfPage, EpicsNextInv, EpicStepAgrees, EpicTypesStep DEF PagesInv
<1>5. CASE page = "list"
  BY <1>1, <1>5, StepOfPage, ListTypesStep DEF PagesInv
<1>6. CASE page = "forms"
  BY <1>1, <1>6, StepOfPage, FormsNextInv, FormTypesStep DEF PagesInv
<1>7. CASE page = "detail"
  BY <1>1, <1>7, StepOfPage, DraftStep, SidesStep, DetailTypesStep DEF PagesInv
<1>8. CASE page = "timeline"
  BY <1>1, <1>8, StepOfPage, TimelineNextTypes DEF PagesInv
<1> QED BY <1>1, <1>2, <1>3, <1>4, <1>5, <1>6, <1>7, <1>8 DEF PagesInv

LEMMA CommandStep == ASSUME CommandInv, [ProgramsNext]_programsVars PROVE CommandInv'
<1>1. CASE page = "cli"
  BY <1>1, StepOfCli, CliNextTypes DEF CommandInv
<1>2. CASE page # "cli"
  <2>1. page' # "cli" /\ UNCHANGED cliVars
    BY <1>2, StepOfCli
  <2>2. CliTypeOK'
    BY <1>2, <2>1 DEF CommandInv, CliTypeOK, cliVars
  <2> QED BY <2>1, <2>2 DEF CommandInv
<1> QED BY <1>1, <1>2

LEMMA ServiceStep == ASSUME ServiceInv, [ProgramsNext]_programsVars PROVE ServiceInv'
BY StepsOfService, ColumnKeeps, AssignmentsStepKeeps, SprintsStepKeeps DEF ServiceInv

-----------------------------------------------------------------------------
(* Types.                                                                  *)

LEMMA PagesSay ==
  ASSUME PagesInv
  PROVE  BoardTypeOK /\ BacklogTypeOK /\ EpicsTypeOK /\ ListTypeOK /\ FormsTypeOK /\ DetailTypeOK /\ TimelineTypeOK
<1>1. BoardTypeOK
  BY BoardInvSays DEF PagesInv, BoardTypeOK
<1>2. BacklogTypeOK
  BY BacklogTypesSay DEF PagesInv, BacklogTypeOK
<1>3. EpicsTypeOK
  BY EpicTypesSay DEF PagesInv, EpicsTypeOK
<1>4. ListTypeOK
  BY ListTypesSay DEF PagesInv, ListTypeOK
<1>5. FormsTypeOK
  BY FormTypesSay DEF PagesInv, FormsTypeOK
<1>6. DetailTypeOK
  BY DetailTypesSay DEF PagesInv, DetailTypeOK
<1>7. TimelineTypeOK
  BY DEF PagesInv, TimelineTypes, TimelineTypeOK
<1> QED BY <1>1, <1>2, <1>3, <1>4, <1>5, <1>6, <1>7

\* Whichever program is started, for any sizes of its sets and any initial data its
\* assumptions admit: the tables of the planning service, the command line and every page
\* hold what their types say, after any requests, answers and handlers in any order.
THEOREM ProgramTypes == ProgramsSpec => []ProgramsTypeOK
<1>1. ProgramsInit => ProgramsInv
  BY PagesStart, CommandStart, ServiceStart DEF ProgramsInv
<1>2. ProgramsInv /\ [ProgramsNext]_programsVars => ProgramsInv'
  BY PagesStep, CommandStep, ServiceStep DEF ProgramsInv
<1>3. ProgramsInv => ProgramsTypeOK
  <2> SUFFICES ASSUME ProgramsInv PROVE ProgramsTypeOK
    OBVIOUS
  <2>1. CliTypeOK
    BY DEF ProgramsInv, CommandInv, CliTypes
  <2>2. RanksWellFormed /\ AssignmentsTypeOK /\ SprintsTypeOK
    BY ColumnSays DEF ProgramsInv, ServiceInv, AssignmentsInv, SprintsInv
  <2> QED BY <2>1, <2>2, PagesSay DEF ProgramsInv, ProgramsTypeOK
<1> QED BY <1>1, <1>2, <1>3, PTL DEF ProgramsSpec
=============================================================================
