SPECIFICATION ProgramsSpec
CONSTANTS
    p1 = p1
    p2 = p2
    b0 = b0
    b1 = b1
    b2 = b2
    b3 = b3
    s1 = s1
    s2 = s2
    s3 = s3
    e1 = e1
    e2 = e2
    x1 = x1
    x2 = x2
    l1 = l1
    t1 = t1
    t2 = t2
    r1 = r1
    r2 = r2
    i1 = i1
    i2 = i2
    k1 = k1
    k2 = k2
    w1 = w1
    n1 = n1
    n2 = n2
    d1 = d1
    d2 = d2
    NoOne = NoOne
    Keep = Keep
    NoPlace = NoPlace
    NoProject = NoProject
    NoKey = NoKey
    NoRank = NoRank
    NoBoard = NoBoard
    NoEpic = NoEpic
    NoId = NoId
    Temp = Temp
    Projects = {p1, p2}
    MaxCalls = 3
    Stories = {s1, s2}
    InitialStories <- MCInitialStories
    StoryProject <- MCStoryProject
    Statuses = {"TODO", "DONE"}
    Ranks = {1, 2}
    BoardProject = p1
    Boards = {b0, b1, b2, b3}
    DefaultBoard = b0
    BacklogStories = {s1, s2}
    InitialBacklogs <- MCInitialBacklogs
    Epics = {e1, e2}
    EpicStories = {s1}
    EpicProject <- MCEpicProject
    Labelled = {e1}
    EpicStatuses = {"TODO", "DONE"}
    InitialEpics <- MCInitialEpics
    MaxPreviews = 2
    ListRows = {s1, s2, s3}
    RowProject <- MCRowProject
    ListBoards = {b1, b2}
    ListBoardProject = p1
    RowStatuses = {"TODO", "DONE"}
    InitialLists <- MCInitialLists
    FormEpics = {e1, e2}
    FormBoards = {b1, b2}
    DetailStories = {s1, s2}
    Texts = {x1, x2}
    Labels = {l1}
    TaskIds = {t1, t2}
    InitialDetails <- MCInitialDetails
    TimelineRuns = {r1, r2}
    RunStatuses = {"FAILED"}
    AnyStatus = ""
    Ids = {i1, i2}
    Keys = {k1, k2}
    InitialItems <- MCInitialItems
    Invocations <- MCInvocations
    MaxRows = 3
    Times = {0, 1, 2}
    MaxPolls = 3
    Base = 4
    MaxMoves = 5
    ItemSessions = {d1, d2}
    WorkItems = {w1}
    Agents = {n1, n2}
    PatchStatuses = {"TODO", "DONE"}
    MaxRequests = 4
    SprintSessions = {d1, d2}
    SprintItems = {s1, s2}
    SprintBoards = {b0, b1, b2}
    ProductBacklog = b0
    Kinds = {"BACKLOG", "SPRINT"}
    InitialSprints <- MCInitialSprints
    MaxPlans = 4
CHECK_DEADLOCK FALSE
INVARIANTS
    ProgramsTypeOK
    ExitCodeTellsEffect
    TailPrintsEachRowOnce
    BoardAgreesWhenQuiet
    PendingHasHandler
    OneChangePerStory
    LoadingIsAwaited
    MoveNeverLosesStory
    BoardRanksDistinct
    OpenStoriesStayVisible
    PreviewSpinnerEnds
    PreviewAgreesWhenQuiet
    SavesWhatItOpened
    ClosesOnlyAfterEscape
    SavesItsOwnDraft
    DetailAgreesWhenQuiet
    ListAgreesWhenQuiet
    EventsBelongToRun
    RoomMeansBetween
    RowNamesAssignee
    EntryFollowsAssignee
    CompletedSprintKeepsNothingOpen
PROPERTIES
    TypedTextStays
