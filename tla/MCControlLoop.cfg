SPECIFICATION FairSpec
CONSTANTS
    i1 = i1
    p1 = p1
    w1 = w1
    w2 = w2
    w3 = w3
    short = short
    long = long
    NoTitle = NoTitle
    TheRepo = repo
    Issues <- OneIssue
    Prs <- OnePr
    MaxRetries = 1
    MaxCreates = 1
    Cutoff <- ShortCutoffs
    Feed = "lists"
    MaxLost = 1
    MaxMoves = 1
    Home = home
    Service = service
    Words <- AllWords
    Titles <- SomeTitles
    Contains <- Found
    Keywords <- Extracted
    MaxKeywords = 2
    Forges <- EitherForge
    Proposals <- SomeProposals
    MaxProposals = 2
    MaxNumber = 3
    PrNumbers = {1}
    MaxActs = 1
    MaxErrors = 1
    MaxPaid = 2
    MaxStuck = 1
    Target = 2
    NoData = NoData
    MaxChanges = 2
    MaxFaults = 1
    N = 1
    LaneRetries = 2
    MaxLaneLost = 2
    MaxPushes = 2
    d1 = d1
    NoPost = NoPost
    Posts <- OneDecision
    LiveModes <- EitherMode
    MaxComments = 3
    MaxIterations = 3
    MaxFinals = 2
    MaxFailures = 2
    Cofounders = 2
    MaxItem = 3
    ItemKinds <- SomeKinds
    Snapshot = TRUE
    Action <- Recommended
    MaxHours = 1
    MaxShifts = 3
    MaxRankFaults = 1
INVARIANTS LoopTypeOK StageLabelKept OneOpenIssuePerTitle ReportedHasIssue CountIsExact AttemptsBounded NoticesSpaced NoPushLost CapHolds AnswersInOrder NeverTwiceUnlessFailed FinalFollowsProposal
PROPERTIES NotReportedTwice BrokenIsHandled RankChangeIsTold FeedbackIsAnswered ApprovalIsDecided
