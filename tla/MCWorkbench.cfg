SPECIFICATION Spec
CONSTANTS
    Files <- MCFiles
    Letters = {"w"}
    MaxKeys = 3
    MaxChars = 5
    MaxEditors = 3
    Body <- MCBody
    EdFiles <- MCEdFiles
    EdInputs <- MCEdInputs
    EdAddresses <- MCEdAddresses
    EdPatterns = {"a"}
    MaxCommands = 3
    MaxChunk = 3
    RopeTexts <- MCRopeTexts
    RopeInserts <- MCRopeInserts
    MaxRopeEdits = 2
    MaxSize = 1
    Root = "top"
    Listing <- MCListing
    TreeHeights = {1, 2}
    GitFiles <- MCGitFiles
    Contents = {"x"}
    GitHeights = {1, 3}
    DiffLines = 3
    Labels <- MCLabels
    QueryChars = {"a", "b"}
    MaxQuery = 3
    MaxOutput = 2
    MaxShells = 2
    MaxRevision = 3
    Digest <- MCDigest
    DefaultTagWidth = 1
    MaxTagWidth = 3
    Null = Null
    NotAFile = NotAFile
    Fold <- MCFold
    InfoFiles <- MCInfoFiles
    InfoHeights = {0, 1, 4}
    MaxHistory = 3
    PopupRows = {1, 2, 9, 15}
    PopupWidths = {5, 25, 90}
    PopupPanes <- MCPopupPanes
    ScreenSizes <- MCScreenSizes
    Drawings <- MCDrawings
    FrameWidths = {5, 26, 54, 90}
    FrameHeights = {1, 5, 7, 9, 20}
    Cages <- MCCages
    PipeSize = 2
    OutputCap = 1
    MaxPut = 4
    ChatWidths = {5, 36}
    ChatHeights = {6, 9}
    MaxLines = 5
    MaxTokens = 2
    StreamEvents <- MCStreamEvents
    CaseTexts <- MCCaseTexts
    CaseNews <- MCCaseNews
    CaseQueries <- MCCaseQueries
INVARIANTS
    WindowsAreSound
    ResultsAreExact
    KeysActOnWhatIsShown
PROPERTIES
    CursorsFollowTheirText
    LinesAreKept
    OutcomesAreTrue
    HelpersAndHintsKeepUp
CHECK_DEADLOCK FALSE
