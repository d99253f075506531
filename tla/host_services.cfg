SPECIFICATION FairSpec
CONSTANTS
    WebProcesses <- HttpAndHttps
    Restarted = {"https"}
    Interfaces = {"e0", "e1"}
    Environment <- MCEnvironment
    MaxSaves = 2
    MaxPairs = 3
    SmbHandlers = {"h1", "h2"}
    EnvPassword = 1
    MaxPasswords = 3
    Trees <- MCTrees
    MaxChanges = 5
    Builders <- HttpAndHttps
    Options = {"plain", "keyboard"}
    DefaultOptions = "plain"
    WithKeyboard = {"keyboard"}
    MaxBuilds = 2
    LibIsos = {1, 2}
    LibTemplates = {1}
    LibHosts = {1}
    LibEditors = {1}
    Content <- MCContent
    OldLibraries <- MCOldLibraries
    PostedSources = {"", "server", "dc"}
    PostedIndexes = {4}
    MaxJobs = 1
INVARIANTS
    TypeOK
    SettingsServed
    HttpsServesThePair
    ShareOpensAsTold
    ExportIdsDiffer
    StockCanReturn
    ReadyIsWhatIsShown
    SourceFits
PROPERTY
    ExportsFollow
CHECK_DEADLOCK FALSE
