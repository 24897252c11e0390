CONSTANTS
    None = None
    References <- MCReferences
    Names <- MCNames
    Idents <- MCIdents
    Crons <- MCCrons
    Recipients <- MCRecipients
    Globs <- MCGlobs
    URLs <- MCURLs
    Addresses <- MCAddresses
    Conns <- MCConns
    Scenes <- MCScenes
    initialPartSize = 2
    maxPartSize = 4
    partsPerGrowth = 2
    maxParts = 4
    concurrency = 2
    MaxFaults = 2
    Sizes <- MCSizes
SPECIFICATION CommandSpec
INVARIANTS AcceptedIsHonoured SealedAsDeclared  StoreVerdict CanaryGone GreenMeansGo WholeOrNothing
PROPERTIES  CommandsEnd
CHECK_DEADLOCK FALSE
