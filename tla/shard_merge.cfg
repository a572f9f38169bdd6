SPECIFICATION MergeSpec
CONSTANTS
    MaxCacheNum = 2
    FilterRules <- SmallFilterRules
    Events <- SmallEvents
    Queries = {"q", "r"}
    NoQuery = "no query"
    Asked <- SmallAsked
    Nobody = Nobody
    MappingRules <- SmallMappingRules
    MappedTables <- SmallMapped
    Columns = {"id", "name"}
    Callers = {c1}
    Idle = Idle
    Failed = Failed
    IdBits = 5
    instanceIDBitSize = 1
    schemaIDBitSize = 1
    tableIDBitSize = 2
    RuleSets <- SmallRuleSets
    RouteRules <- SmallRoutes
    NoTable = NoTable
    MaxRoutes = 3
    RoutedTables <- SmallRouted
    TableInfos <- SmallTables
    MaxShards = 3
INVARIANTS
    MatchIsGlob
    FilterDecides
    MappingFresh
    ShardIdsDistinct
    
    RouteMeaning
    JoinIsBound
    JoinHoldsRows
    JoinStable
CHECK_DEADLOCK FALSE
